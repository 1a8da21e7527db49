----------------------------- MODULE Process_proofs -----------------------------
(* Proofs about the contexts of a process (Context): their callbacks and the *)
(* reference count of the logging, for any contexts, nodes and callbacks,    *)
(* and any number of calls; about the entities of a node (NodeEntities, the  *)
(* instance Lists, whose parameters have names and no values): its wait set  *)
(* follows its lists, its handles are freed by their last user, for any      *)
(* entities and threads; and about the parameters of a node (NodeParameters, *)
(* the instance Params): what is stored obeys its descriptors, and the time  *)
(* source and the readers of the events agree with it, for any names,        *)
(* values, descriptors and lists.                                            *)
EXTENDS Context, FiniteSetTheorems, SequenceTheorems, TLAPS

CONSTANTS Users, Entities, Guards, WithEvents, Node
VARIABLES list, doing, created, marked, asked, freed, users, wake, at, index, gathered
Lists == INSTANCE NodeEntities WITH Threads <- Users

CONSTANTS ParamNames, SimTime, User, Service, Items, Settings, Overrides, MaxCalls
VARIABLES params, descriptors, onSet, simActive, op, mirror, allowUndeclared, quirks, setterCalls
Params == INSTANCE NodeParameters WITH Names <- ParamNames, callbacks <- onSet, calls <- setterCalls

-------------------------------------------------------------------------------
(* init() and shutdown() of contexts *)

Steps == {Idle} \cup [at : {"nodes", "callbacks"}, i : Nat \ {0}]

ContextTypeOK ==
    /\ rcl \in [Contexts -> {"none", "ok", "down"}]
    /\ callbacks \in [Contexts -> Seq(Callbacks)]
    /\ logging \in [Contexts -> BOOLEAN] /\ configured \in BOOLEAN
    /\ cleaning \in [Contexts -> Steps]
    /\ owned \in SUBSET Callbacks /\ called \in [Callbacks -> Nat]
    /\ home \in [Nodes \cup Callbacks -> Contexts \cup {None}]
    /\ cleaned \in SUBSET Contexts

(* A context that was shut down, or is being, never begins again.            *)
ShutdownIsForever == \A c \in Contexts :
    /\ ~Free(c) => rcl[c] # "none"
    /\ cleaning[c].at = "callbacks" => rcl[c] = "down"
    /\ c \in cleaned => rcl[c] = "down" /\ callbacks[c] = <<>>

Visited(c, i) == cleaning[c].at = "callbacks" /\ i < cleaning[c].i

(* The list of a context holds its callbacks once each; those before the     *)
(* index of the loop were called, but for what the collector moved there,    *)
(* and no other was.                                                         *)
ListsAreSound == \A c \in Contexts : \A i \in DOMAIN callbacks[c] :
    /\ home[callbacks[c][i]] = c /\ callbacks[c][i] \in owned
    /\ \A j \in DOMAIN callbacks[c] : callbacks[c][i] = callbacks[c][j] => i = j
    /\ Visited(c, i) /\ c \notin disturbed => called[callbacks[c][i]] = 1
    /\ ~Visited(c, i) => called[callbacks[c][i]] = 0

(* A callback whose owner lives is in the list, or was called.               *)
CallbacksAreKept ==
    /\ \A k \in Callbacks : called[k] <= 1 /\ (home[k] = None => called[k] = 0)
    /\ \A k \in owned :
          /\ home[k] \in Contexts
          /\ home[k] \in disturbed \/ called[k] = 1 \/ \E i \in DOMAIN callbacks[home[k]] : callbacks[home[k]][i] = k

PInv == ContextTypeOK /\ ShutdownIsForever /\ ListsAreSound /\ CallbacksAreKept /\ LoggingFollowsContexts

LEMMA InitPInv == ASSUME ContextsAssumption, Init PROVE PInv
<1>1. ContextTypeOK
  <2>1. callbacks \in [Contexts -> Seq(Callbacks)]
    BY DEF Init
  <2> QED
    BY <2>1 DEF Init, ContextTypeOK, Steps
<1>2. ShutdownIsForever /\ ListsAreSound /\ CallbacksAreKept
  BY DEF Init, Free, Idle, ShutdownIsForever, ListsAreSound, CallbacksAreKept
<1>3. {c \in Contexts : logging[c]} = {}
  BY DEF Init
<1>4. LoggingFollowsContexts
  <2>1. logCount = Cardinality({c \in Contexts : logging[c]})
    BY <1>3, FS_EmptySet DEF Init
  <2>2. configured = FALSE /\ logCount = 0
    BY DEF Init
  <2>3. configured = (logCount > 0)
    <3>1. (logCount > 0) = FALSE
      BY <2>2
    <3> QED
      BY <2>2, <3>1
  <2>4. cleaned = {}
    BY DEF Init
  <2> QED
    BY <2>1, <2>3, <2>4 DEF LoggingFollowsContexts
<1> QED
  BY <1>1, <1>2, <1>4 DEF PInv

(* init() of a context: it counts once.                                      *)
LEMMA InitContextPInv ==
    ASSUME ContextsAssumption, PInv, NEW c \in Contexts, InitContextManager(c)
    PROVE  PInv'
<1> DEFINE S == {d \in Contexts : logging[d]}
<1>0. init(c)
  BY DEF InitContextManager
<1>1. ContextTypeOK'
  BY <1>0 DEF init, objects, PInv, ContextTypeOK
<1>2. ShutdownIsForever'
  BY <1>0 DEF init, Free, PInv, ContextTypeOK, ShutdownIsForever
<1>3. ListsAreSound' /\ CallbacksAreKept'
  BY <1>0 DEF init, objects, PInv, ListsAreSound, Visited, CallbacksAreKept
<1>4. IsFiniteSet(S) /\ Cardinality(S) \in Nat /\ logCount = Cardinality(S)
  BY FS_Subset, FS_CardinalityType DEF ContextsAssumption, PInv, LoggingFollowsContexts
<1>5. {d \in Contexts : logging'[d]} = S \cup {c}
  BY <1>0 DEF init, PInv, ContextTypeOK
<1>6. Cardinality(S \cup {c}) = IF c \in S THEN Cardinality(S) ELSE Cardinality(S) + 1
  BY <1>4, FS_AddElement
<1>7. c \in S => Cardinality(S) > 0
  BY <1>4, FS_EmptySet
<1>8. logCount' = Cardinality(S \cup {c})
  BY <1>0, <1>4, <1>6 DEF init
<1>9. configured' = (logCount' > 0)
  <2>1. /\ configured' <=> configured \/ logCount' = 1
        /\ configured <=> logCount > 0
    BY <1>0 DEF init, PInv, LoggingFollowsContexts
  <2>2. configured' <=> logCount' > 0
    BY <1>0, <1>4, <1>6, <1>7, <1>8, <2>1 DEF init
  <2>3. configured' \in BOOLEAN
    BY <1>1 DEF ContextTypeOK
  <2> QED
    BY <2>2, <2>3
<1>10. \A d \in Contexts : d \in cleaned' /\ Free(d)' => ~logging'[d]
  BY <1>0 DEF init, Free, PInv, ContextTypeOK, ShutdownIsForever, LoggingFollowsContexts
<1>11. LoggingFollowsContexts'
  BY <1>1, <1>5, <1>8, <1>9, <1>10 DEF LoggingFollowsContexts, ContextTypeOK
<1> QED
  BY <1>1, <1>2, <1>3, <1>11 DEF PInv

(* Nodes are of no concern to the logging and to the callbacks.              *)
LEMMA NodesPInv ==
    ASSUME ContextsAssumption, PInv,
           \/ \E c \in Contexts, n \in Nodes : track_node(c, n)
           \/ \E n \in Nodes : destroy_node(n)
    PROVE  PInv'
<1>1. /\ UNCHANGED <<rcl, callbacks, cleaning, logging, logCount, configured, owned, called, cleaned, disturbed>>
      /\ home' \in [Nodes \cup Callbacks -> Contexts \cup {None}]
      /\ \A k \in Callbacks : home'[k] = home[k]
  BY DEF track_node, destroy_node, ContextsAssumption, PInv, ContextTypeOK
<1>2. ContextTypeOK' /\ ShutdownIsForever' /\ LoggingFollowsContexts'
  BY <1>1 DEF PInv, ContextTypeOK, ShutdownIsForever, Free, LoggingFollowsContexts
<1>3. \A c \in Contexts : \A i \in DOMAIN callbacks[c] : callbacks[c][i] \in Callbacks
  BY DEF PInv, ContextTypeOK
<1>4. ListsAreSound' /\ CallbacksAreKept'
  BY <1>1, <1>3 DEF PInv, ContextTypeOK, ListsAreSound, Visited, CallbacksAreKept
<1> QED
  BY <1>2, <1>4 DEF PInv

(* The signal, which only rcl learns of, and the end of its handlers.        *)
LEMMA SignalPInv == PInv /\ (Signal \/ uninstall_signal_handlers) => PInv'
<1> SUFFICES ASSUME PInv, Signal \/ uninstall_signal_handlers PROVE PInv'
  OBVIOUS
<1>1. /\ UNCHANGED <<callbacks, cleaning, logging, logCount, configured, home, owned, called, cleaned, disturbed>>
      /\ rcl' \in [Contexts -> {"none", "ok", "down"}]
      /\ \A c \in Contexts : rcl'[c] = rcl[c] \/ (rcl[c] = "ok" /\ rcl'[c] = "down")
  BY DEF Signal, uninstall_signal_handlers, objects, PInv, ContextTypeOK
<1>2. ContextTypeOK' /\ ShutdownIsForever' /\ ListsAreSound' /\ CallbacksAreKept' /\ LoggingFollowsContexts'
  BY <1>1 DEF PInv, ContextTypeOK, ShutdownIsForever, Free, ListsAreSound, Visited, CallbacksAreKept,
     LoggingFollowsContexts
<1> QED
  BY <1>2 DEF PInv

(* on_shutdown(): the callback is the last of its list, or was called.       *)
LEMMA OnShutdownPInv ==
    ASSUME ContextsAssumption, PInv, NEW c \in Contexts, NEW k \in Callbacks, on_shutdown(c, k)
    PROVE  PInv'
<1> DEFINE s == callbacks[c]
<1>1. /\ Free(c) /\ home[k] = None /\ called[k] = 0
      /\ home' = [home EXCEPT ![k] = c] /\ owned' = owned \cup {k}
      /\ UNCHANGED <<rcl, cleaning, logging, logCount, configured, cleaned, disturbed>>
  BY DEF on_shutdown, PInv, CallbacksAreKept
<1>2. \/ /\ rcl[c] = "down"
         /\ called' = [called EXCEPT ![k] = 1] /\ callbacks' = callbacks
      \/ /\ rcl[c] # "down"
         /\ callbacks' = [callbacks EXCEPT ![c] = Append(s, k)] /\ called' = called
  BY <1>1 DEF on_shutdown, on_shutdown_call, on_shutdown_keep, PInv, ContextTypeOK
<1>3. /\ s \in Seq(Callbacks) /\ Len(s) \in Nat
      /\ Append(s, k) \in Seq(Callbacks) /\ Len(Append(s, k)) = Len(s) + 1
      /\ DOMAIN s = 1 .. Len(s) /\ DOMAIN Append(s, k) = 1 .. (Len(s) + 1)
      /\ \A i \in 1 .. Len(s) : Append(s, k)[i] = s[i]
      /\ Append(s, k)[Len(s) + 1] = k
  BY DEF PInv, ContextTypeOK
<1> HIDE DEF s
<1>4. \A d \in Contexts : \A i \in DOMAIN callbacks[d] : callbacks[d][i] \in Callbacks /\ callbacks[d][i] # k
  BY <1>1 DEF PInv, ContextTypeOK, ListsAreSound, ContextsAssumption
<1>5. ContextTypeOK'
  <2>1. callbacks' \in [Contexts -> Seq(Callbacks)]
    BY <1>2, <1>3 DEF PInv, ContextTypeOK
  <2>2. called' \in [Callbacks -> Nat]
    BY <1>2 DEF PInv, ContextTypeOK
  <2>3. home' \in [Nodes \cup Callbacks -> Contexts \cup {None}] /\ owned' \in SUBSET Callbacks
    BY <1>1 DEF PInv, ContextTypeOK
  <2> QED
    BY <1>1, <2>1, <2>2, <2>3 DEF PInv, ContextTypeOK
<1>6. ShutdownIsForever' /\ LoggingFollowsContexts'
  BY <1>1, <1>2 DEF PInv, ContextTypeOK, ShutdownIsForever, Free, LoggingFollowsContexts
<1>7. \A d \in Contexts : \A i : Visited(d, i)' = Visited(d, i) /\ ~Visited(c, i)
  BY <1>1 DEF Visited, Free, Idle
<1>8. ListsAreSound'
  <2>1. CASE callbacks' = callbacks
    BY <1>1, <1>2, <1>4, <1>7, <2>1 DEF PInv, ContextTypeOK, ListsAreSound
  <2>2. CASE callbacks' = [callbacks EXCEPT ![c] = Append(s, k)] /\ called' = called
    BY <1>1, <1>3, <1>4, <1>7, <2>2 DEF s, PInv, ContextTypeOK, ListsAreSound
  <2> QED
    BY <1>2, <2>1, <2>2
<1>9. CallbacksAreKept'
  <2>1. CASE callbacks' = callbacks /\ called' = [called EXCEPT ![k] = 1]
    BY <1>1, <2>1 DEF PInv, ContextTypeOK, CallbacksAreKept, ContextsAssumption
  <2>2. CASE callbacks' = [callbacks EXCEPT ![c] = Append(s, k)] /\ called' = called
    <3>1. /\ \A j \in Callbacks : home'[j] = IF j = k THEN c ELSE home[j]
          /\ \A d \in Contexts : callbacks'[d] = IF d = c THEN Append(s, k) ELSE callbacks[d]
          /\ c # None
      BY <1>1, <2>2 DEF PInv, ContextTypeOK, ContextsAssumption
    <3>2. \A j \in Callbacks : called'[j] <= 1 /\ (home'[j] = None => called'[j] = 0)
      BY <2>2, <3>1 DEF PInv, CallbacksAreKept
    <3>3. \E i \in DOMAIN callbacks'[home'[k]] : callbacks'[home'[k]][i] = k
      <4>1. home'[k] = c /\ callbacks'[c] = Append(s, k)
        BY <3>1
      <4>2. Len(s) + 1 \in DOMAIN Append(s, k)
        BY <1>3
      <4> QED
        BY <1>3, <4>1, <4>2
    <3>4. ASSUME NEW j \in owned, j # k
          PROVE  /\ home'[j] \in Contexts
                 /\ home'[j] \in disturbed \/ called[j] = 1
                    \/ \E i \in DOMAIN callbacks'[home'[j]] : callbacks'[home'[j]][i] = j
      <4>1. j \in Callbacks /\ home'[j] = home[j] /\ home[j] \in Contexts
        BY <3>1, <3>4 DEF PInv, ContextTypeOK, CallbacksAreKept
      <4>2. ASSUME NEW i \in DOMAIN callbacks[home[j]], callbacks[home[j]][i] = j
            PROVE  i \in DOMAIN callbacks'[home[j]] /\ callbacks'[home[j]][i] = j
        <5>1. CASE home[j] = c
          <6>1. callbacks'[c] = Append(s, k) /\ i \in 1 .. Len(s) /\ s[i] = j
            BY <1>3, <3>1, <4>2, <5>1 DEF s
          <6>2. i \in 1 .. (Len(s) + 1)
            BY <1>3, <6>1
          <6> QED
            BY <1>3, <5>1, <6>1, <6>2
        <5>2. CASE home[j] # c
          BY <3>1, <4>1, <4>2, <5>2
        <5> QED
          BY <5>1, <5>2
      <4> QED
        BY <4>1, <4>2 DEF PInv, CallbacksAreKept
    <3>5. home'[k] \in Contexts /\ called' = called /\ disturbed' = disturbed
      BY <1>1, <2>2, <3>1
    <3> QED
      BY <1>1, <3>2, <3>3, <3>4, <3>5 DEF CallbacksAreKept
  <2> QED
    BY <1>2, <2>1, <2>2
<1> QED
  BY <1>5, <1>6, <1>8, <1>9 DEF PInv

(* shutdown() begins.                                                        *)
LEMMA ShutdownBeginsPInv ==
    ASSUME PInv, NEW c \in Contexts,
           shutdown(c) \/ try_shutdown(c) \/ shutdown_default(c) \/ try_shutdown_default(c)
    PROVE  PInv'
<1>1. /\ UNCHANGED <<rcl, callbacks, logging, logCount, configured, home, owned, called, cleaned, disturbed>>
      /\ \/ cleaning' = cleaning
         \/ /\ rcl[c] # "none" /\ Free(c)
            /\ cleaning' = [cleaning EXCEPT ![c] = [at |-> "nodes", i |-> 1]]
  BY DEF shutdown, try_shutdown, shutdown_default, try_shutdown_default, objects
<1>2. CASE cleaning' = cleaning
  BY <1>1, <1>2 DEF PInv, ContextTypeOK, ShutdownIsForever, Free, ListsAreSound, Visited, CallbacksAreKept,
     LoggingFollowsContexts
<1>3. CASE rcl[c] # "none" /\ Free(c) /\ cleaning' = [cleaning EXCEPT ![c] = [at |-> "nodes", i |-> 1]]
  <2>1. ContextTypeOK'
    BY <1>1, <1>3 DEF PInv, ContextTypeOK, Steps
  <2>2. /\ \A d \in Contexts : d # c => cleaning'[d] = cleaning[d]
        /\ cleaning[c].at = "idle" /\ cleaning'[c].at = "nodes" /\ ~Free(c)'
    BY <1>3 DEF PInv, ContextTypeOK, Free, Idle
  <2>3. ShutdownIsForever' /\ LoggingFollowsContexts'
    BY <1>1, <1>3, <2>2 DEF PInv, ContextTypeOK, ShutdownIsForever, Free, LoggingFollowsContexts
  <2>4. \A d \in Contexts : \A i : Visited(d, i)' = Visited(d, i)
    BY <2>2 DEF Visited
  <2>5. ListsAreSound' /\ CallbacksAreKept'
    BY <1>1, <2>4 DEF PInv, ListsAreSound, CallbacksAreKept
  <2> QED
    BY <2>1, <2>3, <2>5 DEF PInv
<1> QED
  BY <1>1, <1>2, <1>3

(* The loop over the nodes, until rcl is shut down.                          *)
LEMMA CleanNodePInv == ASSUME PInv, NEW c \in Contexts, CleanNode(c) PROVE PInv'
<1>1. /\ UNCHANGED <<callbacks, logging, logCount, configured, home, owned, called, cleaned, disturbed>>
      /\ cleaning[c].at = "nodes" /\ cleaning' = [cleaning EXCEPT ![c] = cleaning'[c]]
      /\ \/ rcl' = rcl /\ cleaning'[c] = [at |-> "nodes", i |-> cleaning[c].i + 1]
         \/ rcl' = [rcl EXCEPT ![c] = "down"] /\ cleaning'[c] = [at |-> "callbacks", i |-> 1]
  BY DEF CleanNode, PInv, ContextTypeOK, Steps, Idle
<1>2. /\ cleaning[c].i \in Nat \ {0} /\ cleaning'[c] \in Steps
      /\ \A d \in Contexts : d # c => cleaning'[d] = cleaning[d] /\ rcl'[d] = rcl[d]
  BY <1>1 DEF PInv, ContextTypeOK, Steps, Idle
<1>3. ContextTypeOK'
  BY <1>1, <1>2 DEF PInv, ContextTypeOK
<1>4. ~Free(c) /\ ~Free(c)'
  BY <1>1 DEF Free, Idle
<1>5. ShutdownIsForever' /\ LoggingFollowsContexts'
  BY <1>1, <1>2, <1>4 DEF PInv, ContextTypeOK, ShutdownIsForever, Free, LoggingFollowsContexts
<1>6. \A d \in Contexts : \A i \in Nat \ {0} : Visited(d, i)' = Visited(d, i)
  BY <1>1, <1>2 DEF Visited
<1>7. \A d \in Contexts : DOMAIN callbacks[d] \subseteq Nat \ {0}
  BY DEF PInv, ContextTypeOK
<1>8. ListsAreSound' /\ CallbacksAreKept'
  BY <1>1, <1>6, <1>7 DEF PInv, ListsAreSound, CallbacksAreKept
<1> QED
  BY <1>3, <1>5, <1>8 DEF PInv

(* The loop over the callbacks visits each of them once.                     *)
LEMMA CallbackPInv ==
    ASSUME ContextsAssumption, PInv, NEW c \in Contexts, CallShutdownCallback(c)
    PROVE  PInv'
<1> DEFINE i == cleaning[c].i
           k == callbacks[c][i]
<1>1. /\ UNCHANGED <<rcl, callbacks, logging, logCount, configured, home, owned, cleaned, disturbed>>
      /\ cleaning[c].at = "callbacks" /\ i \in Nat \ {0} /\ i <= Len(callbacks[c])
      /\ cleaning' = [cleaning EXCEPT ![c] = [at |-> "callbacks", i |-> i + 1]]
      /\ called' = [called EXCEPT ![k] = called[k] + 1]
  <2>1. cleaning[c].at = "callbacks" /\ cleaning[c] \in [at : {"nodes", "callbacks"}, i : Nat \ {0}]
    BY DEF CallShutdownCallback, PInv, ContextTypeOK, Steps, Idle
  <2>2. cleaning' = [cleaning EXCEPT ![c] = [at |-> "callbacks", i |-> i + 1]]
    <3>1. [cleaning[c] EXCEPT !.i = i + 1] = [at |-> "callbacks", i |-> i + 1]
      BY <2>1
    <3>2. cleaning' = [cleaning EXCEPT ![c] = [cleaning[c] EXCEPT !.i = i + 1]]
      BY DEF CallShutdownCallback
    <3> QED
      BY <3>1, <3>2
  <2>3. called' = [called EXCEPT ![k] = called[k] + 1]
    BY DEF CallShutdownCallback
  <2> QED
    BY <2>1, <2>2, <2>3 DEF CallShutdownCallback
<1>2. /\ i \in DOMAIN callbacks[c] /\ k \in Callbacks
      /\ home[k] = c /\ called[k] = 0 /\ k \in owned
  BY <1>1 DEF PInv, ContextTypeOK, ListsAreSound, Visited
<1> HIDE DEF i, k
<1>3. called' = [called EXCEPT ![k] = 1]
  BY <1>1, <1>2
<1>4. ContextTypeOK'
  BY <1>1, <1>2, <1>3 DEF PInv, ContextTypeOK, Steps
<1>5. /\ \A d \in Contexts : d # c => cleaning'[d] = cleaning[d]
      /\ cleaning'[c].at = "callbacks" /\ cleaning'[c].i = i + 1 /\ ~Free(c) /\ ~Free(c)'
  BY <1>1 DEF PInv, ContextTypeOK, Free, Idle
<1>6. ShutdownIsForever' /\ LoggingFollowsContexts'
  BY <1>1, <1>5 DEF PInv, ContextTypeOK, ShutdownIsForever, Free, LoggingFollowsContexts
<1>7. ListsAreSound'
  <2> SUFFICES ASSUME NEW d \in Contexts, NEW j \in DOMAIN callbacks[d]
               PROVE  /\ Visited(d, j)' /\ d \notin disturbed => called'[callbacks[d][j]] = 1
                      /\ ~Visited(d, j)' => called'[callbacks[d][j]] = 0
    BY <1>1 DEF PInv, ListsAreSound
  <2>1. /\ callbacks[d][j] \in Callbacks /\ home[callbacks[d][j]] = d /\ j \in Nat
        /\ Visited(d, j) /\ d \notin disturbed => called[callbacks[d][j]] = 1
        /\ ~Visited(d, j) => called[callbacks[d][j]] = 0
    BY DEF PInv, ContextTypeOK, ListsAreSound
  <2>2. CASE d # c
    BY <1>2, <1>3, <1>5, <2>1, <2>2 DEF Visited
  <2>3. CASE d = c /\ j = i
    BY <1>1, <1>2, <1>3, <1>5, <2>3 DEF Visited, k, PInv, ContextTypeOK
  <2>4. CASE d = c /\ j # i
    <3>1. callbacks[d][j] # k
      BY <1>2, <2>4 DEF k, PInv, ListsAreSound
    <3>2. Visited(d, j)' <=> Visited(d, j)
      BY <1>1, <1>5, <2>1, <2>4 DEF Visited, i
    <3> QED
      BY <1>3, <2>1, <3>1, <3>2 DEF PInv, ContextTypeOK
  <2> QED
    BY <2>2, <2>3, <2>4
<1>8. CallbacksAreKept'
  BY <1>1, <1>2, <1>3 DEF PInv, ContextTypeOK, CallbacksAreKept, ContextsAssumption
<1> QED
  BY <1>4, <1>6, <1>7, <1>8 DEF PInv

(* The end of a shutdown: its context no longer counts.                      *)
LEMMA LoggingFiniPInv ==
    ASSUME ContextsAssumption, PInv, NEW c \in Contexts, logging_fini(c)
    PROVE  PInv'
<1> DEFINE S == {d \in Contexts : logging[d]}
<1>1. /\ UNCHANGED <<rcl, home, owned, called, disturbed>>
      /\ cleaning[c].at = "callbacks" /\ cleaning[c].i > Len(callbacks[c]) /\ cleaning[c].i \in Nat
      /\ cleaning' = [cleaning EXCEPT ![c] = Idle]
      /\ callbacks' = [callbacks EXCEPT ![c] = <<>>]
      /\ logging' = [logging EXCEPT ![c] = FALSE] /\ cleaned' = cleaned \cup {c}
  BY DEF logging_fini, objects, PInv, ContextTypeOK, Steps, Idle
<1>2. ContextTypeOK'
  <2>1. callbacks' \in [Contexts -> Seq(Callbacks)]
    BY <1>1 DEF PInv, ContextTypeOK
  <2>2. configured' \in BOOLEAN
    BY DEF logging_fini, PInv, ContextTypeOK
  <2> QED
    BY <1>1, <2>1, <2>2 DEF PInv, ContextTypeOK, Steps
<1>3. ShutdownIsForever'
  BY <1>1 DEF PInv, ContextTypeOK, ShutdownIsForever, Free
<1>4. \A d \in Contexts : d # c => \A i : Visited(d, i)' = Visited(d, i)
  BY <1>1 DEF Visited, PInv, ContextTypeOK
<1>5. ListsAreSound'
  BY <1>1, <1>4 DEF PInv, ContextTypeOK, ListsAreSound
<1>6. \A i \in DOMAIN callbacks[c] : c \notin disturbed => called[callbacks[c][i]] = 1
  BY <1>1 DEF PInv, ContextTypeOK, ListsAreSound, Visited
<1>7. CallbacksAreKept'
  BY <1>1, <1>6 DEF PInv, ContextTypeOK, CallbacksAreKept
<1>8. IsFiniteSet(S) /\ Cardinality(S) \in Nat /\ logCount = Cardinality(S)
  BY FS_Subset, FS_CardinalityType DEF ContextsAssumption, PInv, LoggingFollowsContexts
<1>9. {d \in Contexts : logging'[d]} = S \ {c}
  BY <1>1 DEF PInv, ContextTypeOK
<1>10. Cardinality(S \ {c}) = IF c \in S THEN Cardinality(S) - 1 ELSE Cardinality(S)
  BY <1>8, FS_RemoveElement
<1>11. c \in S => Cardinality(S) > 0
  BY <1>8, FS_EmptySet
<1>12. logCount' = Cardinality(S \ {c})
  BY <1>8, <1>10 DEF logging_fini, CountAfter
<1>13. configured' = (logCount' > 0)
  <2>1. /\ configured' <=> configured /\ ~(logging[c] /\ logCount' = 0)
        /\ configured <=> logCount > 0
    BY DEF logging_fini, PInv, LoggingFollowsContexts
  <2>2. configured' <=> logCount' > 0
    BY <1>8, <1>10, <1>11, <1>12, <2>1
  <2>3. configured' \in BOOLEAN
    BY <1>2 DEF ContextTypeOK
  <2> QED
    BY <2>2, <2>3
<1>14. \A d \in Contexts : d \in cleaned' /\ Free(d)' => ~logging'[d]
  BY <1>1 DEF PInv, ContextTypeOK, Free, LoggingFollowsContexts
<1>15. LoggingFollowsContexts'
  BY <1>2, <1>9, <1>12, <1>13, <1>14 DEF LoggingFollowsContexts, ContextTypeOK
<1> QED
  BY <1>2, <1>3, <1>5, <1>7, <1>15 DEF PInv

(* A set of numbers that is not empty has a least one; Min chooses it.       *)
LEMMA LeastOne == ASSUME NEW S \in SUBSET Nat, S # {} PROVE \E x \in S : \A y \in S : x <= y
<1> DEFINE R == OpToRel(<, Nat)
<1>1. PICK x \in S : \A y \in S : ~(<<y, x>> \in R)
  BY WFMin, NatLessThanWellFounded
<1>2. \A m, n \in Nat : m < n => <<m, n>> \in R
  BY DEF OpToRel
<1> HIDE DEF R
<1>3. ASSUME NEW y \in S PROVE x <= y
  <2>1. x \in Nat /\ y \in Nat /\ ~(y < x)
    BY <1>1, <1>2
  <2> QED
    BY <2>1
<1> QED
  BY <1>3

LEMMA SmallestPosition == ASSUME NEW S \in SUBSET Nat, S # {} PROVE Min(S) \in S
BY LeastOne DEF Min

(* What remove() leaves of a list: everything before the element, and what   *)
(* followed it, one place further on.                                        *)
LEMMA RemoveFirstShifts ==
    ASSUME NEW s \in Seq(Callbacks), NEW k
    PROVE  /\ RemoveFirst(s, k) \in Seq(Callbacks)
           /\ \E p \in Nat :
                 /\ \A j \in DOMAIN RemoveFirst(s, k) :
                       \/ j \in DOMAIN s /\ j < p /\ RemoveFirst(s, k)[j] = s[j]
                       \/ j + 1 \in DOMAIN s /\ p <= j /\ RemoveFirst(s, k)[j] = s[j + 1]
                 /\ \A i \in DOMAIN s : s[i] # k => \E j \in DOMAIN RemoveFirst(s, k) : RemoveFirst(s, k)[j] = s[i]
                 /\ (\E i \in DOMAIN s : s[i] = k) => p \in DOMAIN s /\ s[p] = k
<1>1. CASE ~\E i \in 1 .. Len(s) : s[i] = k
  <2>1. RemoveFirst(s, k) = s /\ DOMAIN s = 1 .. Len(s) /\ Len(s) + 1 \in Nat
    BY <1>1 DEF RemoveFirst
  <2>2. \A j \in DOMAIN s : j < Len(s) + 1
    BY <2>1
  <2> QED
    BY <1>1, <2>1, <2>2
<1>2. CASE \E i \in 1 .. Len(s) : s[i] = k
  <2> DEFINE I == {i \in 1 .. Len(s) : s[i] = k}
             p == Min(I)
             r == RemoveFirst(s, k)
  <2>1. I \in SUBSET Nat /\ I # {} /\ Len(s) \in Nat /\ DOMAIN s = 1 .. Len(s)
    BY <1>2
  <2>2. r = RemoveAt(s, p)
    BY <1>2 DEF RemoveFirst, SelectInSeq
  <2>3. p \in 1 .. Len(s) /\ s[p] = k
    BY <2>1, SmallestPosition
  <2> HIDE DEF I, p, r
  <2>4. /\ SubSeq(s, 1, p - 1) \in Seq(Callbacks) /\ Len(SubSeq(s, 1, p - 1)) = p - 1
        /\ \A i \in 1 .. (p - 1) : SubSeq(s, 1, p - 1)[i] = s[i]
    BY <2>1, <2>3
  <2>5. /\ SubSeq(s, p + 1, Len(s)) \in Seq(Callbacks) /\ Len(SubSeq(s, p + 1, Len(s))) = Len(s) - p
        /\ \A i \in 1 .. (Len(s) - p) : SubSeq(s, p + 1, Len(s))[i] = s[p + i]
    <3>1. \A i \in (p + 1) .. Len(s) : s[i] \in Callbacks
      BY <2>1, <2>3
    <3>2. PICK v : v = SubSeq(s, p + 1, Len(s))
      OBVIOUS
    <3>3. /\ v \in Seq(Callbacks)
          /\ Len(v) = IF p + 1 <= Len(s) THEN Len(s) - (p + 1) + 1 ELSE 0
          /\ \A i \in 1 .. (Len(s) - (p + 1) + 1) : v[i] = s[(p + 1) + i - 1]
      BY <2>1, <2>3, <3>1, <3>2, SubSeqProperties
    <3>4. Len(s) - (p + 1) + 1 = Len(s) - p /\ \A i \in 1 .. (Len(s) - p) : (p + 1) + i - 1 = p + i
      BY <2>1, <2>3
    <3>5. (IF p + 1 <= Len(s) THEN Len(s) - (p + 1) + 1 ELSE 0) = Len(s) - p
      <4>1. p \in Nat /\ p <= Len(s) /\ Len(s) \in Nat
        BY <2>1, <2>3
      <4> QED
        BY <4>1
    <3> QED
      BY <3>2, <3>3, <3>4, <3>5
  <2>6. /\ r \in Seq(Callbacks) /\ Len(r) = Len(s) - 1
        /\ \A i \in 1 .. (Len(s) - 1) : r[i] = IF i < p THEN s[i] ELSE s[i + 1]
    <3>1. PICK u \in Seq(Callbacks), v \in Seq(Callbacks) : u = SubSeq(s, 1, p - 1) /\ v = SubSeq(s, p + 1, Len(s))
      BY <2>4, <2>5
    <3>2. r = u \o v
      BY <2>2, <3>1 DEF RemoveAt
    <3>3. /\ Len(u) = p - 1 /\ Len(v) = Len(s) - p
          /\ \A i \in 1 .. (p - 1) : u[i] = s[i]
          /\ \A i \in 1 .. (Len(s) - p) : v[i] = s[p + i]
      BY <2>4, <2>5, <3>1
    <3>4. /\ r \in Seq(Callbacks) /\ Len(r) = Len(u) + Len(v)
          /\ \A i \in 1 .. (Len(u) + Len(v)) : r[i] = IF i <= Len(u) THEN u[i] ELSE v[i - Len(u)]
      BY <3>2, ConcatProperties
    <3>5. ASSUME NEW i \in 1 .. (Len(s) - 1)
          PROVE  r[i] = IF i < p THEN s[i] ELSE s[i + 1]
      <4>1. i \in 1 .. (Len(u) + Len(v)) /\ Len(u) = p - 1
        BY <2>1, <2>3, <3>3
      <4>2. CASE i < p
        BY <2>1, <2>3, <3>3, <3>4, <4>1, <4>2
      <4>3. CASE ~(i < p)
        <5>1. i - Len(u) \in 1 .. (Len(s) - p) /\ p + (i - Len(u)) = i + 1
          BY <2>1, <2>3, <4>1, <4>3
        <5>2. ~(i <= Len(u))
          BY <2>1, <2>3, <4>1, <4>3
        <5>3. r[i] = IF i <= Len(u) THEN u[i] ELSE v[i - Len(u)]
          BY <3>4, <4>1
        <5>4. r[i] = v[i - Len(u)]
          BY <5>2, <5>3
        <5> QED
          BY <3>3, <4>3, <5>1, <5>4
      <4> QED
        BY <4>2, <4>3
    <3> QED
      BY <2>1, <2>3, <3>3, <3>4, <3>5
  <2>7. DOMAIN r = 1 .. (Len(s) - 1)
    BY <2>6
  <2>8. \A j \in DOMAIN r : \/ j \in DOMAIN s /\ j < p /\ r[j] = s[j]
                            \/ j + 1 \in DOMAIN s /\ p <= j /\ r[j] = s[j + 1]
    BY <2>1, <2>3, <2>6, <2>7
  <2>9. ASSUME NEW i \in DOMAIN s, s[i] # k PROVE \E j \in DOMAIN r : r[j] = s[i]
    <3>1. CASE i < p
      <4>1. i \in DOMAIN r /\ r[i] = s[i]
        BY <2>1, <2>3, <2>6, <2>7, <3>1
      <4> QED
        BY <4>1
    <3>2. CASE p < i
      <4>1. i - 1 \in DOMAIN r /\ r[i - 1] = s[(i - 1) + 1] /\ (i - 1) + 1 = i
        BY <2>1, <2>3, <2>6, <2>7, <3>2
      <4> QED
        BY <4>1
    <3> QED
      BY <2>1, <2>3, <2>9, <3>1, <3>2
  <2>10. p \in Nat /\ p \in DOMAIN s /\ s[p] = k
    BY <2>1, <2>3
  <2> QED
    BY <2>6, <2>8, <2>9, <2>10 DEF r
<1> QED
  BY <1>1, <1>2

(* The collector takes a callback out of its list, between any two steps of  *)
(* the loop over it too, which then misses another.                          *)
LEMMA RemoveCallbackPInv ==
    ASSUME ContextsAssumption, PInv, NEW k \in Callbacks, remove_callback(k)
    PROVE  PInv'
<1> DEFINE c == home[k]
           s == callbacks[c]
           r == RemoveFirst(s, k)
<1>1. /\ c \in Contexts /\ k \in owned
      /\ UNCHANGED <<rcl, cleaning, logging, logCount, configured, called, home, cleaned>>
      /\ owned' = owned \ {k} /\ callbacks' = [callbacks EXCEPT ![c] = r]
      /\ disturbed \subseteq disturbed' /\ disturbed' \subseteq disturbed \cup {c}
      /\ c \notin disturbed' => Free(c)
  BY DEF remove_callback, PInv, CallbacksAreKept
<1>2. s \in Seq(Callbacks)
  BY <1>1 DEF PInv, ContextTypeOK
<1>3. PICK p \in Nat :
         /\ \A j \in DOMAIN r : \/ j \in DOMAIN s /\ j < p /\ r[j] = s[j]
                                \/ j + 1 \in DOMAIN s /\ p <= j /\ r[j] = s[j + 1]
         /\ \A i \in DOMAIN s : s[i] # k => \E j \in DOMAIN r : r[j] = s[i]
         /\ (\E i \in DOMAIN s : s[i] = k) => p \in DOMAIN s /\ s[p] = k
  BY <1>2, RemoveFirstShifts
<1>4. r \in Seq(Callbacks) /\ (s = <<>> => r = <<>>)
  <2>1. r \in Seq(Callbacks)
    BY <1>2, RemoveFirstShifts
  <2>2. ASSUME s = <<>> PROVE r = <<>>
    <3>1. ~\E i \in 1 .. Len(s) : s[i] = k
      BY <2>2
    <3> QED
      BY <2>2, <3>1 DEF RemoveFirst
  <2> QED
    BY <2>1, <2>2
<1>5. /\ \A d \in Contexts : d # c => callbacks'[d] = callbacks[d]
      /\ callbacks'[c] = r /\ DOMAIN r \subseteq Nat
  BY <1>1, <1>4 DEF PInv, ContextTypeOK
<1> HIDE DEF r
<1>6. ContextTypeOK'
  BY <1>1, <1>4 DEF PInv, ContextTypeOK
<1>7. ShutdownIsForever' /\ LoggingFollowsContexts'
  BY <1>1, <1>4, <1>5 DEF PInv, ContextTypeOK, ShutdownIsForever, Free, LoggingFollowsContexts
<1>8. PICK was \in [DOMAIN r -> DOMAIN s] : \A j \in DOMAIN r :
         /\ r[j] = s[was[j]] /\ was[j] # p
         /\ was[j] = IF j < p THEN j ELSE j + 1
  <2>1. \A j \in DOMAIN r : /\ (IF j < p THEN j ELSE j + 1) \in DOMAIN s
                            /\ r[j] = s[IF j < p THEN j ELSE j + 1]
                            /\ (IF j < p THEN j ELSE j + 1) # p
    BY <1>3, <1>5
  <2> DEFINE f == [j \in DOMAIN r |-> IF j < p THEN j ELSE j + 1]
  <2>2. f \in [DOMAIN r -> DOMAIN s]
    BY <2>1
  <2>3. \A j \in DOMAIN r : r[j] = s[f[j]] /\ f[j] # p /\ f[j] = IF j < p THEN j ELSE j + 1
    BY <2>1
  <2> QED
    BY <2>2, <2>3
<1>9. /\ \A i \in DOMAIN s :
           /\ home[s[i]] = c /\ s[i] \in owned
           /\ \A j \in DOMAIN s : s[i] = s[j] => i = j
           /\ ~Visited(c, i) => called[s[i]] = 0
  BY <1>1 DEF PInv, ListsAreSound
<1>10. \A j \in DOMAIN r : r[j] # k
  BY <1>3, <1>8, <1>9
<1>11. ListsAreSound'
  <2>1. \A d \in Contexts, i \in Nat : Visited(d, i)' = Visited(d, i)
    BY <1>1 DEF Visited
  <2>2. ASSUME NEW d \in Contexts, d # c, NEW i \in DOMAIN callbacks'[d]
        PROVE  /\ home'[callbacks'[d][i]] = d /\ callbacks'[d][i] \in owned'
               /\ \A j \in DOMAIN callbacks'[d] : callbacks'[d][i] = callbacks'[d][j] => i = j
               /\ Visited(d, i)' /\ d \notin disturbed' => called'[callbacks'[d][i]] = 1
               /\ ~Visited(d, i)' => called'[callbacks'[d][i]] = 0
    <3>1. i \in Nat
      BY <1>5, <2>2 DEF PInv, ContextTypeOK
    <3> QED
      BY <1>1, <1>5, <2>1, <2>2, <3>1 DEF PInv, ListsAreSound
  <2>3. ASSUME NEW i \in DOMAIN r
        PROVE  /\ home'[r[i]] = c /\ r[i] \in owned'
               /\ \A j \in DOMAIN r : r[i] = r[j] => i = j
               /\ Visited(c, i)' => c \in disturbed'
               /\ ~Visited(c, i)' => called'[r[i]] = 0
    <3>1. home'[r[i]] = c /\ r[i] \in owned'
      BY <1>1, <1>8, <1>9, <1>10
    <3>2. \A j \in DOMAIN r : r[i] = r[j] => i = j
      <4> SUFFICES ASSUME NEW j \in DOMAIN r, r[i] = r[j] PROVE i = j
        OBVIOUS
      <4>1. was[i] = was[j]
        BY <1>8, <1>9
      <4> QED
        BY <1>5, <1>8, <4>1
    <3>3. Visited(c, i)' => c \in disturbed'
      BY <1>1 DEF Visited, Free, Idle
    <3>4. ~Visited(c, i) => ~Visited(c, was[i])
      <4>1. i \in Nat /\ i <= was[i] /\ was[i] \in Nat
        BY <1>5, <1>8
      <4>2. cleaning[c].at = "callbacks" => cleaning[c].i \in Nat
        BY <1>1 DEF PInv, ContextTypeOK, Steps, Idle
      <4> QED
        BY <4>1, <4>2 DEF Visited
    <3>5. ~Visited(c, i)' => called'[r[i]] = 0
      BY <1>1, <1>5, <1>8, <1>9, <2>1, <3>4
    <3> QED
      BY <3>1, <3>2, <3>3, <3>5
  <2>4. callbacks'[c] = r
    BY <1>5
  <2>5. ASSUME NEW i \in DOMAIN callbacks'[c]
        PROVE  /\ home'[callbacks'[c][i]] = c /\ callbacks'[c][i] \in owned'
               /\ \A j \in DOMAIN callbacks'[c] : callbacks'[c][i] = callbacks'[c][j] => i = j
               /\ Visited(c, i)' /\ c \notin disturbed' => called'[callbacks'[c][i]] = 1
               /\ ~Visited(c, i)' => called'[callbacks'[c][i]] = 0
    BY <2>3, <2>4
  <2>6. \A d \in Contexts : \A i \in DOMAIN callbacks'[d] :
           /\ home'[callbacks'[d][i]] = d /\ callbacks'[d][i] \in owned'
           /\ \A j \in DOMAIN callbacks'[d] : callbacks'[d][i] = callbacks'[d][j] => i = j
    BY <2>2, <2>5
  <2>7. \A d \in Contexts : \A i \in DOMAIN callbacks'[d] :
           /\ Visited(d, i)' /\ d \notin disturbed' => called'[callbacks'[d][i]] = 1
           /\ ~Visited(d, i)' => called'[callbacks'[d][i]] = 0
    BY <1>1, <2>2, <2>5 DEF Visited
  <2> QED
    BY <2>6, <2>7 DEF ListsAreSound
<1>12. CallbacksAreKept'
  <2>1. ASSUME NEW x \in owned'
        PROVE  /\ home[x] \in Contexts
               /\ \/ home[x] \in disturbed' \/ called[x] = 1
                  \/ \E i \in DOMAIN callbacks'[home[x]] : callbacks'[home[x]][i] = x
    <3>1. x \in owned /\ x # k /\ home[x] \in Contexts
      BY <1>1 DEF PInv, CallbacksAreKept
    <3>2. CASE \E i \in DOMAIN callbacks[home[x]] : callbacks[home[x]][i] = x
      <4>1. CASE home[x] = c
        BY <1>3, <1>5, <3>1, <3>2, <4>1
      <4>2. CASE home[x] # c
        BY <1>5, <3>1, <3>2, <4>2
      <4> QED
        BY <3>1, <4>1, <4>2
    <3> QED
      BY <1>1, <3>1, <3>2 DEF PInv, CallbacksAreKept
  <2> QED
    BY <1>1, <2>1 DEF PInv, CallbacksAreKept
<1> QED
  BY <1>6, <1>7, <1>11, <1>12 DEF PInv

(* The inductive invariant of contexts holds in every reachable state.       *)
THEOREM ContextInvariance == ASSUME ContextsAssumption PROVE Spec => []PInv
<1>1. Init => PInv
  BY InitPInv
<1>2. PInv /\ [Next]_vars => PInv'
  <2> SUFFICES ASSUME PInv, [Next]_vars PROVE PInv'
    OBVIOUS
  <2>1. CASE Use
    BY <2>1, InitContextPInv, NodesPInv, OnShutdownPInv DEF Use
  <2>2. CASE Drop
    BY <2>2, NodesPInv, RemoveCallbackPInv DEF Drop
  <2>3. CASE ShutDown
    BY <2>3, ShutdownBeginsPInv, CleanNodePInv, CallbackPInv, LoggingFiniPInv DEF ShutDown
  <2>4. CASE Signal \/ uninstall_signal_handlers
    BY <2>4, SignalPInv
  <2>5. CASE UNCHANGED vars
    BY <2>5 DEF vars, PInv, ContextTypeOK, ShutdownIsForever, Free, ListsAreSound, Visited, CallbacksAreKept,
       LoggingFollowsContexts
  <2> QED
    BY <2>1, <2>2, <2>3, <2>4, <2>5 DEF Next
<1> QED
  BY <1>1, <1>2, PTL DEF Spec

(* The reference count of the logging of the process is the number of the    *)
(* contexts that have not ended their part of it, and the logging is         *)
(* configured exactly while there is one, however often contexts are shut    *)
(* down, by whom, and in which order (context.py:88-103, 143-159, 201-213).  *)
THEOREM LoggingIsCounted == ASSUME ContextsAssumption PROVE Spec => []LoggingFollowsContexts
<1>1. PInv => LoggingFollowsContexts
  BY DEF PInv
<1> QED
  BY ContextInvariance, <1>1, PTL

(* A callback given to on_shutdown() is called at most once, and was called  *)
(* when the shutdown of its context is over, whether it was given before the *)
(* shutdown or after, unless its owner is gone or the collector shortened    *)
(* the list under the loop (context.py:143-159, 176-199).                    *)
THEOREM CallbacksRunOnce == ASSUME ContextsAssumption PROVE Spec => []ShutdownCallbacksRun
<1>1. PInv => ShutdownCallbacksRun
  BY DEF PInv, ContextTypeOK, ShutdownIsForever, CallbacksAreKept, ShutdownCallbacksRun
<1> QED
  BY ContextInvariance, <1>1, PTL

-------------------------------------------------------------------------------
(* The entities of a node *)

(* The steps of a call (NodeEntities), and those for an event handler.       *)
CallSteps == {"idle", "all", "append", "announce", "append event", "announce event", "test", "mark",
          "remove", "remove event", "wake", "release event", "release"}
OfEvents == {"append event", "announce event", "remove event", "release event"}

(* A thread is in a call for an entity, in destroy_node or nowhere.          *)
FrameOK(frame) ==
    /\ frame \in [step : CallSteps, on : Entities \cup {Node, None}, all : BOOLEAN]
    /\ frame.on \in Entities <=> frame.step \notin {"idle", "all"} /\ frame.on # Node
    /\ frame.step = "idle" <=> frame = Lists!Idle
    /\ frame.on = Node => frame.step \in {"all", "release", "wake"}
    /\ frame.on = Node /\ frame.step # "all" => ~frame.all
    /\ frame.step \in OfEvents => frame.on \in WithEvents
    /\ frame.step \in {"test", "mark"} => frame.on \notin Guards

ListsTypeOK ==
    /\ list \in Seq(Lists!Items) /\ created \subseteq Entities /\ asked \subseteq Lists!Destroyables
    /\ doing \in [Users -> [step : CallSteps, on : Entities \cup {Node, None}, all : BOOLEAN]]
    /\ \A t \in Users : FrameOK(doing[t])
    /\ users \in [Lists!Destroyables -> SUBSET {"wait set", "taker"}]
    /\ freed \subseteq Lists!Destroyables
    /\ wake \in BOOLEAN /\ at \in {"gather", "enter", "wait", "take", "taken"}
    /\ index \in Nat /\ index >= 1 /\ gathered \subseteq Lists!Items

(* A thread that is to put x into the lists; that took it from them and is   *)
(* to release its handle.                                                    *)
Pending(t, x) ==
    \/ x = doing[t].on /\ Lists!At(t, {"append"})
    \/ /\ doing[t].on \in WithEvents /\ x = Lists!Event(doing[t].on)
       /\ Lists!At(t, {"append", "announce", "append event"})
Removed(t, x) ==
    \/ /\ x = doing[t].on /\ Lists!At(t, {"remove event", "wake", "release event", "release"})
       /\ ~(Lists!At(t, {"wake"}) /\ Lists!WakesLast(x))
    \/ /\ doing[t].on \in WithEvents /\ x = Lists!Event(doing[t].on)
       /\ Lists!At(t, {"wake", "release event"})

(* What exists was created; an entity is in the lists once ...               *)
ListedOnce ==
    /\ \A i, j \in 1..Len(list) : list[i] = list[j] => i = j
    /\ \A t \in Users : doing[t].on \in Entities => doing[t].on \in created
    /\ \A e \in Entities : Lists!Listed(e) \/ e \in asked => e \in created
    /\ \A e \in WithEvents : Lists!Listed(Lists!Event(e)) \/ Lists!Event(e) \in asked => e \in created

(* ... between its creation by one thread and its removal by one.            *)
OnePlace == \A x \in Lists!Items :
    /\ Lists!Listed(x) => x \notin asked
    /\ \A t \in Users :
         /\ Pending(t, x) => /\ ~Lists!Listed(x) /\ x \notin asked
                             /\ \A u \in Users : ~Removed(u, x) /\ (Pending(u, x) => u = t)
         /\ Removed(t, x) => /\ ~Lists!Listed(x)
                             /\ \A u \in Users : Removed(u, x) => u = t

(* The event handler of an entity is in the lists, or its creator is on its  *)
(* way to put it there, until whoever destroys the entity removes it.        *)
EventFollows == \A e \in WithEvents :
    Lists!Listed(e) \/ (\E t \in Users : Lists!At(t, {"remove event"}) /\ doing[t].on = e) =>
             Lists!Listed(Lists!Event(e)) \/ \E u \in Users : Pending(u, Lists!Event(e))

(* The wait set grows from the lists, or somebody will wake the executor.    *)
Signalled == wake \/ \E t \in Users : Lists!StillToWake(t)
GatheredSoFar == {list[i] : i \in {j \in 1..Len(list) : j < index}}
WaitSetFollows ==
    /\ \A x \in Lists!Destroyables : "wait set" \in users[x] => at \in {"enter", "wait"} /\ x \in Lists!Items
    /\ at = "gather" => Signalled \/ (index <= Len(list) + 1 /\ gathered = GatheredSoFar)
    /\ at = "enter" => Signalled \/ gathered \cup Lists!Held = Lists!ToSet(list)
    /\ at = "wait" => Signalled \/ Lists!Held = Lists!ToSet(list)
    /\ at \in {"take", "taken"} => index = 1

FreedWhenUnused == \A x \in Lists!Destroyables : x \in freed <=> x \in asked /\ users[x] = {}

NInv == ListsTypeOK /\ ListedOnce /\ OnePlace /\ EventFollows /\ WaitSetFollows /\ FreedWhenUnused
-----------------------------------------------------------------------------
(* What the operations on the lists do to their elements.                    *)
LEMMA AppendElements ==
    ASSUME NEW S, NEW s \in Seq(S), NEW x \in S
    PROVE  /\ Append(s, x) \in Seq(S) /\ Len(Append(s, x)) = Len(s) + 1
           /\ \A i \in 1..Len(s) : Append(s, x)[i] = s[i]
           /\ Append(s, x)[Len(s) + 1] = x
           /\ Lists!ToSet(Append(s, x)) = Lists!ToSet(s) \cup {x}
<1>1. /\ Append(s, x) \in Seq(S) /\ Len(Append(s, x)) = Len(s) + 1 /\ Len(s) \in Nat
      /\ \A i \in 1..Len(s) : Append(s, x)[i] = s[i]
      /\ Append(s, x)[Len(s) + 1] = x
      /\ DOMAIN s = 1..Len(s) /\ DOMAIN Append(s, x) = 1..(Len(s) + 1)
  BY SMT
<1>2. Lists!ToSet(Append(s, x)) = Lists!ToSet(s) \cup {x}
  BY <1>1 DEF Lists!ToSet
<1> QED
  BY <1>1, <1>2

LEMMA RemovedElements ==
    ASSUME NEW S, NEW s \in Seq(S), NEW i \in 1..Len(s),
           \A j, k \in 1..Len(s) : s[j] = s[k] => j = k
    PROVE  /\ Lists!RemoveAt(s, i) \in Seq(S)
           /\ \A j, k \in 1..Len(Lists!RemoveAt(s, i)) : Lists!RemoveAt(s, i)[j] = Lists!RemoveAt(s, i)[k] => j = k
           /\ Lists!ToSet(Lists!RemoveAt(s, i)) = Lists!ToSet(s) \ {s[i]}
<1>1. Len(s) \in Nat /\ DOMAIN s = 1..Len(s) /\ \A j \in 1..Len(s) : s[j] \in S
  BY SMT
<1>2. PICK a : a = SubSeq(s, 1, i - 1)
  OBVIOUS
<1>3. PICK b : b = SubSeq(s, i + 1, Len(s))
  OBVIOUS
<1>4. PICK r : r = Lists!RemoveAt(s, i)
  OBVIOUS
<1>5. a \in Seq(S) /\ Len(a) = i - 1 /\ \A j \in 1..(i - 1) : a[j] = s[j]
  <2>1. \A j \in 1..(i - 1) : s[j] \in S
    BY <1>1
  <2> QED
    BY <1>1, <1>2, <2>1, SubSeqProperties
<1>6. b \in Seq(S) /\ Len(b) = Len(s) - i /\ \A j \in 1..(Len(s) - i) : b[j] = s[j + i]
  <2>1. \A j \in (i + 1)..Len(s) : s[j] \in S
    BY <1>1
  <2>2. /\ b \in Seq(S)
        /\ Len(b) = IF i + 1 <= Len(s) THEN Len(s) - (i + 1) + 1 ELSE 0
        /\ \A j \in 1..(Len(s) - (i + 1) + 1) : b[j] = s[(i + 1) + j - 1]
    BY <1>1, <1>3, <2>1, SubSeqProperties
  <2>3. ASSUME NEW j \in 1..(Len(s) - i) PROVE b[j] = s[j + i]
    <3>1. (i + 1) + j - 1 = j + i /\ j \in 1..(Len(s) - (i + 1) + 1)
      BY <1>1
    <3>2. b[j] = s[(i + 1) + j - 1]
      BY <2>2, <3>1
    <3> QED
      BY <3>1, <3>2, Zenon
  <2>4. Len(b) = Len(s) - i
    <3>1. Len(b) = IF i + 1 <= Len(s) THEN Len(s) - (i + 1) + 1 ELSE 0
      BY <2>2
    <3>2. Len(s) \in Nat
      BY <1>1
    <3>3. CASE i + 1 <= Len(s)
      BY ONLY <3>1, <3>2, <3>3, i \in 1..Len(s)
    <3>4. CASE i = Len(s)
      BY ONLY <3>1, <3>2, <3>4, i \in 1..Len(s)
    <3> QED
      BY ONLY <3>2, <3>3, <3>4, i \in 1..Len(s)
  <2> QED
    BY <2>2, <2>3, <2>4
<1>7. r = a \o b
  BY <1>2, <1>3, <1>4 DEF Lists!RemoveAt
<1>8. /\ r \in Seq(S) /\ Len(r) = Len(s) - 1 /\ DOMAIN r = 1..(Len(s) - 1)
      /\ \A j \in 1..(Len(s) - 1) : r[j] = IF j < i THEN s[j] ELSE s[j + 1]
  <2>1. /\ r \in Seq(S) /\ Len(r) = Len(a) + Len(b)
        /\ \A j \in 1..(Len(a) + Len(b)) : r[j] = IF j <= Len(a) THEN a[j] ELSE b[j - Len(a)]
    <3>1. a \in Seq(S) /\ b \in Seq(S)
      BY <1>5, <1>6
    <3> QED
      BY ONLY <1>7, <3>1, ConcatProperties
  <2>2. Len(a) + Len(b) = Len(s) - 1
    BY <1>1, <1>5, <1>6
  <2>3. DOMAIN r = 1..(Len(s) - 1)
    BY <2>1, <2>2, LenProperties
  <2>4. ASSUME NEW j \in 1..(Len(s) - 1) PROVE r[j] = IF j < i THEN s[j] ELSE s[j + 1]
    <3>1. r[j] = IF j <= Len(a) THEN a[j] ELSE b[j - Len(a)]
      BY <2>1, <2>2
    <3>2. CASE j < i
      BY <1>1, <1>5, <3>1, <3>2
    <3>3. CASE j >= i
      <4>1. j - Len(a) \in 1..(Len(s) - i) /\ (j - Len(a)) + i = j + 1 /\ ~(j <= Len(a))
        BY <1>1, <1>5, <3>3
      <4>2. b[j - Len(a)] = s[(j - Len(a)) + i]
        BY <1>6, <4>1
      <4> QED
        BY <1>1, <3>1, <3>3, <4>1, <4>2
    <3> QED
      BY <1>1, <3>2, <3>3
  <2> QED
    BY <2>1, <2>2, <2>3, <2>4
<1>9. \A j, k \in 1..Len(r) : r[j] = r[k] => j = k
  BY <1>1, <1>8
<1>10. Lists!ToSet(r) = {r[j] : j \in 1..(Len(s) - 1)} /\ Lists!ToSet(s) = {s[j] : j \in 1..Len(s)}
  BY <1>1, <1>8 DEF Lists!ToSet
<1>11. ASSUME NEW x \in Lists!ToSet(r) PROVE x \in Lists!ToSet(s) \ {s[i]}
  <2>1. PICK j \in 1..(Len(s) - 1) : x = r[j]
    BY <1>10
  <2>2. CASE j < i
    BY <1>1, <1>8, <1>10, <2>1, <2>2
  <2>3. CASE j >= i
    <3>1. j + 1 \in 1..Len(s) /\ j + 1 # i /\ x = s[j + 1]
      BY <1>1, <1>8, <2>1, <2>3
    <3> QED
      BY <1>10, <3>1
  <2> QED
    BY <1>1, <2>2, <2>3
<1>12. ASSUME NEW x \in Lists!ToSet(s) \ {s[i]} PROVE x \in Lists!ToSet(r)
  <2>1. PICK j \in 1..Len(s) : x = s[j] /\ j # i
    BY <1>10
  <2>2. CASE j < i
    BY <1>1, <1>8, <1>10, <2>1, <2>2
  <2>3. CASE j > i
    <3>1. j - 1 \in 1..(Len(s) - 1) /\ r[j - 1] = s[j]
      BY <1>1, <1>8, <2>3
    <3> QED
      BY <1>10, <2>1, <3>1
  <2> QED
    BY <1>1, <2>1, <2>2, <2>3
<1> QED
  BY <1>4, <1>8, <1>9, <1>11, <1>12

-----------------------------------------------------------------------------
(* A thread that goes on is at a step of a call again, and the others stay.  *)
LEMMA GoesFrames ==
    ASSUME ListsTypeOK, NEW t \in Users, NEW frame, FrameOK(frame), Lists!Goes(t, frame)
    PROVE  /\ doing' \in [Users -> [step : CallSteps, on : Entities \cup {Node, None}, all : BOOLEAN]]
           /\ \A u \in Users : FrameOK(doing'[u])
           /\ doing'[t] = frame
           /\ \A u \in Users : u # t => doing'[u] = doing[u]
<1>1. frame \in [step : CallSteps, on : Entities \cup {Node, None}, all : BOOLEAN]
  BY DEF FrameOK
<1>2. /\ doing' \in [Users -> [step : CallSteps, on : Entities \cup {Node, None}, all : BOOLEAN]]
      /\ doing'[t] = frame
      /\ \A u \in Users : u # t => doing'[u] = doing[u]
  BY <1>1 DEF ListsTypeOK, Lists!Goes
<1> QED
  BY <1>2 DEF ListsTypeOK

(* The frames between calls.                                                 *)
LEMMA RestingFrames ==
    ASSUME Lists!EntitiesAssumption
    PROVE  /\ FrameOK(Lists!Idle) /\ FrameOK(Lists!Doing("all", Node, TRUE)) /\ FrameOK(Lists!Doing("release", Node, FALSE))
           /\ \A all \in BOOLEAN : FrameOK(Lists!Ended(all))
           /\ \A e \in Entities : FrameOK(Lists!DestroyOne(e, TRUE)) /\ FrameOK(Lists!DestroyOne(e, FALSE))
           /\ \A e \in Entities : FrameOK(Lists!Doing("append", e, FALSE))
BY DEF Lists!EntitiesAssumption, FrameOK, Lists!Idle, Lists!Doing, Lists!Ended, Lists!DestroyOne, CallSteps, OfEvents

(* What a thread that goes on with the creation or the destruction of an     *)
(* entity does next.                                                         *)
LEMMA CreatingFrames ==
    ASSUME Lists!EntitiesAssumption, ListsTypeOK, NEW t \in Users, Lists!GoesOnCreating(t),
           Lists!At(t, {"append", "announce", "append event", "announce event"})
    PROVE  LET e == doing[t].on
               f == doing'[t]
           IN  /\ e \in Entities /\ FrameOK(f)
               /\ doing' = [doing EXCEPT ![t] = f]
               /\ Lists!At(t, {"append"}) => f = Lists!Doing("announce", e, doing[t].all)
               /\ Lists!At(t, {"announce"}) /\ e \in WithEvents => f = Lists!Doing("append event", e, doing[t].all)
               /\ Lists!At(t, {"announce"}) /\ e \notin WithEvents => f.step \in {"idle", "all"}
               /\ Lists!At(t, {"append event"}) => e \in WithEvents /\ f = Lists!Doing("announce event", e, doing[t].all)
               /\ Lists!At(t, {"announce event"}) => f.step \in {"idle", "all"}
<1> DEFINE e == doing[t].on
           step == Lists!AfterCreate(doing[t].step, e)
           f == IF step = "end" THEN Lists!Ended(doing[t].all) ELSE Lists!Doing(step, e, doing[t].all)
<1>1. FrameOK(doing[t]) /\ doing[t].all \in BOOLEAN
  BY DEF ListsTypeOK
<1>2. e \in Entities
  BY <1>1 DEF FrameOK, Lists!At, Lists!EntitiesAssumption
<1>3. /\ Lists!At(t, {"append"}) => step = "announce"
      /\ Lists!At(t, {"announce"}) /\ e \in WithEvents => step = "append event"
      /\ Lists!At(t, {"announce"}) /\ e \notin WithEvents => step = "end"
      /\ Lists!At(t, {"append event"}) => step = "announce event" /\ e \in WithEvents
      /\ Lists!At(t, {"announce event"}) => step = "end"
  BY <1>1 DEF Lists!AfterCreate, Lists!At, FrameOK, OfEvents
<1>4. FrameOK(f)
  <2>1. CASE step = "end"
    BY <1>1, <2>1, RestingFrames
  <2>2. CASE step # "end"
    <3>1. /\ step \in {"announce", "append event", "announce event"}
          /\ step \in {"append event", "announce event"} => e \in WithEvents
      BY <1>3, <2>2 DEF Lists!At
    <3> HIDE DEF step
    <3>2. f = Lists!Doing(step, e, doing[t].all)
      BY <2>2
    <3> HIDE DEF f
    <3> QED
      BY <1>1, <1>2, <3>1, <3>2 DEF FrameOK, Lists!Doing, CallSteps, OfEvents, Lists!EntitiesAssumption, Lists!Idle
  <2> QED
    BY <2>1, <2>2
<1>5. doing' = [doing EXCEPT ![t] = f]
  BY DEF Lists!GoesOnCreating, Lists!Continues, Lists!Goes
<1>6. doing'[t] = f
  BY <1>5 DEF ListsTypeOK
<1>7. Lists!Ended(doing[t].all).step \in {"idle", "all"}
  BY <1>1 DEF Lists!Ended, Lists!Idle, Lists!Doing
<1> HIDE DEF step
<1>8. /\ Lists!At(t, {"append"}) => f = Lists!Doing("announce", e, doing[t].all)
      /\ Lists!At(t, {"announce"}) /\ e \in WithEvents => f = Lists!Doing("append event", e, doing[t].all)
      /\ Lists!At(t, {"announce"}) /\ e \notin WithEvents => f.step \in {"idle", "all"}
      /\ Lists!At(t, {"append event"}) => e \in WithEvents /\ f = Lists!Doing("announce event", e, doing[t].all)
      /\ Lists!At(t, {"announce event"}) => f.step \in {"idle", "all"}
  BY <1>3, <1>7
<1> HIDE DEF f
<1> QED
  BY <1>2, <1>4, <1>5, <1>6, <1>8

LEMMA DestroyingFrames ==
    ASSUME Lists!EntitiesAssumption, ListsTypeOK, NEW t \in Users, Lists!GoesOnDestroying(t),
           Lists!At(t, {"test", "mark", "remove", "remove event", "wake", "release event", "release"})
    PROVE  LET e == doing[t].on
               f == doing'[t]
           IN  /\ e \in Entities \cup {Node} /\ FrameOK(f)
               /\ e = Node => Lists!At(t, {"wake", "release"})
               /\ doing' = [doing EXCEPT ![t] = f]
               /\ Lists!At(t, {"test"}) => f = Lists!Doing("mark", e, doing[t].all)
               /\ Lists!At(t, {"mark"}) => f = Lists!Doing("remove", e, doing[t].all)
               /\ Lists!At(t, {"remove"}) => f.on = e /\
                          f.step = IF e \in WithEvents THEN "remove event" ELSE IF Lists!WakesLast(e) THEN "release" ELSE "wake"
               /\ Lists!At(t, {"remove event"}) => e \in WithEvents /\ f = Lists!Doing("wake", e, doing[t].all)
               /\ Lists!At(t, {"wake"}) /\ e \in WithEvents => f = Lists!Doing("release event", e, doing[t].all)
               /\ Lists!At(t, {"wake"}) /\ e \notin WithEvents /\ ~Lists!WakesLast(e) => f = Lists!Doing("release", e, doing[t].all)
               /\ Lists!At(t, {"wake"}) /\ Lists!WakesLast(e) => f.step \in {"idle", "all"}
               /\ Lists!At(t, {"release event"}) => e \in WithEvents /\ f = Lists!Doing("release", e, doing[t].all)
               /\ Lists!At(t, {"release"}) /\ Lists!WakesLast(e) => f = Lists!Doing("wake", e, doing[t].all)
               /\ Lists!At(t, {"release"}) /\ ~Lists!WakesLast(e) => f.step \in {"idle", "all"}
<1> DEFINE e == doing[t].on
           step == Lists!AfterDestroy(doing[t].step, e)
           f == IF step = "end" THEN Lists!Ended(doing[t].all) ELSE Lists!Doing(step, e, doing[t].all)
<1>1. FrameOK(doing[t]) /\ doing[t].all \in BOOLEAN
  BY DEF ListsTypeOK
<1>2. /\ e \in Entities \cup {Node} /\ (e = Node => Lists!At(t, {"wake", "release"}))
      /\ Lists!At(t, {"remove event", "release event"}) => e \in WithEvents
  BY <1>1 DEF FrameOK, Lists!At, Lists!EntitiesAssumption, OfEvents
<1>3. Lists!WakesLast(e) => e \notin WithEvents
  BY DEF Lists!WakesLast, Lists!EntitiesAssumption
<1>4. /\ Lists!At(t, {"test"}) => step = "mark"
      /\ Lists!At(t, {"mark"}) => step = "remove"
      /\ Lists!At(t, {"remove"}) => step = IF e \in WithEvents THEN "remove event" ELSE IF Lists!WakesLast(e) THEN "release" ELSE "wake"
      /\ Lists!At(t, {"remove event"}) => step = "wake"
      /\ Lists!At(t, {"wake"}) /\ e \in WithEvents => step = "release event"
      /\ Lists!At(t, {"wake"}) /\ e \notin WithEvents /\ ~Lists!WakesLast(e) => step = "release"
      /\ Lists!At(t, {"wake"}) /\ Lists!WakesLast(e) => step = "end"
      /\ Lists!At(t, {"release event"}) => step = "release"
      /\ Lists!At(t, {"release"}) /\ Lists!WakesLast(e) => step = "wake"
      /\ Lists!At(t, {"release"}) /\ ~Lists!WakesLast(e) => step = "end"
  BY <1>2, <1>3 DEF Lists!AfterDestroy, Lists!At
<1>5. FrameOK(f)
  <2>1. CASE step = "end"
    BY <1>1, <2>1, RestingFrames
  <2>2. CASE step # "end"
    <3>1. /\ step \in {"mark", "remove", "remove event", "wake", "release event", "release"}
          /\ step \in {"remove event", "release event"} => e \in WithEvents
          /\ step = "mark" => Lists!At(t, {"test"})
          /\ e = Node => step = "wake" /\ Lists!At(t, {"release"})
      BY <1>2, <1>4, <2>2 DEF Lists!At, Lists!WakesLast
    <3> HIDE DEF step
    <3>2. f = Lists!Doing(step, e, doing[t].all)
      BY <2>2
    <3> HIDE DEF f
    <3>3. f \in [step : CallSteps, on : Entities \cup {Node, None}, all : BOOLEAN]
      BY <1>1, <1>2, <3>1, <3>2 DEF Lists!Doing, CallSteps
    <3>4. f.step = step /\ f.on = e /\ f.all = doing[t].all
      BY <3>2 DEF Lists!Doing
    <3>5. f.on = Node => ~f.all
      BY <1>1, <3>1, <3>4 DEF FrameOK, Lists!At
    <3>6. f.step = "mark" => f.on \notin Guards
      BY <1>1, <3>1, <3>4 DEF FrameOK, Lists!At
    <3>7. f.step # "idle" /\ f # Lists!Idle
      <4>1. Lists!Idle.step = "idle"
        BY DEF Lists!Idle, Lists!Doing
      <4> QED
        BY <3>1, <3>4, <4>1
    <3> QED
      BY <1>2, <3>1, <3>3, <3>4, <3>5, <3>6, <3>7 DEF FrameOK, OfEvents, Lists!EntitiesAssumption
  <2> QED
    BY <2>1, <2>2
<1>6. doing' = [doing EXCEPT ![t] = f]
  BY DEF Lists!GoesOnDestroying, Lists!Continues, Lists!Goes
<1>7. doing'[t] = f
  BY <1>6 DEF ListsTypeOK
<1>8. Lists!Ended(doing[t].all).step \in {"idle", "all"} /\ \A s : Lists!Doing(s, e, doing[t].all).step = s
                                                         /\ Lists!Doing(s, e, doing[t].all).on = e
  BY <1>1 DEF Lists!Ended, Lists!Idle, Lists!Doing
<1> HIDE DEF step
<1>9. /\ Lists!At(t, {"test"}) => f = Lists!Doing("mark", e, doing[t].all)
      /\ Lists!At(t, {"mark"}) => f = Lists!Doing("remove", e, doing[t].all)
      /\ Lists!At(t, {"remove"}) => f = Lists!Doing(step, e, doing[t].all)
      /\ Lists!At(t, {"remove event"}) => f = Lists!Doing("wake", e, doing[t].all)
      /\ Lists!At(t, {"wake"}) /\ e \in WithEvents => f = Lists!Doing("release event", e, doing[t].all)
      /\ Lists!At(t, {"wake"}) /\ e \notin WithEvents /\ ~Lists!WakesLast(e) => f = Lists!Doing("release", e, doing[t].all)
      /\ Lists!At(t, {"wake"}) /\ Lists!WakesLast(e) => f.step \in {"idle", "all"}
      /\ Lists!At(t, {"release event"}) => f = Lists!Doing("release", e, doing[t].all)
      /\ Lists!At(t, {"release"}) /\ Lists!WakesLast(e) => f = Lists!Doing("wake", e, doing[t].all)
      /\ Lists!At(t, {"release"}) /\ ~Lists!WakesLast(e) => f.step \in {"idle", "all"}
  BY <1>4, <1>8
<1> HIDE DEF f
<1>10. Lists!At(t, {"remove"}) => f.on = e /\ f.step = IF e \in WithEvents THEN "remove event" ELSE IF Lists!WakesLast(e) THEN "release" ELSE "wake"
  BY <1>4, <1>8, <1>9
<1>11. Lists!At(t, {"remove event"}) \/ Lists!At(t, {"release event"}) => e \in WithEvents
  BY <1>2 DEF Lists!At
<1> QED
  BY <1>2, <1>5, <1>6, <1>7, <1>9, <1>10, <1>11

-----------------------------------------------------------------------------
LEMMA OthersStay ==
    ASSUME NEW t \in Users, \A u \in Users : u # t => doing'[u] = doing[u]
    PROVE  \A u \in Users : u # t =>
             /\ \A x : (Pending(u, x)' <=> Pending(u, x)) /\ (Removed(u, x)' <=> Removed(u, x))
             /\ Lists!StillToWake(u)' <=> Lists!StillToWake(u)
             /\ Lists!At(u, {"remove event"})' <=> Lists!At(u, {"remove event"})
BY DEF Pending, Removed, Lists!StillToWake, Lists!At

(* The wait set stays good, if nothing happens to the lists or the executor  *)
(* is to be woken.                                                           *)
LEMMA WaitSetKept ==
    ASSUME WaitSetFollows, UNCHANGED <<users, Lists!executor>>,
           Signalled' \/ (UNCHANGED list /\ ~Signalled)
    PROVE  WaitSetFollows'
BY DEF WaitSetFollows, Lists!executor, Lists!Held, GatheredSoFar

(* A step of a thread that changes neither lists nor handles.                *)
LEMMA QuietNInv ==
    ASSUME NInv, NEW t \in Users, NEW frame, FrameOK(frame), Lists!Goes(t, frame),
           UNCHANGED <<list, created, Lists!handles, Lists!executor>>,
           wake' \in BOOLEAN, Signalled => Signalled',
           frame.on \in Entities => frame.on \in created,
           \A x \in Lists!Items : Pending(t, x)' <=> Pending(t, x),
           \A x \in Lists!Items : Removed(t, x)' => Removed(t, x),
           ~Lists!At(t, {"remove event"})'
    PROVE  NInv'
<1>1. /\ doing' \in [Users -> [step : CallSteps, on : Entities \cup {Node, None}, all : BOOLEAN]]
      /\ \A u \in Users : FrameOK(doing'[u])
      /\ doing'[t] = frame
      /\ \A u \in Users : u # t => doing'[u] = doing[u]
  BY GoesFrames DEF NInv
<1>2. \A u \in Users : u # t =>
        /\ \A x : (Pending(u, x)' <=> Pending(u, x)) /\ (Removed(u, x)' <=> Removed(u, x))
        /\ Lists!At(u, {"remove event"})' <=> Lists!At(u, {"remove event"})
  BY <1>1, OthersStay
<1>3. ListsTypeOK'
  BY <1>1 DEF NInv, ListsTypeOK, Lists!handles, Lists!executor
<1>4. ListedOnce'
  BY <1>1 DEF NInv, ListedOnce, Lists!Listed, Lists!handles
<1>5. OnePlace'
  <2>1. \A x \in Lists!Items, u \in Users : (Pending(u, x)' <=> Pending(u, x)) /\ (Removed(u, x)' => Removed(u, x))
    BY <1>2
  <2>2. \A x \in Lists!Items : Lists!Listed(x)' = Lists!Listed(x)
    BY DEF Lists!Listed
  <2> QED
    BY <2>1, <2>2 DEF NInv, OnePlace, Lists!handles
<1>6. EventFollows'
  <2>1. \A e \in WithEvents, u \in Users : Pending(u, Lists!Event(e))' <=> Pending(u, Lists!Event(e))
    BY <1>2 DEF Lists!Items
  <2>2. \A u \in Users : Lists!At(u, {"remove event"})' => Lists!At(u, {"remove event"}) /\ doing'[u].on = doing[u].on
    BY <1>1, <1>2
  <2>3. \A x : Lists!Listed(x)' = Lists!Listed(x)
    BY DEF Lists!Listed
  <2> QED
    BY <2>1, <2>2, <2>3 DEF NInv, EventFollows
<1>7. WaitSetFollows'
  BY WaitSetKept DEF NInv, Lists!handles
<1>8. FreedWhenUnused'
  BY DEF NInv, FreedWhenUnused, Lists!handles
<1> QED
  BY <1>3, <1>4, <1>5, <1>6, <1>7, <1>8 DEF NInv

(* A call for an entity, or of destroy_node, begins.                         *)
LEMMA CallNInv ==
    ASSUME Lists!EntitiesAssumption, NInv, NEW t \in Users,
           (\E e \in Entities : Lists!Destroy(t, e)) \/ Lists!DestroyNode(t) \/ Lists!NextToDestroy(t)
    PROVE  NInv'
<1> USE DEF NInv
<1>1. PICK frame : /\ FrameOK(frame) /\ Lists!Goes(t, frame)
                   /\ doing[t].step \in {"idle", "all"}
                   /\ frame.step \in {"test", "remove", "all"} \/ (frame.step = "release" /\ frame.on = Node)
                   /\ frame.on \in Entities => Lists!Listed(frame.on)
  <2>1. \A e \in Entities :
          /\ FrameOK(Lists!DestroyOne(e, TRUE)) /\ Lists!DestroyOne(e, TRUE).on = e
          /\ Lists!DestroyOne(e, TRUE).step \in {"test", "remove"}
          /\ FrameOK(Lists!DestroyOne(e, FALSE)) /\ Lists!DestroyOne(e, FALSE).on = e
          /\ Lists!DestroyOne(e, FALSE).step \in {"test", "remove"}
    BY RestingFrames DEF Lists!DestroyOne, Lists!Doing
  <2>2. doing[t] = Lists!Idle => doing[t].step = "idle"
    BY DEF Lists!Idle, Lists!Doing
  <2>3. CASE \E e \in Entities : Lists!Destroy(t, e)
    <3>1. PICK e \in Entities : doing[t] = Lists!Idle /\ Lists!Listed(e) /\ Lists!Goes(t, Lists!DestroyOne(e, FALSE))
      BY <2>3 DEF Lists!Destroy
    <3>2. FrameOK(Lists!DestroyOne(e, FALSE)) /\ Lists!Goes(t, Lists!DestroyOne(e, FALSE))
      BY <2>1, <3>1, Zenon
    <3>3. doing[t].step \in {"idle", "all"} /\ Lists!DestroyOne(e, FALSE).step \in {"test", "remove", "all"}
      BY <2>1, <2>2, <3>1
    <3>4. Lists!DestroyOne(e, FALSE).on \in Entities => Lists!Listed(Lists!DestroyOne(e, FALSE).on)
      BY <2>1, <3>1
    <3> WITNESS Lists!DestroyOne(e, FALSE)
    <3> QED
      BY <3>2, <3>3, <3>4
  <2>4. CASE Lists!DestroyNode(t)
    <3>1. Lists!Doing("all", Node, TRUE).step = "all" /\ Lists!Doing("all", Node, TRUE).on = Node
      BY DEF Lists!Doing
    <3> QED
      BY <2>2, <2>4, <3>1, RestingFrames DEF Lists!DestroyNode, Lists!EntitiesAssumption
  <2>5. CASE Lists!NextToDestroy(t)
    <3>1. Lists!Doing("release", Node, FALSE).step = "release" /\ Lists!Doing("release", Node, FALSE).on = Node
      BY DEF Lists!Doing
    <3>2. doing[t].step \in {"idle", "all"}
      BY <2>5 DEF Lists!NextToDestroy, Lists!At
    <3>3. CASE Lists!Goes(t, Lists!Doing("release", Node, FALSE))
      BY <3>1, <3>2, <3>3, RestingFrames DEF Lists!EntitiesAssumption
    <3>4. CASE \E e \in Entities : Lists!Listed(e) /\ Lists!Goes(t, Lists!DestroyOne(e, TRUE))
      <4>1. PICK e \in Entities : Lists!Listed(e) /\ Lists!Goes(t, Lists!DestroyOne(e, TRUE))
        BY <3>4
      <4>2. FrameOK(Lists!DestroyOne(e, TRUE)) /\ Lists!Goes(t, Lists!DestroyOne(e, TRUE))
        BY <2>1, <4>1, Zenon
      <4>3. Lists!DestroyOne(e, TRUE).step \in {"test", "remove", "all"}
        BY <2>1
      <4>4. Lists!DestroyOne(e, TRUE).on \in Entities => Lists!Listed(Lists!DestroyOne(e, TRUE).on)
        BY <2>1, <4>1
      <4> WITNESS Lists!DestroyOne(e, TRUE)
      <4> QED
        BY <3>2, <4>2, <4>3, <4>4
    <3> QED
      BY <2>5, <3>3, <3>4 DEF Lists!NextToDestroy
  <2> QED
    BY <2>3, <2>4, <2>5
<1>2. doing'[t] = frame /\ \A u \in Users : u # t => doing'[u] = doing[u]
  BY <1>1, GoesFrames
<1>3. UNCHANGED <<list, created, Lists!handles, wake, Lists!executor>>
  BY DEF Lists!Destroy, Lists!DestroyNode, Lists!NextToDestroy
<1>4. \A x \in Lists!Items : ~Pending(t, x) /\ ~Pending(t, x)' /\ ~Removed(t, x)'
  BY <1>1, <1>2 DEF Pending, Removed, Lists!At, Lists!Items, Lists!EntitiesAssumption
<1>5. Signalled => Signalled'
  <2>1. ~Lists!StillToWake(t)
    BY <1>1 DEF Lists!StillToWake, Lists!At
  <2> QED
    BY <1>2, <1>3, <2>1, OthersStay DEF Signalled
<1>6. ~Lists!At(t, {"remove event"})'
  BY <1>1, <1>2 DEF Lists!At
<1>7. frame.on \in Entities => frame.on \in created
  BY <1>1 DEF ListedOnce
<1> QED
  BY <1>1, <1>3, <1>4, <1>5, <1>6, <1>7, QuietNInv DEF ListsTypeOK

(* A thread that wakes the executor after it has changed the lists.          *)
LEMMA WakeNInv ==
    ASSUME Lists!EntitiesAssumption, NInv, NEW t \in Users, Lists!Announces(t) \/ Lists!Wakes(t)
    PROVE  NInv'
<1> DEFINE e == doing[t].on
           f == doing'[t]
<1>1. wake' = TRUE /\ UNCHANGED <<list, created, Lists!handles, Lists!executor>>
  BY DEF Lists!Announces, Lists!Wakes
<1>2. /\ FrameOK(f) /\ Lists!Goes(t, f) /\ e \in Entities \cup {Node}
      /\ \/ Lists!At(t, {"announce"}) /\ e \in WithEvents /\ f = Lists!Doing("append event", e, doing[t].all)
         \/ Lists!At(t, {"announce"}) /\ e \notin WithEvents /\ f.step \in {"idle", "all"}
         \/ Lists!At(t, {"announce event"}) /\ f.step \in {"idle", "all"}
         \/ Lists!At(t, {"wake"}) /\ e \in WithEvents /\ f = Lists!Doing("release event", e, doing[t].all)
         \/ Lists!At(t, {"wake"}) /\ e \notin WithEvents /\ ~Lists!WakesLast(e) /\ f = Lists!Doing("release", e, doing[t].all)
         \/ Lists!At(t, {"wake"}) /\ Lists!WakesLast(e) /\ f.step \in {"idle", "all"}
  <2>1. CASE Lists!Announces(t)
    <3>1. Lists!GoesOnCreating(t) /\ (Lists!At(t, {"announce"}) \/ Lists!At(t, {"announce event"}))
          /\ Lists!At(t, {"append", "announce", "append event", "announce event"})
      BY <2>1 DEF Lists!Announces, Lists!At
    <3> QED
      BY <3>1, CreatingFrames DEF NInv, Lists!Goes
  <2>2. CASE Lists!Wakes(t)
    <3>1. Lists!GoesOnDestroying(t) /\ Lists!At(t, {"wake"})
          /\ Lists!At(t, {"test", "mark", "remove", "remove event", "wake", "release event", "release"})
      BY <2>2 DEF Lists!Wakes, Lists!At
    <3> QED
      BY <3>1, DestroyingFrames DEF NInv, Lists!Goes
  <2> QED
    BY <2>1, <2>2
<1>3. \A s : Lists!Doing(s, e, doing[t].all).step = s /\ Lists!Doing(s, e, doing[t].all).on = e
  BY DEF Lists!Doing
<1>4. f.step \in {"idle", "all"} => f.on \notin Entities
  BY <1>2 DEF FrameOK
<1>5. Lists!WakesLast(e) => e \notin WithEvents
  BY DEF Lists!WakesLast, Lists!EntitiesAssumption
<1>6. f.step \in {"idle", "all", "append event", "release event", "release"} /\ (f.on \in Entities => f.on = e)
  BY <1>2, <1>3, <1>4
<1>7. \A x \in Lists!Items : Pending(t, x)' <=> Pending(t, x)
  <2>1. Node \notin Lists!Items
    BY DEF Lists!Items, Lists!EntitiesAssumption
  <2> QED
    BY <1>2, <1>3, <1>4, <2>1 DEF Pending, Lists!At, Lists!EntitiesAssumption, Lists!Items
<1>8. \A x \in Lists!Items : Removed(t, x)' => Removed(t, x)
  <2>1. Node \notin Lists!Items
    BY DEF Lists!Items, Lists!EntitiesAssumption
  <2> QED
    BY <1>2, <1>3, <1>4, <1>5, <2>1 DEF Removed, Lists!At
<1>9. ~Lists!At(t, {"remove event"})'
  BY <1>6 DEF Lists!At
<1>10. f.on \in Entities => f.on \in created
  BY <1>6 DEF NInv, ListedOnce
<1>11. Signalled'
  BY <1>1 DEF Signalled
<1> HIDE DEF f
<1> QED
  BY <1>1, <1>2, <1>7, <1>8, <1>9, <1>10, <1>11, QuietNInv

(* The test of _destroyed, and its setting.                                  *)
LEMMA MarkNInv ==
    ASSUME Lists!EntitiesAssumption, NInv, NEW t \in Users, Lists!Tests(t) \/ Lists!Marks(t)
    PROVE  NInv'
<1>1. UNCHANGED <<list, created, Lists!handles, wake, Lists!executor>> /\ Lists!At(t, {"test", "mark"})
  BY DEF Lists!Tests, Lists!Marks, Lists!At
<1>2. /\ FrameOK(doing[t]) /\ doing[t].all \in BOOLEAN /\ doing[t].on \in created
  BY <1>1 DEF NInv, ListsTypeOK, ListedOnce, FrameOK, Lists!At, Lists!EntitiesAssumption
<1>3. PICK frame : /\ FrameOK(frame) /\ Lists!Goes(t, frame)
                   /\ frame.step \in {"idle", "all", "mark", "remove"}
                   /\ frame.on \in Entities => frame.on = doing[t].on
  <2>1. CASE Lists!GoesOnDestroying(t)
    <3>1. Lists!At(t, {"test", "mark", "remove", "remove event", "wake", "release event", "release"})
          /\ (Lists!At(t, {"test"}) \/ Lists!At(t, {"mark"}))
      BY <1>1 DEF Lists!At
    <3>2. /\ FrameOK(doing'[t]) /\ Lists!Goes(t, doing'[t])
          /\ \/ doing'[t] = Lists!Doing("mark", doing[t].on, doing[t].all)
             \/ doing'[t] = Lists!Doing("remove", doing[t].on, doing[t].all)
      BY <2>1, <3>1, DestroyingFrames DEF NInv, Lists!Goes
    <3> QED
      BY <3>2 DEF Lists!Doing
  <2>2. CASE Lists!Goes(t, Lists!Ended(doing[t].all))
    <3>1. FrameOK(Lists!Ended(doing[t].all)) /\ Lists!Ended(doing[t].all).step \in {"idle", "all"}
      BY <1>2, RestingFrames DEF Lists!Ended, Lists!Idle, Lists!Doing
    <3>2. Lists!Ended(doing[t].all).on \notin Entities
      BY <3>1 DEF FrameOK
    <3> QED
      BY <2>2, <3>1, <3>2
  <2> QED
    BY <2>1, <2>2 DEF Lists!Tests, Lists!Marks
<1>4. doing'[t] = frame /\ \A u \in Users : u # t => doing'[u] = doing[u]
  BY <1>3, GoesFrames DEF NInv
<1>5. \A x \in Lists!Items : ~Pending(t, x) /\ ~Pending(t, x)' /\ ~Removed(t, x)'
  BY <1>1, <1>3, <1>4 DEF Pending, Removed, Lists!At
<1>6. Signalled => Signalled'
  <2>1. ~Lists!StillToWake(t)
    BY <1>1 DEF Lists!StillToWake, Lists!At
  <2> QED
    BY <1>1, <1>4, <2>1, OthersStay DEF Signalled
<1>7. ~Lists!At(t, {"remove event"})'
  BY <1>3, <1>4 DEF Lists!At
<1> QED
  BY <1>1, <1>2, <1>3, <1>5, <1>6, <1>7, QuietNInv DEF NInv, ListsTypeOK

(* list.remove() that raises ValueError: another thread has removed the      *)
(* entity, or its creator has not yet added the event handler.               *)
LEMMA ValueErrorNInv ==
    ASSUME Lists!EntitiesAssumption, NInv, NEW t \in Users,
           Lists!At(t, {"remove", "remove event"}), ~Lists!Listed(Lists!Target(t)), Lists!Goes(t, Lists!Idle),
           UNCHANGED <<list, created, marked, Lists!handles, wake, Lists!executor>>
    PROVE  NInv'
<1>1. Lists!Idle.step = "idle" /\ Lists!Idle.on \notin Entities
  BY DEF Lists!Idle, Lists!Doing, Lists!EntitiesAssumption
<1>2. FrameOK(Lists!Idle) /\ doing'[t] = Lists!Idle /\ \A u \in Users : u # t => doing'[u] = doing[u]
  BY RestingFrames, GoesFrames DEF NInv
<1>3. \A x \in Lists!Items : ~Pending(t, x) /\ ~Pending(t, x)' /\ ~Removed(t, x)'
  BY <1>1, <1>2 DEF Pending, Removed, Lists!At
<1>4. Signalled => Signalled'
  <2>1. CASE Lists!At(t, {"remove"})
    <3>1. ~Lists!StillToWake(t)
      BY <2>1 DEF Lists!StillToWake, Lists!At
    <3> QED
      BY <1>2, <3>1, OthersStay DEF Signalled
  <2>2. CASE Lists!At(t, {"remove event"})
    <3>1. doing[t].on \in WithEvents /\ Lists!Target(t) = Lists!Event(doing[t].on) /\ doing[t].on \in Lists!Items
      BY <2>2 DEF NInv, ListsTypeOK, FrameOK, OfEvents, Lists!At, Lists!Target, Lists!EntitiesAssumption, Lists!Items
    <3>2. PICK u \in Users : Pending(u, Lists!Event(doing[t].on))
      BY <2>2, <3>1 DEF NInv, EventFollows
    <3>3. doing[u].on = doing[t].on /\ Lists!At(u, {"append", "announce", "append event"})
      <4>1. Lists!At(u, {"append"}) => doing[u].on \in Entities
        BY DEF NInv, ListsTypeOK, FrameOK, Lists!At, Lists!EntitiesAssumption
      <4> QED
        BY <3>1, <3>2, <4>1 DEF Pending, Lists!EntitiesAssumption, Lists!Event, Lists!Items
    <3>4. ~Lists!At(u, {"append"})
      <4>1. Removed(t, doing[t].on)
        BY <2>2 DEF Removed, Lists!At
      <4>2. Lists!At(u, {"append"}) => Pending(u, doing[t].on)
        BY <3>3 DEF Pending
      <4> QED
        BY <3>1, <4>1, <4>2 DEF NInv, OnePlace
    <3>5. Lists!StillToWake(u) /\ u # t
      BY <2>2, <3>3, <3>4 DEF Lists!StillToWake, Lists!At
    <3> QED
      BY <1>2, <3>5, OthersStay DEF Signalled
  <2> QED
    BY <2>1, <2>2 DEF Lists!At
<1>5. ~Lists!At(t, {"remove event"})'
  BY <1>1, <1>2 DEF Lists!At
<1> QED
  BY <1>1, <1>2, <1>3, <1>4, <1>5, QuietNInv DEF NInv, ListsTypeOK

(* What a thread is to append or has removed belongs to the entity of its    *)
(* call, which was created.                                                  *)
LEMMA Owners ==
    ASSUME Lists!EntitiesAssumption, NInv, NEW u \in Users, NEW x \in Lists!Items, Pending(u, x) \/ Removed(u, x)
    PROVE  /\ doing[u].on \in created
           /\ x = doing[u].on \/ (doing[u].on \in WithEvents /\ x = Lists!Event(doing[u].on))
<1>1. x # Node
  BY DEF Lists!Items, Lists!EntitiesAssumption
<1>2. x = doing[u].on \/ (doing[u].on \in WithEvents /\ x = Lists!Event(doing[u].on))
  BY DEF Pending, Removed
<1>3. doing[u].on \in Entities
  BY <1>1, <1>2 DEF NInv, ListsTypeOK, FrameOK, Lists!At, Pending, Removed, Lists!EntitiesAssumption
<1> QED
  BY <1>2, <1>3 DEF NInv, ListedOnce

LEMMA CreateNInv ==
    ASSUME Lists!EntitiesAssumption, NInv, NEW t \in Users, NEW e \in Entities, Lists!Create(t, e)
    PROVE  NInv'
<1> DEFINE f == Lists!Doing("append", e, FALSE)
<1>1. /\ doing[t] = Lists!Idle /\ e \notin created /\ created' = created \cup {e} /\ Lists!Goes(t, f)
      /\ UNCHANGED <<list, marked, Lists!handles, wake, Lists!executor>>
  BY DEF Lists!Create
<1>2. /\ doing' \in [Users -> [step : CallSteps, on : Entities \cup {Node, None}, all : BOOLEAN]]
      /\ \A u \in Users : FrameOK(doing'[u])
      /\ doing'[t] = f /\ f.step = "append" /\ f.on = e
      /\ \A u \in Users : u # t => doing'[u] = doing[u]
  <2>1. FrameOK(f) /\ f.step = "append" /\ f.on = e
    BY RestingFrames DEF Lists!Doing
  <2> QED
    BY <1>1, <2>1, GoesFrames DEF NInv
<1>3. doing[t].step = "idle"
  BY <1>1 DEF Lists!Idle, Lists!Doing
<1>4. \A u \in Users : u # t =>
        /\ \A x : (Pending(u, x)' <=> Pending(u, x)) /\ (Removed(u, x)' <=> Removed(u, x))
        /\ Lists!StillToWake(u)' <=> Lists!StillToWake(u)
        /\ Lists!At(u, {"remove event"})' <=> Lists!At(u, {"remove event"})
  BY <1>2, OthersStay
<1> HIDE DEF f
<1>5. \A x \in Lists!Items : /\ ~Pending(t, x) /\ ~Removed(t, x) /\ ~Removed(t, x)'
                             /\ Pending(t, x)' <=> x = e \/ (e \in WithEvents /\ x = Lists!Event(e))
  BY <1>2, <1>3 DEF Pending, Removed, Lists!At
<1>6. \A x \in Lists!Items : x = e \/ (e \in WithEvents /\ x = Lists!Event(e)) =>
        ~Lists!Listed(x) /\ x \notin asked /\ \A u \in Users : ~Pending(u, x) /\ ~Removed(u, x)
  <2> TAKE x \in Lists!Items
  <2> HAVE x = e \/ (e \in WithEvents /\ x = Lists!Event(e))
  <2>1. ~Lists!Listed(x) /\ x \notin asked
    BY <1>1 DEF NInv, ListedOnce
  <2>2. ASSUME NEW u \in Users, Pending(u, x) \/ Removed(u, x) PROVE FALSE
    <3>1. /\ doing[u].on \in created /\ doing[u].on \in Entities
          /\ x = doing[u].on \/ (doing[u].on \in WithEvents /\ x = Lists!Event(doing[u].on))
      BY <2>2, Owners DEF NInv, ListsTypeOK
    <3>2. doing[u].on = e
      BY <3>1 DEF Lists!EntitiesAssumption, Lists!Event
    <3> QED
      BY <1>1, <3>1, <3>2
  <2> QED
    BY <2>1, <2>2
<1>7. \A x : Lists!Listed(x)' = Lists!Listed(x)
  BY <1>1 DEF Lists!Listed
<1>8. ListsTypeOK'
  BY <1>1, <1>2 DEF NInv, ListsTypeOK, Lists!handles, Lists!executor
<1>9. ListedOnce'
  BY <1>1, <1>2, <1>7 DEF NInv, ListedOnce, Lists!handles
<1>10. OnePlace'
  BY <1>1, <1>4, <1>5, <1>6, <1>7 DEF NInv, OnePlace, Lists!handles
<1>11. EventFollows'
  <2>1. \A v \in WithEvents, u \in Users : Pending(u, Lists!Event(v)) => Pending(u, Lists!Event(v))'
    BY <1>4, <1>5 DEF Lists!Items
  <2>2. \A u \in Users : Lists!At(u, {"remove event"})' => Lists!At(u, {"remove event"}) /\ doing'[u].on = doing[u].on
    BY <1>2, <1>4 DEF Lists!At
  <2> QED
    BY <1>7, <2>1, <2>2 DEF NInv, EventFollows
<1>12. WaitSetFollows'
  <2>1. ~Lists!StillToWake(t)
    BY <1>3 DEF Lists!StillToWake, Lists!At
  <2>2. Signalled => Signalled'
    BY <1>1, <1>4, <2>1 DEF Signalled
  <2> QED
    BY <1>1, <2>2, WaitSetKept DEF NInv, Lists!handles
<1>13. FreedWhenUnused'
  BY <1>1 DEF NInv, FreedWhenUnused, Lists!handles
<1> QED
  BY <1>8, <1>9, <1>10, <1>11, <1>12, <1>13 DEF NInv

LEMMA AppendNInv ==
    ASSUME Lists!EntitiesAssumption, NInv, NEW t \in Users, Lists!Appends(t)
    PROVE  NInv'
<1> DEFINE e == doing[t].on
           x == Lists!Target(t)
           f == doing'[t]
<1>1. /\ list' = Append(list, x) /\ UNCHANGED <<created, marked, Lists!handles, wake, Lists!executor>>
      /\ Lists!GoesOnCreating(t) /\ Lists!At(t, {"append", "append event"})
  BY DEF Lists!Appends
<1>2. /\ e \in Entities /\ FrameOK(f) /\ Lists!Goes(t, f)
      /\ \/ /\ Lists!At(t, {"append"}) /\ x = e
            /\ f = Lists!Doing("announce", e, doing[t].all)
         \/ /\ Lists!At(t, {"append event"}) /\ x = Lists!Event(e) /\ e \in WithEvents
            /\ f = Lists!Doing("announce event", e, doing[t].all)
  <2>1. Lists!At(t, {"append", "announce", "append event", "announce event"})
    BY <1>1 DEF Lists!At
  <2>2. /\ Lists!At(t, {"append"}) => x = e
        /\ Lists!At(t, {"append event"}) => x = Lists!Event(e)
        /\ Lists!At(t, {"append"}) \/ Lists!At(t, {"append event"})
    BY <1>1 DEF Lists!Target, Lists!At
  <2> HIDE DEF x
  <2> QED
    BY <1>1, <2>1, <2>2, CreatingFrames DEF NInv, Lists!Goes
<1>3. \A s : Lists!Doing(s, e, doing[t].all).step = s /\ Lists!Doing(s, e, doing[t].all).on = e
  BY DEF Lists!Doing
<1>4. /\ doing' \in [Users -> [step : CallSteps, on : Entities \cup {Node, None}, all : BOOLEAN]]
      /\ \A u \in Users : FrameOK(doing'[u])
      /\ f.step \in {"announce", "announce event"} /\ f.on = e
      /\ \A u \in Users : u # t => doing'[u] = doing[u]
  BY <1>2, <1>3, GoesFrames DEF NInv
<1>5. \A u \in Users : u # t =>
        /\ \A y : (Pending(u, y)' <=> Pending(u, y)) /\ (Removed(u, y)' <=> Removed(u, y))
        /\ Lists!At(u, {"remove event"})' <=> Lists!At(u, {"remove event"})
  BY <1>4, OthersStay
<1>6. x \in Lists!Items /\ Pending(t, x)
  BY <1>2 DEF Lists!Items, Pending, Lists!At
<1>7. \A y \in Lists!Items : /\ Pending(t, y)' <=> Pending(t, y) /\ y # x
                             /\ ~Removed(t, y) /\ ~Removed(t, y)'
  <2> TAKE y \in Lists!Items
  <2>1. ~Removed(t, y) /\ ~Removed(t, y)'
    BY <1>2, <1>4 DEF Removed, Lists!At
  <2>2. Pending(t, y)' <=> e \in WithEvents /\ y = Lists!Event(e) /\ f.step = "announce"
    BY <1>4 DEF Pending, Lists!At
  <2>3. CASE Lists!At(t, {"append"})
    <3>1. x = e /\ f.step = "announce"
      BY <1>2, <1>3, <2>3 DEF Lists!At
    <3>2. Pending(t, y) <=> y = e \/ (e \in WithEvents /\ y = Lists!Event(e))
      BY <2>3 DEF Pending, Lists!At
    <3>3. e \in WithEvents => Lists!Event(e) # e
      BY <1>2 DEF Lists!EntitiesAssumption
    <3> HIDE DEF x, f
    <3> QED
      BY <2>1, <2>2, <3>1, <3>2, <3>3
  <2>4. CASE Lists!At(t, {"append event"})
    <3>1. x = Lists!Event(e) /\ f.step = "announce event" /\ e \in WithEvents
      BY <1>2, <1>3, <2>4 DEF Lists!At
    <3>2. Pending(t, y) <=> y = Lists!Event(e)
      BY <2>4, <3>1 DEF Pending, Lists!At
    <3> HIDE DEF x, f
    <3> QED
      BY <2>1, <2>2, <3>1, <3>2
  <2> QED
    BY <1>2, <2>3, <2>4
<1> HIDE DEF f, x
<1>8. /\ ~Lists!Listed(x) /\ x \notin asked
      /\ \A u \in Users : ~Removed(u, x) /\ (Pending(u, x) => u = t)
  BY <1>6 DEF NInv, OnePlace
<1>9. /\ list' \in Seq(Lists!Items) /\ \A y : Lists!Listed(y)' <=> Lists!Listed(y) \/ y = x
      /\ \A i, j \in 1..Len(list') : list'[i] = list'[j] => i = j
  <2>1. list \in Seq(Lists!Items) /\ Len(list) \in Nat /\ \A i, j \in 1..Len(list) : list[i] = list[j] => i = j
    BY LenProperties DEF NInv, ListsTypeOK, ListedOnce
  <2>2. /\ list' \in Seq(Lists!Items) /\ Len(list') = Len(list) + 1
        /\ \A i \in 1..Len(list) : list'[i] = list[i]
        /\ list'[Len(list) + 1] = x
        /\ Lists!ToSet(list') = Lists!ToSet(list) \cup {x}
    <3>1. x \in Lists!Items
      BY <1>6
    <3>2. /\ Append(list, x) \in Seq(Lists!Items) /\ Len(Append(list, x)) = Len(list) + 1
          /\ \A i \in 1..Len(list) : Append(list, x)[i] = list[i]
          /\ Append(list, x)[Len(list) + 1] = x
          /\ Lists!ToSet(Append(list, x)) = Lists!ToSet(list) \cup {x}
      <4>1. list \in Seq(Lists!Items)
        BY <2>1
      <4> QED
        BY ONLY <3>1, <4>1, AppendElements
    <3> QED
      BY <1>1, <3>2, Zenon
  <2>3. \A i \in 1..Len(list) : list[i] # x
    BY <1>8, <2>1, LenProperties DEF Lists!Listed, Lists!ToSet
  <2>4. \A i, j \in 1..Len(list') : list'[i] = list'[j] => i = j
    BY <2>1, <2>2, <2>3
  <2> QED
    BY <2>2, <2>4 DEF Lists!Listed
<1>10. ListsTypeOK'
  BY <1>1, <1>4, <1>9 DEF NInv, ListsTypeOK, Lists!handles, Lists!executor
<1>11. ListedOnce'
  <2>1. e \in created /\ e \in Entities /\ (x = e \/ x = Lists!Event(e))
    BY <1>2 DEF NInv, ListedOnce
  <2>2. \A v \in Entities : Lists!Listed(v)' => v \in created
    <3> TAKE v \in Entities
    <3>1. v = x => v = e
      BY <2>1 DEF Lists!EntitiesAssumption
    <3> QED
      BY <1>9, <2>1, <3>1 DEF NInv, ListedOnce
  <2>3. \A v \in WithEvents : Lists!Listed(Lists!Event(v))' => v \in created
    <3> TAKE v \in WithEvents
    <3>1. Lists!Event(v) = x => v = e
      BY <2>1 DEF Lists!EntitiesAssumption, Lists!Event
    <3> QED
      BY <1>9, <2>1, <3>1 DEF NInv, ListedOnce
  <2>4. UNCHANGED <<created, asked>>
    BY <1>1 DEF Lists!handles
  <2>5. \A u \in Users : doing'[u].on \in Entities => doing'[u].on \in created
    BY <1>4, <2>1 DEF NInv, ListedOnce, f
  <2> QED
    BY <1>9, <2>2, <2>3, <2>4, <2>5 DEF NInv, ListedOnce
<1>12. OnePlace'
  <2> SUFFICES ASSUME NEW y \in Lists!Items
               PROVE  /\ Lists!Listed(y)' => y \notin asked
                      /\ \A u \in Users :
                           /\ Pending(u, y)' => /\ ~Lists!Listed(y)' /\ y \notin asked
                                                /\ \A v \in Users : ~Removed(v, y)' /\ (Pending(v, y)' => v = u)
                           /\ Removed(u, y)' => /\ ~Lists!Listed(y)'
                                                /\ \A v \in Users : Removed(v, y)' => v = u
    BY <1>1 DEF OnePlace, Lists!handles
  <2>1. \A u \in Users : (Pending(u, y)' => Pending(u, y) /\ y # x) /\ (Removed(u, y)' => Removed(u, y))
    BY <1>5, <1>7, <1>8
  <2>2. Lists!Listed(y)' <=> Lists!Listed(y) \/ y = x
    BY <1>9
  <2> QED
    BY <1>8, <2>1, <2>2 DEF NInv, OnePlace
<1>13. EventFollows'
  <2> SUFFICES ASSUME NEW v \in WithEvents,
                      (Lists!Listed(v) \/ \E u \in Users : Lists!At(u, {"remove event"}) /\ doing[u].on = v)'
               PROVE  (Lists!Listed(Lists!Event(v)) \/ \E u \in Users : Pending(u, Lists!Event(v)))'
    BY DEF EventFollows
  <2>1. CASE v = x
    <3>1. v = e /\ Lists!At(t, {"append"}) /\ f.step = "announce" /\ f.on = e
      BY <1>2, <1>3, <2>1 DEF Lists!EntitiesAssumption
    <3>2. Pending(t, Lists!Event(v))'
      BY <3>1 DEF Pending, Lists!At, f
    <3> QED
      BY <3>2
  <2>2. CASE v # x
    <3>1. Lists!Listed(v) \/ \E u \in Users : Lists!At(u, {"remove event"}) /\ doing[u].on = v
      <4>1. ~Lists!At(t, {"remove event"})'
        BY <1>4 DEF Lists!At, f
      <4> QED
        BY <1>4, <1>5, <1>9, <2>2, <4>1
    <3>2. Lists!Listed(Lists!Event(v)) \/ \E u \in Users : Pending(u, Lists!Event(v))
      BY <3>1 DEF NInv, EventFollows
    <3>3. Lists!Event(v) \in Lists!Items
      BY DEF Lists!Items
    <3> QED
      BY <1>5, <1>7, <1>9, <3>2, <3>3
  <2> QED
    BY <2>1, <2>2
<1>14. WaitSetFollows'
  <2>1. Lists!StillToWake(t)'
    BY <1>4 DEF Lists!StillToWake, Lists!At, f
  <2> QED
    BY <1>1, <2>1, WaitSetKept DEF NInv, Lists!handles, Signalled
<1>15. FreedWhenUnused'
  BY <1>1 DEF NInv, FreedWhenUnused, Lists!handles
<1> QED
  BY <1>10, <1>11, <1>12, <1>13, <1>14, <1>15 DEF NInv

LEMMA RemoveNInv ==
    ASSUME Lists!EntitiesAssumption, NInv, NEW t \in Users, Lists!Removes(t)
    PROVE  NInv'
<1> DEFINE e == doing[t].on
           x == Lists!Target(t)
           f == doing'[t]
<1>1. UNCHANGED <<created, marked, Lists!handles, wake, Lists!executor>> /\ Lists!At(t, {"remove", "remove event"})
  BY DEF Lists!Removes
<1>2. CASE ~Lists!Listed(x) /\ Lists!Goes(t, Lists!Idle) /\ UNCHANGED list
  BY <1>1, <1>2, ValueErrorNInv
<1>3. ASSUME NEW i \in 1..Len(list), list[i] = x, list' = Lists!RemoveAt(list, i), Lists!GoesOnDestroying(t)
      PROVE  NInv'
  <2>1. /\ e \in Entities /\ FrameOK(f) /\ Lists!Goes(t, f) /\ f.on = e
        /\ \/ /\ Lists!At(t, {"remove"}) /\ x = e
              /\ f.step = IF e \in WithEvents THEN "remove event" ELSE IF Lists!WakesLast(e) THEN "release" ELSE "wake"
           \/ /\ Lists!At(t, {"remove event"}) /\ x = Lists!Event(e) /\ e \in WithEvents /\ f.step = "wake"
    <3>1. Lists!At(t, {"test", "mark", "remove", "remove event", "wake", "release event", "release"})
      BY <1>1 DEF Lists!At
    <3>2. /\ Lists!At(t, {"remove"}) => x = e /\ ~Lists!At(t, {"wake", "release"})
          /\ Lists!At(t, {"remove event"}) => x = Lists!Event(e) /\ ~Lists!At(t, {"wake", "release"})
          /\ Lists!At(t, {"remove"}) \/ Lists!At(t, {"remove event"})
      BY <1>1 DEF Lists!Target, Lists!At
    <3>3. Lists!Doing("wake", e, doing[t].all).step = "wake" /\ Lists!Doing("wake", e, doing[t].all).on = e
      BY DEF Lists!Doing
    <3> HIDE DEF x
    <3> QED
      BY <1>3, <3>1, <3>2, <3>3, DestroyingFrames DEF NInv, Lists!Goes
  <2>2. /\ doing' \in [Users -> [step : CallSteps, on : Entities \cup {Node, None}, all : BOOLEAN]]
        /\ \A u \in Users : FrameOK(doing'[u])
        /\ \A u \in Users : u # t => doing'[u] = doing[u]
    BY <2>1, GoesFrames DEF NInv
  <2>3. \A u \in Users : u # t =>
          /\ \A y : (Pending(u, y)' <=> Pending(u, y)) /\ (Removed(u, y)' <=> Removed(u, y))
          /\ Lists!At(u, {"remove event"})' <=> Lists!At(u, {"remove event"})
    BY <2>2, OthersStay
  <2>4. x \in Lists!Items /\ Lists!Listed(x)
    <3>1. x \in Lists!Items
      BY <2>1 DEF Lists!Items
    <3>2. Lists!Listed(x)
      BY <1>3, LenProperties DEF Lists!Listed, Lists!ToSet, NInv, ListsTypeOK
    <3> QED
      BY <3>1, <3>2
  <2>5. /\ x \notin asked
        /\ \A u \in Users : ~Pending(u, x) /\ ~Removed(u, x)
    BY <2>4 DEF NInv, OnePlace
  <2>6. \A y \in Lists!Items : ~Pending(t, y) /\ ~Pending(t, y)'
    BY <1>1, <2>1 DEF Pending, Lists!At
  <2>7. \A y \in Lists!Items : Removed(t, y)' <=> Removed(t, y) \/ y = x
    <3> TAKE y \in Lists!Items
    <3>1. Lists!WakesLast(e) => e \notin WithEvents
      BY DEF Lists!WakesLast, Lists!EntitiesAssumption
    <3>2. CASE Lists!At(t, {"remove"})
      <4>1. x = e /\ f.step = IF e \in WithEvents THEN "remove event" ELSE IF Lists!WakesLast(e) THEN "release" ELSE "wake"
        BY <2>1, <3>2 DEF Lists!At
      <4>2. ~Removed(t, y)
        BY <3>2 DEF Removed, Lists!At
      <4>3. Removed(t, y)' <=> y = e
        BY <2>1, <3>1, <4>1 DEF Removed, Lists!At
      <4> QED
        BY <4>1, <4>2, <4>3
    <3>3. CASE Lists!At(t, {"remove event"})
      <4>1. x = Lists!Event(e) /\ e \in WithEvents /\ f.step = "wake"
        BY <2>1, <3>3 DEF Lists!At
      <4>2. Removed(t, y) <=> y = e
        BY <3>3 DEF Removed, Lists!At
      <4>3. Removed(t, y)' <=> y = e \/ y = Lists!Event(e)
        BY <2>1, <3>1, <4>1 DEF Removed, Lists!At
      <4> QED
        BY <4>1, <4>2, <4>3
    <3> QED
      BY <2>1, <3>2, <3>3
  <2>8. Lists!StillToWake(t)'
    BY <2>1 DEF Lists!StillToWake, Lists!At
  <2>9. Lists!At(t, {"remove event"})' => e \in WithEvents /\ x = e
    BY <2>1 DEF Lists!At
  <2> HIDE DEF f, x
  <2>10. /\ list' \in Seq(Lists!Items) /\ \A y : Lists!Listed(y)' <=> Lists!Listed(y) /\ y # x
         /\ \A j, k \in 1..Len(list') : list'[j] = list'[k] => j = k
    <3>1. list \in Seq(Lists!Items) /\ \A j, k \in 1..Len(list) : list[j] = list[k] => j = k
      BY DEF NInv, ListsTypeOK, ListedOnce
    <3>2. /\ Lists!RemoveAt(list, i) \in Seq(Lists!Items)
          /\ \A j, k \in 1..Len(Lists!RemoveAt(list, i)) : Lists!RemoveAt(list, i)[j] = Lists!RemoveAt(list, i)[k] => j = k
          /\ Lists!ToSet(Lists!RemoveAt(list, i)) = Lists!ToSet(list) \ {list[i]}
      BY <3>1, RemovedElements
    <3> QED
      BY <1>3, <3>2 DEF Lists!Listed
  <2>11. ListsTypeOK'
    BY <1>1, <2>2, <2>10 DEF NInv, ListsTypeOK, Lists!handles, Lists!executor
  <2>12. ListedOnce'
    <3>1. \A u \in Users : doing'[u].on \in Entities => doing'[u].on \in created
      BY <2>1, <2>2 DEF NInv, ListedOnce, f
    <3> QED
      BY <1>1, <2>10, <3>1 DEF NInv, ListedOnce, Lists!handles
  <2>13. OnePlace'
    <3> SUFFICES ASSUME NEW y \in Lists!Items
                 PROVE  /\ Lists!Listed(y)' => y \notin asked
                        /\ \A u \in Users :
                             /\ Pending(u, y)' => /\ ~Lists!Listed(y)' /\ y \notin asked
                                                  /\ \A v \in Users : ~Removed(v, y)' /\ (Pending(v, y)' => v = u)
                             /\ Removed(u, y)' => /\ ~Lists!Listed(y)'
                                                  /\ \A v \in Users : Removed(v, y)' => v = u
      BY <1>1 DEF OnePlace, Lists!handles
    <3>1. \A u \in Users : /\ Pending(u, y)' => Pending(u, y)
                           /\ Removed(u, y)' => Removed(u, y) \/ (y = x /\ u = t)
      BY <2>3, <2>6, <2>7
    <3>2. Lists!Listed(y)' <=> Lists!Listed(y) /\ y # x
      BY <2>10
    <3> QED
      BY <2>5, <3>1, <3>2 DEF NInv, OnePlace
  <2>14. EventFollows'
    <3> SUFFICES ASSUME NEW v \in WithEvents,
                        (Lists!Listed(v) \/ \E u \in Users : Lists!At(u, {"remove event"}) /\ doing[u].on = v)'
                 PROVE  (Lists!Listed(Lists!Event(v)) \/ \E u \in Users : Pending(u, Lists!Event(v)))'
      BY DEF EventFollows
    <3>1. Lists!Listed(v) \/ \E u \in Users : Lists!At(u, {"remove event"}) /\ doing[u].on = v
      <4>1. CASE Lists!Listed(v)'
        BY <2>10, <4>1
      <4>2. CASE \E u \in Users : Lists!At(u, {"remove event"})' /\ doing'[u].on = v
        <5>1. PICK u \in Users : Lists!At(u, {"remove event"})' /\ doing'[u].on = v
          BY <4>2
        <5>2. CASE u = t
          BY <2>1, <2>4, <2>9, <5>1, <5>2 DEF f
        <5>3. CASE u # t
          BY <2>2, <2>3, <5>1, <5>3
        <5> QED
          BY <5>2, <5>3
      <4> QED
        BY <4>1, <4>2
    <3>2. Lists!Listed(Lists!Event(v)) \/ \E u \in Users : Pending(u, Lists!Event(v))
      BY <3>1 DEF NInv, EventFollows
    <3>3. Lists!Event(v) # x
      <4> SUFFICES ASSUME Lists!Event(v) = x PROVE FALSE
        OBVIOUS
      <4>1. Lists!At(t, {"remove event"}) /\ v = e /\ f.step = "wake"
        BY <2>1 DEF Lists!EntitiesAssumption, Lists!Event
      <4>2. Removed(t, e) /\ e \in Lists!Items
        BY <2>1, <4>1 DEF Removed, Lists!At, Lists!Items
      <4>3. ~Lists!Listed(e) /\ \A u \in Users : Removed(u, e) => u = t
        BY <4>2 DEF NInv, OnePlace
      <4>4. PICK u \in Users : Lists!At(u, {"remove event"})' /\ doing'[u].on = e
        BY <2>10, <4>1, <4>3
      <4>5. u # t
        BY <4>1, <4>4 DEF Lists!At, f
      <4>6. Removed(u, e)
        BY <2>2, <2>3, <4>4, <4>5 DEF Removed, Lists!At
      <4> QED
        BY <4>3, <4>5, <4>6
    <3>4. Lists!Event(v) \in Lists!Items
      BY DEF Lists!Items
    <3> QED
      BY <2>3, <2>6, <2>10, <3>2, <3>3, <3>4
  <2>15. WaitSetFollows'
    BY <1>1, <2>8, WaitSetKept DEF NInv, Lists!handles, Signalled
  <2>16. FreedWhenUnused'
    BY <1>1 DEF NInv, FreedWhenUnused, Lists!handles
  <2> QED
    BY <2>11, <2>12, <2>13, <2>14, <2>15, <2>16 DEF NInv
<1> QED
  BY <1>2, <1>3 DEF Lists!Removes

LEMMA ReleaseNInv ==
    ASSUME Lists!EntitiesAssumption, NInv, NEW t \in Users, Lists!Releases(t)
    PROVE  NInv'
<1> DEFINE e == doing[t].on
           x == Lists!Target(t)
           f == doing'[t]
<1>1. /\ Lists!At(t, {"release", "release event"}) /\ Lists!Release(x) /\ Lists!GoesOnDestroying(t)
      /\ UNCHANGED <<list, created, marked, users, wake, Lists!executor>>
  BY DEF Lists!Releases
<1>2. /\ e \in Entities \cup {Node} /\ FrameOK(f) /\ Lists!Goes(t, f)
      /\ \/ /\ Lists!At(t, {"release event"}) /\ x = Lists!Event(e) /\ e \in WithEvents
            /\ f.step = "release" /\ f.on = e
         \/ /\ Lists!At(t, {"release"}) /\ x = e /\ Lists!WakesLast(e)
            /\ f.step = "wake" /\ f.on = e
         \/ /\ Lists!At(t, {"release"}) /\ x = e /\ ~Lists!WakesLast(e)
            /\ f.step \in {"idle", "all"} /\ f.on \notin Entities
  <2>1. Lists!At(t, {"test", "mark", "remove", "remove event", "wake", "release event", "release"})
    BY <1>1 DEF Lists!At
  <2>2. /\ Lists!At(t, {"release"}) => x = e
        /\ Lists!At(t, {"release event"}) => x = Lists!Event(e)
        /\ Lists!At(t, {"release"}) \/ Lists!At(t, {"release event"})
    BY <1>1 DEF Lists!Target, Lists!At
  <2>3. \A s : Lists!Doing(s, e, doing[t].all).step = s /\ Lists!Doing(s, e, doing[t].all).on = e
    BY DEF Lists!Doing
  <2> HIDE DEF x
  <2>4. /\ e \in Entities \cup {Node} /\ FrameOK(f) /\ Lists!Goes(t, f)
        /\ \/ /\ Lists!At(t, {"release event"}) /\ x = Lists!Event(e) /\ e \in WithEvents
              /\ f.step = "release" /\ f.on = e
           \/ /\ Lists!At(t, {"release"}) /\ x = e /\ Lists!WakesLast(e)
              /\ f.step = "wake" /\ f.on = e
           \/ /\ Lists!At(t, {"release"}) /\ x = e /\ ~Lists!WakesLast(e)
              /\ f.step \in {"idle", "all"}
    <3>1. /\ e \in Entities \cup {Node} /\ FrameOK(f) /\ Lists!Goes(t, f)
          /\ Lists!At(t, {"release event"}) => e \in WithEvents /\ f = Lists!Doing("release", e, doing[t].all)
          /\ Lists!At(t, {"release"}) /\ Lists!WakesLast(e) => f = Lists!Doing("wake", e, doing[t].all)
          /\ Lists!At(t, {"release"}) /\ ~Lists!WakesLast(e) => f.step \in {"idle", "all"}
      BY <1>1, <2>1, DestroyingFrames DEF NInv, Lists!Goes
    <3> HIDE DEF f
    <3> QED
      BY <2>2, <2>3, <3>1
  <2>5. f.step \in {"idle", "all"} => f.on \notin Entities
    BY <2>4 DEF FrameOK
  <2> QED
    BY <2>4, <2>5
<1>3. /\ doing' \in [Users -> [step : CallSteps, on : Entities \cup {Node, None}, all : BOOLEAN]]
      /\ \A u \in Users : FrameOK(doing'[u])
      /\ \A u \in Users : u # t => doing'[u] = doing[u]
  BY <1>2, GoesFrames DEF NInv
<1>4. \A u \in Users : u # t =>
        /\ \A y : (Pending(u, y)' <=> Pending(u, y)) /\ (Removed(u, y)' <=> Removed(u, y))
        /\ Lists!StillToWake(u)' <=> Lists!StillToWake(u)
        /\ Lists!At(u, {"remove event"})' <=> Lists!At(u, {"remove event"})
  BY <1>3, OthersStay
<1>5. x \in Lists!Destroyables /\ (x \in Lists!Items => Removed(t, x) /\ e \in Entities)
  BY <1>2 DEF Lists!Destroyables, Lists!Items, Removed, Lists!At, Lists!EntitiesAssumption
<1>6. \A y \in Lists!Items : ~Pending(t, y) /\ ~Pending(t, y)' /\ (Removed(t, y)' => Removed(t, y))
  <2> TAKE y \in Lists!Items
  <2>1. y # Node
    BY DEF Lists!Items, Lists!EntitiesAssumption
  <2>2. ~Pending(t, y) /\ ~Pending(t, y)'
    BY <1>1, <1>2 DEF Pending, Lists!At
  <2>3. Removed(t, y)' => y = e /\ Lists!At(t, {"release event"})
    <3>1. Lists!WakesLast(e) => e \notin WithEvents
      BY DEF Lists!WakesLast, Lists!EntitiesAssumption
    <3>2. CASE Lists!At(t, {"release event"})
      <4>1. f.step = "release" /\ f.on = e
        BY <1>2, <3>2 DEF Lists!At
      <4> QED
        BY <3>2, <4>1 DEF Removed, Lists!At
    <3>3. CASE Lists!At(t, {"release"})
      <4>1. \/ Lists!WakesLast(e) /\ f.step = "wake" /\ f.on = e
            \/ f.step \in {"idle", "all"}
        BY <1>2, <3>3 DEF Lists!At
      <4> QED
        BY <3>1, <4>1 DEF Removed, Lists!At
    <3> QED
      BY <1>2, <3>2, <3>3
  <2> QED
    BY <2>2, <2>3 DEF Removed, Lists!At
<1>7. ~Lists!At(t, {"remove event"})'
  BY <1>2 DEF Lists!At
<1>8. Signalled => Signalled'
  <2>1. Lists!StillToWake(t) => Lists!StillToWake(t)'
    BY <1>1, <1>2 DEF Lists!StillToWake, Lists!At
  <2> QED
    BY <1>1, <1>4, <2>1 DEF Signalled
<1>9. asked' = asked \cup {x} /\ freed' = (IF users[x] = {} THEN freed \cup {x} ELSE freed)
  BY <1>1 DEF Lists!Release
<1>10. \A y : Lists!Listed(y)' = Lists!Listed(y)
  BY <1>1 DEF Lists!Listed
<1>11. ~Lists!Listed(x) \/ x = Node
  BY <1>5 DEF NInv, OnePlace, Lists!Destroyables
<1>12. ListsTypeOK'
  BY <1>1, <1>3, <1>5, <1>9 DEF NInv, ListsTypeOK, Lists!executor
<1>13. ListedOnce'
  <2>1. x = Node \/ (e \in created /\ (x = e \/ (e \in WithEvents /\ x = Lists!Event(e))))
    <3>1. e \in Entities => e \in created
      BY DEF NInv, ListedOnce
    <3>2. x = e \/ (e \in WithEvents /\ x = Lists!Event(e))
      BY <1>2
    <3> HIDE DEF x
    <3> QED
      BY <1>2, <3>1, <3>2 DEF Lists!EntitiesAssumption
  <2>2. \A v \in Entities : v = x => v \in created
    BY <2>1 DEF Lists!EntitiesAssumption
  <2>3. \A v \in WithEvents : Lists!Event(v) = x => v \in created
    <3> TAKE v \in WithEvents
    <3> HAVE Lists!Event(v) = x
    <3>1. x # Node
      BY DEF Lists!EntitiesAssumption
    <3>2. x = e => e \notin Entities
      BY DEF Lists!EntitiesAssumption
    <3>3. x = Lists!Event(e) => v = e
      BY DEF Lists!Event
    <3> HIDE DEF x
    <3> QED
      BY <2>1, <3>1, <3>2, <3>3 DEF NInv, ListsTypeOK
  <2>4. \A u \in Users : doing'[u].on \in Entities => doing'[u].on \in created
    BY <1>2, <1>3 DEF NInv, ListedOnce, Lists!EntitiesAssumption
  <2> HIDE DEF x
  <2> QED
    BY <1>1, <1>9, <1>10, <2>2, <2>3, <2>4 DEF NInv, ListedOnce
<1> HIDE DEF f, x
<1>14. OnePlace'
  <2> SUFFICES ASSUME NEW y \in Lists!Items
               PROVE  /\ Lists!Listed(y) => y \notin asked'
                      /\ \A u \in Users :
                           /\ Pending(u, y)' => /\ ~Lists!Listed(y) /\ y \notin asked'
                                                /\ \A v \in Users : ~Removed(v, y)' /\ (Pending(v, y)' => v = u)
                           /\ Removed(u, y)' => /\ ~Lists!Listed(y)
                                                /\ \A v \in Users : Removed(v, y)' => v = u
    BY <1>10 DEF OnePlace
  <2>1. \A u \in Users : (Pending(u, y)' => Pending(u, y)) /\ (Removed(u, y)' => Removed(u, y))
    BY <1>4, <1>6
  <2>2. y = x => Removed(t, y)
    BY <1>5
  <2> QED
    BY <1>9, <2>1, <2>2 DEF NInv, OnePlace
<1>15. EventFollows'
  <2>1. \A v \in WithEvents, u \in Users : Pending(u, Lists!Event(v)) => Pending(u, Lists!Event(v))'
    BY <1>4, <1>6 DEF Lists!Items
  <2>2. \A u \in Users : Lists!At(u, {"remove event"})' => Lists!At(u, {"remove event"}) /\ doing'[u].on = doing[u].on
    BY <1>3, <1>4, <1>7
  <2> QED
    BY <1>10, <2>1, <2>2 DEF NInv, EventFollows
<1>16. WaitSetFollows'
  BY <1>1, <1>8, WaitSetKept DEF NInv
<1>17. FreedWhenUnused'
  BY <1>1, <1>5, <1>9 DEF NInv, FreedWhenUnused
<1> QED
  BY <1>12, <1>13, <1>14, <1>15, <1>16, <1>17 DEF NInv

-----------------------------------------------------------------------------
(* The executor changes neither the lists nor what threads are at.           *)
LEMMA SpinKeeps ==
    ASSUME NInv, UNCHANGED <<list, doing, created, marked, asked>>
    PROVE  /\ ListedOnce' /\ OnePlace' /\ EventFollows'
           /\ (\E t \in Users : Lists!StillToWake(t))' <=> \E t \in Users : Lists!StillToWake(t)
<1>1. ListedOnce'
  BY DEF NInv, ListedOnce, Lists!Listed
<1>2. OnePlace'
  <2>1. \A t \in Users, x \in Lists!Items : (Pending(t, x)' <=> Pending(t, x)) /\ (Removed(t, x)' <=> Removed(t, x))
    BY DEF Pending, Removed, Lists!At
  <2>2. \A x \in Lists!Items : Lists!Listed(x)' = Lists!Listed(x)
    BY DEF Lists!Listed
  <2> QED
    BY <2>1, <2>2 DEF NInv, OnePlace
<1>3. EventFollows'
  BY DEF NInv, EventFollows, Lists!Listed, Pending, Lists!At
<1>4. (\E t \in Users : Lists!StillToWake(t))' <=> \E t \in Users : Lists!StillToWake(t)
  BY DEF Lists!StillToWake, Lists!At
<1> QED
  BY <1>1, <1>2, <1>3, <1>4

LEMMA StartsEmpty ==
    ASSUME Len(list) \in Nat, list' = list, index' = 1
    PROVE  GatheredSoFar' = {} /\ index' <= Len(list') + 1
<1>1. \A j \in 1..Len(list) : ~(j < index')
  OBVIOUS
<1>2. GatheredSoFar' = {}
  BY <1>1 DEF GatheredSoFar
<1>3. index' <= Len(list') + 1
  OBVIOUS
<1> QED
  BY <1>2, <1>3

LEMMA GatherNInv ==
    ASSUME NInv, Lists!Gather
    PROVE  NInv'
<1>1. at = "gather" /\ UNCHANGED <<list, doing, created, marked, asked, freed, users, wake>>
  BY DEF Lists!Gather
<1>2. ListedOnce' /\ OnePlace' /\ EventFollows' /\ (Signalled' <=> Signalled)
  BY <1>1, SpinKeeps DEF Signalled
<1>3. list \in Seq(Lists!Items) /\ Len(list) \in Nat /\ DOMAIN list = 1..Len(list) /\ \A i \in 1..Len(list) : list[i] \in Lists!Items
  BY LenProperties DEF NInv, ListsTypeOK
<1>4. index \in Nat /\ index >= 1
  BY DEF NInv, ListsTypeOK
<1>5. FreedWhenUnused'
  BY <1>1 DEF NInv, FreedWhenUnused
<1>6. CASE index <= Len(list)
  <2>1. gathered' = gathered \cup {list[index]} /\ index' = index + 1 /\ at' = at
    BY <1>6 DEF Lists!Gather
  <2>2. ListsTypeOK'
    <3>1. index' \in Nat /\ index' >= 1
      BY ONLY <1>4, <2>1
    <3>2. list[index] \in Lists!Items
      BY ONLY <1>3, <1>4, <1>6
    <3>3. gathered' \subseteq Lists!Items
      BY <2>1, <3>2 DEF NInv, ListsTypeOK
    <3> QED
      BY <1>1, <2>1, <3>1, <3>3 DEF NInv, ListsTypeOK
  <2>3. GatheredSoFar' = GatheredSoFar \cup {list[index]}
    BY <1>1, <1>3, <1>4, <1>6, <2>1 DEF GatheredSoFar
  <2>4. WaitSetFollows'
    <3>1. index' <= Len(list') + 1
      BY <1>1, <1>3, <1>4, <1>6, <2>1
    <3>2. Signalled \/ gathered' = GatheredSoFar'
      BY <1>1, <2>1, <2>3 DEF NInv, WaitSetFollows
    <3>3. at' = "gather" /\ users' = users
      BY <1>1, <2>1
    <3> QED
      BY <1>1, <1>2, <3>1, <3>2, <3>3 DEF NInv, WaitSetFollows
  <2> QED
    BY <1>2, <1>5, <2>2, <2>4 DEF NInv
<1>7. CASE ~(index <= Len(list))
  <2>1. at' = "enter" /\ UNCHANGED <<gathered, index>>
    BY <1>7 DEF Lists!Gather
  <2>2. ListsTypeOK'
    BY <1>1, <2>1 DEF NInv, ListsTypeOK
  <2>3. Lists!Held = {} /\ Lists!Held' = {}
    BY <1>1 DEF NInv, WaitSetFollows, Lists!Held, Lists!Destroyables
  <2>4. index <= Len(list) + 1 => GatheredSoFar = Lists!ToSet(list)
    BY <1>3, <1>4, <1>7 DEF GatheredSoFar, Lists!ToSet
  <2>5. WaitSetFollows'
    BY <1>1, <1>2, <2>1, <2>3, <2>4 DEF NInv, WaitSetFollows
  <2> QED
    BY <1>2, <1>5, <2>2, <2>5 DEF NInv
<1> QED
  BY <1>6, <1>7

LEMMA EnterNInv ==
    ASSUME NInv, Lists!Enter
    PROVE  NInv'
<1>1. at = "enter" /\ UNCHANGED <<list, doing, created, marked, asked, freed, wake, index>>
  BY DEF Lists!Enter
<1>2. ListedOnce' /\ OnePlace' /\ EventFollows' /\ (Signalled' <=> Signalled)
  BY <1>1, SpinKeeps DEF Signalled
<1>3. CASE gathered = {}
  <2>1. at' = "wait" /\ UNCHANGED <<gathered, users>>
    BY <1>3 DEF Lists!Enter
  <2>2. ListsTypeOK'
    BY <1>1, <2>1 DEF NInv, ListsTypeOK
  <2>3. WaitSetFollows'
    BY <1>1, <1>2, <1>3, <2>1 DEF NInv, WaitSetFollows, Lists!Held
  <2>4. FreedWhenUnused'
    BY <1>1, <2>1 DEF NInv, FreedWhenUnused
  <2> QED
    BY <1>2, <2>2, <2>3, <2>4 DEF NInv
<1>4. ASSUME NEW x \in gathered, gathered' = gathered \ {x}, at' = at,
             users' = IF Lists!Entered(x) THEN [users EXCEPT ![x] = @ \cup {"wait set"}] ELSE users
      PROVE  NInv'
  <2>1. x \in Lists!Items /\ x \in Lists!Destroyables
    BY DEF NInv, ListsTypeOK, Lists!Destroyables
  <2>2. /\ users' \in [Lists!Destroyables -> SUBSET {"wait set", "taker"}]
        /\ Lists!Entered(x) => users'[x] = users[x] \cup {"wait set"}
        /\ \A y \in Lists!Destroyables : y # x \/ ~Lists!Entered(x) => users'[y] = users[y]
    BY <1>4, <2>1 DEF NInv, ListsTypeOK
  <2>3. ListsTypeOK'
    BY <1>1, <1>4, <2>2 DEF NInv, ListsTypeOK
  <2>4. Lists!Held' = IF Lists!Entered(x) THEN Lists!Held \cup {x} ELSE Lists!Held
    BY <2>1, <2>2 DEF Lists!Held, Lists!Destroyables
  <2>5. ~Lists!Entered(x) => x \notin Lists!ToSet(list)
    BY <2>1 DEF NInv, OnePlace, Lists!Entered, Lists!Listed
  <2>6. Signalled \/ gathered' \cup Lists!Held' = Lists!ToSet(list)
    BY <1>1, <1>4, <2>4, <2>5 DEF NInv, WaitSetFollows
  <2>7. \A y \in Lists!Destroyables : "wait set" \in users'[y] => y \in Lists!Items
    BY <2>1, <2>2 DEF NInv, WaitSetFollows
  <2>8. WaitSetFollows'
    BY <1>1, <1>2, <1>4, <2>6, <2>7 DEF WaitSetFollows
  <2>9. FreedWhenUnused'
    BY <1>1, <2>2 DEF NInv, FreedWhenUnused, Lists!Entered
  <2> QED
    BY <1>2, <2>3, <2>8, <2>9 DEF NInv
<1> QED
  BY <1>1, <1>3, <1>4 DEF Lists!Enter

LEMMA LeaveNInv ==
    ASSUME NInv, Lists!Woken \/ Lists!Ready
    PROVE  NInv'
<1>1. PICK ready \in SUBSET Lists!Items : Lists!Leave(ready) /\ at = "wait"
  BY DEF Lists!Woken, Lists!Ready, Lists!Held
<1>2. /\ UNCHANGED <<list, doing, created, marked, asked>> /\ index' = 1 /\ gathered' = ready
      /\ users' = [x \in Lists!Destroyables |-> users[x] \ {"wait set"}]
      /\ freed' = freed \cup {x \in asked \cap Lists!Held : users[x] = {"wait set"}}
      /\ at' = IF ready = {} THEN "gather" ELSE "take"
  BY <1>1 DEF Lists!Leave
<1>3. wake' \in BOOLEAN
  BY DEF Lists!Woken, Lists!Ready, NInv, ListsTypeOK
<1>4. ListedOnce' /\ OnePlace' /\ EventFollows'
  BY <1>2, SpinKeeps
<1>5. ListsTypeOK'
  <2>1. users' \in [Lists!Destroyables -> SUBSET {"wait set", "taker"}]
    BY <1>2 DEF NInv, ListsTypeOK
  <2>2. freed' \subseteq Lists!Destroyables
    BY <1>2 DEF NInv, ListsTypeOK
  <2>3. at' \in {"gather", "take"}
    BY <1>2
  <2>4. index' \in Nat /\ index' >= 1
    <3>1. index' = 1
      BY <1>2
    <3> QED
      BY ONLY <3>1
  <2>5. gathered' \subseteq Lists!Items
    BY <1>1, <1>2
  <2> QED
    BY <1>2, <1>3, <2>1, <2>2, <2>3, <2>4, <2>5 DEF NInv, ListsTypeOK
<1>6. WaitSetFollows'
  <2>0. Len(list) \in Nat
    BY LenProperties DEF NInv, ListsTypeOK
  <2>1. GatheredSoFar' = {} /\ index' <= Len(list') + 1
    <3>1. list' = list /\ index' = 1
      BY <1>2
    <3> QED
      BY ONLY <2>0, <3>1, StartsEmpty
  <2>2. \A x \in Lists!Destroyables : "wait set" \notin users'[x]
    BY <1>2
  <2> QED
    BY <1>2, <2>1, <2>2 DEF WaitSetFollows
<1>7. FreedWhenUnused'
  <2> SUFFICES ASSUME NEW x \in Lists!Destroyables PROVE x \in freed' <=> x \in asked /\ users'[x] = {}
    BY <1>2 DEF FreedWhenUnused
  <2>1. users[x] \subseteq {"wait set", "taker"} /\ users'[x] = users[x] \ {"wait set"}
    BY <1>2 DEF NInv, ListsTypeOK
  <2>2. "wait set" \in users[x] <=> x \in Lists!Held
    BY DEF NInv, WaitSetFollows, Lists!Held
  <2>3. x \in freed <=> x \in asked /\ users[x] = {}
    BY DEF NInv, FreedWhenUnused
  <2> QED
    BY <1>2, <2>1, <2>2, <2>3
<1> QED
  BY <1>4, <1>5, <1>6, <1>7 DEF NInv

LEMMA TakeNInv ==
    ASSUME NInv, Lists!Take \/ Lists!TakeDone
    PROVE  NInv'
<1>1. at \in {"take", "taken"} /\ UNCHANGED <<list, doing, created, marked, asked, wake, index>>
  BY DEF Lists!Take, Lists!TakeDone
<1>2. ListedOnce' /\ OnePlace' /\ EventFollows'
  BY <1>1, SpinKeeps
<1>3. index = 1 /\ \A x \in Lists!Destroyables : "wait set" \notin users[x]
  BY <1>1 DEF NInv, WaitSetFollows
<1>4. /\ at' \in {"gather", "taken"} /\ (at' = "gather" => gathered' = {}) /\ gathered' \subseteq Lists!Items
      /\ users' \in [Lists!Destroyables -> SUBSET {"wait set", "taker"}] /\ freed' \subseteq Lists!Destroyables
      /\ \A x \in Lists!Destroyables : "wait set" \notin users'[x] /\ (x \in freed' <=> x \in asked /\ users'[x] = {})
  <2>1. CASE Lists!Take
    <3>1. PICK x \in gathered :
            IF Lists!Entered(x) THEN users' = [users EXCEPT ![x] = @ \cup {"taker"}] /\ at' = "taken" /\ UNCHANGED gathered
            ELSE UNCHANGED users /\ at' = "gather" /\ gathered' = {}
      BY <2>1 DEF Lists!Take
    <3>2. x \in Lists!Destroyables /\ UNCHANGED freed
      BY <2>1 DEF NInv, ListsTypeOK, Lists!Destroyables, Lists!Take
    <3>3. CASE Lists!Entered(x)
      <4>1. users' = [users EXCEPT ![x] = @ \cup {"taker"}] /\ at' = "taken" /\ UNCHANGED gathered
        BY <3>1, <3>3
      <4>2. /\ users' \in [Lists!Destroyables -> SUBSET {"wait set", "taker"}]
            /\ \A y \in Lists!Destroyables : users'[y] = IF y = x THEN users[y] \cup {"taker"} ELSE users[y]
        BY <3>2, <4>1 DEF NInv, ListsTypeOK
      <4> QED
        <5>1. gathered \subseteq Lists!Items /\ freed \subseteq Lists!Destroyables
          BY DEF NInv, ListsTypeOK
        <5>2. \A y \in Lists!Destroyables : "wait set" \notin users'[y] /\ (y = x => users'[y] # {} /\ y \notin asked)
                                                                    /\ (y # x => users'[y] = users[y])
          BY <1>3, <3>3, <4>2 DEF Lists!Entered
        <5> QED
          BY <3>2, <4>1, <4>2, <5>1, <5>2 DEF NInv, FreedWhenUnused
    <3>4. CASE ~Lists!Entered(x)
      <4>1. UNCHANGED <<users, freed>> /\ at' = "gather" /\ gathered' = {}
        BY <3>1, <3>2, <3>4
      <4>2. users \in [Lists!Destroyables -> SUBSET {"wait set", "taker"}] /\ freed \subseteq Lists!Destroyables
        BY DEF NInv, ListsTypeOK
      <4> QED
        BY <1>3, <4>1, <4>2 DEF NInv, FreedWhenUnused
    <3> QED
      BY <3>3, <3>4
  <2>2. CASE Lists!TakeDone
    <3>1. /\ users' = [x \in Lists!Destroyables |-> users[x] \ {"taker"}]
          /\ freed' = freed \cup {x \in asked : users[x] = {"taker"}}
          /\ at' = "gather" /\ gathered' = {}
      BY <2>2 DEF Lists!TakeDone
    <3>2. \A x \in Lists!Destroyables : users[x] \subseteq {"wait set", "taker"} /\ users'[x] = users[x] \ {"taker"}
      BY <3>1 DEF NInv, ListsTypeOK
    <3> QED
      <4>1. users' \in [Lists!Destroyables -> SUBSET {"wait set", "taker"}]
        BY <3>1 DEF NInv, ListsTypeOK
      <4>2. freed' \subseteq Lists!Destroyables
        BY <3>1 DEF NInv, ListsTypeOK
      <4>3. \A x \in Lists!Destroyables : x \in freed' <=> x \in asked /\ users'[x] = {}
        <5> TAKE x \in Lists!Destroyables
        <5>1. users'[x] = {} <=> users[x] = {} \/ users[x] = {"taker"}
          BY <3>2
        <5>2. x \in freed <=> x \in asked /\ users[x] = {}
          BY DEF NInv, FreedWhenUnused
        <5> QED
          BY <3>1, <5>1, <5>2
      <4> QED
        BY <1>3, <3>1, <3>2, <4>1, <4>2, <4>3
  <2> QED
    BY <2>1, <2>2
<1>5. ListsTypeOK'
  BY <1>1, <1>4 DEF NInv, ListsTypeOK
<1>6. WaitSetFollows'
  <2>1. GatheredSoFar' = {} /\ index' <= Len(list') + 1
    <3>1. Len(list) \in Nat
      BY LenProperties DEF NInv, ListsTypeOK
    <3>2. list' = list /\ index' = 1
      BY <1>1, <1>3
    <3> QED
      BY ONLY <3>1, <3>2, StartsEmpty
  <2> QED
    BY <1>1, <1>3, <1>4, <2>1 DEF WaitSetFollows
<1>7. FreedWhenUnused'
  BY <1>1, <1>4 DEF FreedWhenUnused
<1> QED
  BY <1>2, <1>5, <1>6, <1>7 DEF NInv

-----------------------------------------------------------------------------
LEMMA InitNInv == ASSUME Lists!EntitiesAssumption, Lists!Init PROVE NInv
<1>1. /\ list = <<>> /\ doing = [t \in Users |-> Lists!Idle] /\ created = {} /\ asked = {} /\ freed = {}
      /\ users = [x \in Lists!Destroyables |-> {}] /\ wake = FALSE /\ at = "gather" /\ index = 1 /\ gathered = {}
  BY DEF Lists!Init
<1>2. FrameOK(Lists!Idle) /\ Lists!Idle.step = "idle" /\ Lists!Idle.on \notin Entities
  BY RestingFrames DEF Lists!Idle, Lists!Doing, Lists!EntitiesAssumption
<1>3. Lists!Idle \in [step : CallSteps, on : Entities \cup {Node, None}, all : BOOLEAN]
  BY <1>2 DEF FrameOK
<1>4. Len(list) = 0 /\ list \in Seq(Lists!Items) /\ Lists!ToSet(list) = {} /\ GatheredSoFar = {}
  BY <1>1 DEF Lists!ToSet, GatheredSoFar
<1>5. ListsTypeOK
  <2>1. doing \in [Users -> [step : CallSteps, on : Entities \cup {Node, None}, all : BOOLEAN]]
    BY <1>1, <1>3
  <2>2. \A t \in Users : FrameOK(doing[t])
    BY <1>1, <1>2
  <2>3. users \in [Lists!Destroyables -> SUBSET {"wait set", "taker"}]
    BY <1>1
  <2>4. index \in Nat /\ index >= 1 /\ gathered \subseteq Lists!Items
    BY <1>1
  <2>5. wake \in BOOLEAN /\ at \in {"gather", "enter", "wait", "take", "taken"}
    BY <1>1
  <2>6. created \subseteq Entities /\ asked \subseteq Lists!Destroyables /\ freed \subseteq Lists!Destroyables
    BY <1>1
  <2> QED
    BY <1>4, <2>1, <2>2, <2>3, <2>4, <2>5, <2>6 DEF ListsTypeOK
<1>6. \A t \in Users : doing[t].step = "idle" /\ doing[t].on \notin Entities
  BY <1>1, <1>2
<1>7. ListedOnce
  BY <1>1, <1>4, <1>6 DEF ListedOnce, Lists!Listed
<1>8. \A t \in Users : \A x : ~Pending(t, x) /\ ~Removed(t, x)
  BY <1>6 DEF Pending, Removed, Lists!At
<1>9. OnePlace /\ EventFollows
  BY <1>1, <1>4, <1>6, <1>8 DEF OnePlace, EventFollows, Lists!Listed, Lists!At
<1>10. WaitSetFollows /\ FreedWhenUnused
  BY <1>1, <1>4 DEF WaitSetFollows, FreedWhenUnused
<1> QED
  BY <1>5, <1>7, <1>9, <1>10 DEF NInv

LEMMA NextNInv == ASSUME Lists!EntitiesAssumption, NInv, [Lists!Next]_Lists!vars PROVE NInv'
<1>1. CASE UNCHANGED Lists!vars
  <2>1. ListedOnce' /\ OnePlace' /\ EventFollows' /\ (Signalled' <=> Signalled)
    BY <1>1, SpinKeeps DEF Lists!vars, Signalled
  <2>2. ListsTypeOK'
    BY <1>1 DEF Lists!vars, NInv, ListsTypeOK
  <2>3. WaitSetFollows'
    BY <1>1, <2>1 DEF Lists!vars, NInv, WaitSetFollows, Lists!Held, GatheredSoFar
  <2>4. FreedWhenUnused'
    BY <1>1 DEF Lists!vars, NInv, FreedWhenUnused
  <2> QED
    BY <2>1, <2>2, <2>3, <2>4 DEF NInv
<1>2. CASE Lists!Spin
  BY <1>2, GatherNInv, EnterNInv, LeaveNInv, TakeNInv DEF Lists!Spin
<1>3. ASSUME NEW t \in Users, Lists!Run(t) PROVE NInv'
  BY <1>3, CreateNInv, CallNInv, AppendNInv, WakeNInv, MarkNInv, RemoveNInv, ReleaseNInv DEF Lists!Run
<1> QED
  BY <1>1, <1>2, <1>3 DEF Lists!Next

(* The invariant of the lists, the calls on them and the executor holds in   *)
(* every reachable state.                                                    *)
THEOREM ListsInvariance == ASSUME Lists!EntitiesAssumption PROVE Lists!Spec => []NInv
<1>1. Lists!Init => NInv
  BY InitNInv
<1>2. NInv /\ [Lists!Next]_Lists!vars => NInv'
  BY NextNInv
<1> QED
  BY <1>1, <1>2, PTL DEF Lists!Spec

(* An executor that blocks waits for exactly the entities of the node, or    *)
(* was woken, or will be by a thread (node.py:2292-2327, 2435-2505).         *)
THEOREM WaitSetFollowsLists == ASSUME Lists!EntitiesAssumption PROVE Lists!Spec => []Lists!WaitSetIsCurrent
<1>1. NInv => Lists!WaitSetIsCurrent
  BY DEF NInv, WaitSetFollows, Signalled, Lists!WaitSetIsCurrent
<1> QED
  BY <1>1, ListsInvariance, PTL

(* A handle that is to be destroyed goes with its last user, and whoever     *)
(* waits with it in its wait set will be woken (destroyable.cpp:33-73).      *)
THEOREM HandlesAreFreed == ASSUME Lists!EntitiesAssumption PROVE Lists!Spec => []Lists!HandlesGoWhenUnused
<1>1. NInv => Lists!HandlesGoWhenUnused
  <2> SUFFICES ASSUME NInv, NEW x \in Lists!Destroyables
               PROVE  /\ x \in freed <=> x \in asked /\ users[x] = {}
                      /\ x \in asked /\ x \in Lists!Held /\ at = "wait" /\ ~wake => \E t \in Users : Lists!StillToWake(t)
    BY DEF Lists!HandlesGoWhenUnused
  <2>1. x \in freed <=> x \in asked /\ users[x] = {}
    BY DEF NInv, FreedWhenUnused
  <2>2. x \in asked /\ x \in Lists!Held => Lists!Held # Lists!ToSet(list)
    BY DEF NInv, OnePlace, Lists!Held, Lists!Listed
  <2> QED
    BY <2>1, <2>2 DEF NInv, WaitSetFollows, Signalled
<1> QED
  BY <1>1, ListsInvariance, PTL

-------------------------------------------------------------------------------
(* The parameters of a node                                                  *)

Listed == [name : ParamNames, value : Params!Values]

(* A value that a descriptor allows; and descriptors that allow the same,    *)
(* since they differ in the type of a parameter that has no fixed one.       *)
Fits(value, d) ==
    /\ d.dynamic_typing \/ value.type \in {"not_set", d.type}
    /\ value.type = "integer" /\ d.range # <<>> => Params!apply_integer_range(value.v, d.range)
Alike(d, e) ==
    /\ e.dynamic_typing = d.dynamic_typing /\ e.range = d.range
    /\ d.dynamic_typing \/ e.type = d.type

LEMMA AlikeFits ==
    ASSUME NEW d, NEW e, Alike(d, e), NEW value, Fits(value, d)
    PROVE  Fits(value, e)
BY DEF Alike, Fits

(* What a descriptor accepts fits it, before and after.                      *)
LEMMA AcceptedFits ==
    ASSUME NEW parameter \in Listed, NEW d \in Params!Descriptors, NEW check \in BOOLEAN, NEW declared
    PROVE  LET r == Params!apply_descriptor(parameter, d, check, declared)
           IN  /\ r.descriptor \in Params!Descriptors /\ Alike(d, r.descriptor)
               /\ r.ok \in BOOLEAN
               /\ r.ok => Fits(parameter.value, d)
BY DEF Params!apply_descriptor, Listed, Params!Values, Params!Descriptors, Alike, Fits

LEMMA FitsIsAccepted ==
    ASSUME NEW n, NEW value, NEW d, Fits(value, d)
    PROVE  Params!apply_descriptor(Params!Parameter(n, value), d, FALSE, {}).ok
BY DEF Params!apply_descriptor, Params!Parameter, Fits

-----------------------------------------------------------------------------
(* The verdict on a list of parameters.                                      *)
LEMMA VerdictExists ==
    ASSUME NEW its \in Seq(Listed), NEW descs, NEW check
    PROVE  \E f : /\ f = [k \in 0..Len(its) |-> IF k = 0 THEN [ok |-> TRUE, descs |-> descs]
                                                ELSE Params!apply_next(f[k - 1], its[k], check)]
                  /\ Params!apply_descriptors(its, descs, check) = f[Len(its)]
<1> DEFINE base == [ok |-> TRUE, descs |-> descs]
           Goes(f, n) == f = [k \in 0..n |-> IF k = 0 THEN base ELSE Params!apply_next(f[k - 1], its[k], check)]
           bad == {n \in Nat : ~\E f : Goes(f, n)}
<1>1. bad = {}
  <2> SUFFICES ASSUME bad # {} PROVE FALSE
    OBVIOUS
  <2>1. PICK n \in bad : \A m \in bad : n <= m
    BY LeastOne
  <2>2. n \in Nat /\ ~\E f : Goes(f, n)
    OBVIOUS
  <2>3. n # 0
    <3>1. Goes([k \in 0..0 |-> base], 0)
      OBVIOUS
    <3> QED
      BY <2>2, <3>1
  <2>4. n - 1 \in Nat /\ ~(n <= n - 1)
    BY <2>2, <2>3
  <2>5. PICK g : Goes(g, n - 1)
    <3>1. n - 1 \notin bad
      BY <2>1, <2>4
    <3> QED
      BY <2>4, <3>1
  <2> DEFINE h == [k \in 0..n |-> IF k = 0 THEN base ELSE Params!apply_next(g[k - 1], its[k], check)]
  <2>6. ASSUME NEW k \in 0..n, k # 0 PROVE h[k - 1] = g[k - 1]
    <3>1. k - 1 \in 0..(n - 1) /\ k - 1 \in 0..n
      BY <2>2, <2>6
    <3>2. g[k - 1] = IF k - 1 = 0 THEN base ELSE Params!apply_next(g[(k - 1) - 1], its[k - 1], check)
      BY <2>5, <3>1
    <3> QED
      BY <3>1, <3>2
  <2>7. Goes(h, n)
    <3> SUFFICES h = [k \in 0..n |-> IF k = 0 THEN base ELSE Params!apply_next(h[k - 1], its[k], check)]
      OBVIOUS
    <3>1. \A k \in 0..n : h[k] = IF k = 0 THEN base ELSE Params!apply_next(h[k - 1], its[k], check)
      BY <2>6
    <3> QED
      BY <3>1
  <2> HIDE DEF h, Goes
  <2> QED
    BY <2>2, <2>7
<1>2. Len(its) \in Nat
  OBVIOUS
<1>3. \E f : Goes(f, Len(its))
  BY <1>1, <1>2
<1>4. Params!apply_descriptors(its, descs, check) = (CHOOSE f : Goes(f, Len(its)))[Len(its)]
  BY DEF Params!apply_descriptors
<1> QED
  BY <1>3, <1>4

(* What a verdict says of descriptors is what it leaves of them.             *)
Follows(verdict, D, descs) ==
    /\ verdict.ok \in BOOLEAN /\ verdict.descs \in [D -> Params!Descriptors]
    /\ \A n \in D : Alike(descs[n], verdict.descs[n])

(* One more parameter.                                                       *)
LEMMA NextFits ==
    ASSUME NEW D, NEW descs \in [D -> Params!Descriptors], NEW acc, Follows(acc, D, descs),
           NEW parameter \in Listed, NEW check \in BOOLEAN
    PROVE  /\ Follows(Params!apply_next(acc, parameter, check), D, descs)
           /\ Params!apply_next(acc, parameter, check).ok
                       => acc.ok /\ (parameter.name \in D => Fits(parameter.value, descs[parameter.name]))
<1> USE DEF Follows
<1> DEFINE n == parameter.name
           r == Params!apply_descriptor(parameter, acc.descs[n], check, DOMAIN params)
           next == Params!apply_next(acc, parameter, check)
<1>1. CASE ~acc.ok \/ n \notin D
  <2>1. next = acc
    BY <1>1 DEF Params!apply_next
  <2> QED
    BY <1>1, <2>1
<1>2. CASE acc.ok /\ n \in D
  <2>1. next = [ok |-> r.ok, descs |-> [acc.descs EXCEPT ![n] = r.descriptor]]
    BY <1>2 DEF Params!apply_next
  <2>2. /\ r.descriptor \in Params!Descriptors /\ Alike(acc.descs[n], r.descriptor)
        /\ r.ok \in BOOLEAN /\ (r.ok => Fits(parameter.value, acc.descs[n]))
    BY <1>2, AcceptedFits
  <2>3. Alike(descs[n], r.descriptor) /\ Alike(acc.descs[n], descs[n])
    BY <1>2, <2>2 DEF Alike
  <2>4. r.ok => Fits(parameter.value, descs[n])
    BY <2>2, <2>3, AlikeFits
  <2> HIDE DEF r
  <2>5. next.descs = [acc.descs EXCEPT ![n] = r.descriptor] /\ next.ok = r.ok
    BY <2>1
  <2>6. next.descs \in [D -> Params!Descriptors] /\ \A m \in D : Alike(descs[m], next.descs[m])
    BY <1>2, <2>2, <2>3, <2>5
  <2> QED
    BY <1>2, <2>2, <2>4, <2>5, <2>6
<1> QED
  BY <1>1, <1>2

(* The verdict on a list: a list is accepted only if every parameter of it   *)
(* fits the descriptor it has, if it has one.                                *)
LEMMA VerdictFits ==
    ASSUME NEW its \in Seq(Listed), NEW D, NEW descs \in [D -> Params!Descriptors], NEW check \in BOOLEAN
    PROVE  /\ Follows(Params!apply_descriptors(its, descs, check), D, descs)
           /\ Params!apply_descriptors(its, descs, check).ok => \A k \in DOMAIN its :
                       its[k].name \in D => Fits(its[k].value, descs[its[k].name])
<1> USE DEF Follows
<1>1. PICK f : /\ f = [k \in 0..Len(its) |-> IF k = 0 THEN [ok |-> TRUE, descs |-> descs]
                                             ELSE Params!apply_next(f[k - 1], its[k], check)]
               /\ Params!apply_descriptors(its, descs, check) = f[Len(its)]
  BY VerdictExists
<1> DEFINE Fine(n) == /\ f[n].ok \in BOOLEAN /\ f[n].descs \in [D -> Params!Descriptors]
                      /\ \A m \in D : Alike(descs[m], f[n].descs[m])
                      /\ f[n].ok => \A k \in 1..n : its[k].name \in D => Fits(its[k].value, descs[its[k].name])
           bad == {n \in 0..Len(its) : ~Fine(n)}
<1>2. Len(its) \in Nat /\ DOMAIN its = 1..Len(its) /\ \A k \in 1..Len(its) : its[k] \in Listed
  OBVIOUS
<1>3. bad = {}
  <2> SUFFICES ASSUME bad # {} PROVE FALSE
    OBVIOUS
  <2>1. PICK n \in bad : \A m \in bad : n <= m
    <3>1. bad \in SUBSET Nat
      BY <1>2
    <3> HIDE DEF bad
    <3> QED
      BY <3>1, LeastOne
  <2>2. n \in 0..Len(its) /\ ~Fine(n)
    OBVIOUS
  <2>3. n # 0
    <3>1. f[0] = [ok |-> TRUE, descs |-> descs]
      BY <1>1, <1>2
    <3>2. \A m \in D : Alike(descs[m], descs[m])
      BY DEF Alike
    <3>3. Fine(0)
      BY <3>1, <3>2
    <3> HIDE DEF Fine
    <3> QED
      BY <2>2, <3>3
  <2>4. n - 1 \in 0..Len(its) /\ ~(n <= n - 1) /\ n \in 1..Len(its)
    BY <1>2, <2>2, <2>3
  <2>5. Fine(n - 1)
    <3>1. n - 1 \notin bad
      BY <2>1, <2>4
    <3> HIDE DEF Fine
    <3> QED
      BY <2>4, <3>1
  <2>6. f[n] = Params!apply_next(f[n - 1], its[n], check)
    BY <1>1, <2>3, <2>4
  <2>7. Fine(n)
    <3>1. /\ f[n].ok \in BOOLEAN /\ f[n].descs \in [D -> Params!Descriptors]
          /\ \A m \in D : Alike(descs[m], f[n].descs[m])
          /\ f[n].ok => f[n - 1].ok /\ (its[n].name \in D => Fits(its[n].value, descs[its[n].name]))
      <4>1. PICK acc : acc = f[n - 1]
        OBVIOUS
      <4>2. Follows(acc, D, descs)
        BY <2>5, <4>1 DEF Follows
      <4>3. PICK parameter \in Listed : parameter = its[n]
        BY <1>2, <2>4
      <4>4. f[n] = Params!apply_next(acc, parameter, check)
        BY <2>6, <4>1, <4>3
      <4>5. /\ Follows(Params!apply_next(acc, parameter, check), D, descs)
            /\ Params!apply_next(acc, parameter, check).ok
                        => acc.ok /\ (parameter.name \in D => Fits(parameter.value, descs[parameter.name]))
        BY <4>2, NextFits
      <4> QED
        BY <4>1, <4>3, <4>4, <4>5 DEF Follows
    <3>2. \A k \in 1..n : k \in 1..(n - 1) \/ k = n
      BY <2>4
    <3> QED
      BY <2>5, <3>1, <3>2
  <2> HIDE DEF Fine
  <2> QED
    BY <2>2, <2>7
<1>4. Fine(Len(its))
  <2> HIDE DEF Fine
  <2> QED
    BY <1>2, <1>3
<1> QED
  BY <1>1, <1>2, <1>4

-----------------------------------------------------------------------------
(* The parameters and the calls that change them                             *)

DescMaps == UNION {[S -> Params!Descriptors] : S \in SUBSET ParamNames}
ValueMaps == UNION {[S -> Params!Values] : S \in SUBSET ParamNames}
Entries == [in : {"new", "changed", "deleted"}, name : ParamNames, value : Params!Values]
CallsInHand == [pc : {"check", "callbacks", "store", "announce"}, kind : {"declare", "set", "service"},
                queue : Seq(Seq(Listed)), descs : DescMaps \cup {None}, i : Nat, event : Seq(Entries)]

StoreTypeOK ==
    /\ params \in ValueMaps /\ descriptors \in DescMaps
    /\ op \in [Params!CallingThreads -> {Params!Idle} \cup CallsInHand]

(* The descriptors that a list is checked against, and at last stored with   *)
(* where it names a parameter that has one.                                  *)
Own(o) == IF o.kind = "declare" THEN o.descs ELSE descriptors
Checked(o) == \A k \in DOMAIN Head(o.queue) :
    Head(o.queue)[k].name \in DOMAIN Own(o) => Fits(Head(o.queue)[k].value, Own(o)[Head(o.queue)[k].name])

(* A call in hand has a list; a declaration has descriptors for all of its   *)
(* lists; a list that passed the check stays fit to be stored.               *)
CallIsSound(t, o) ==
    /\ o.queue # <<>>
    /\ o.kind = "declare" =>
         /\ t = User /\ o.descs \in DescMaps
         /\ \A j \in DOMAIN o.queue : \A k \in DOMAIN o.queue[j] : o.queue[j][k].name \in DOMAIN o.descs
    /\ o.pc \in {"callbacks", "store"} => Head(o.queue) # <<>> /\ Checked(o)
    /\ o.pc = "store" => o.i \in DOMAIN Head(o.queue)
CallsAreSound == \A t \in Params!CallingThreads : op[t] # Params!Idle => CallIsSound(t, op[t])

(* A declaration is alone.                                                   *)
DeclaresAlone == op[User].kind = "declare" => op[Service] = Params!Idle

StoreFits ==
    /\ DOMAIN params = DOMAIN descriptors
    /\ \A n \in DOMAIN params : Fits(params[n], descriptors[n])

SInv == StoreTypeOK /\ CallsAreSound /\ DeclaresAlone /\ StoreFits

-----------------------------------------------------------------------------
LEMMA MapTypes ==
    /\ \A f : f \in DescMaps <=> DOMAIN f \subseteq ParamNames /\ f \in [DOMAIN f -> Params!Descriptors]
    /\ \A f : f \in ValueMaps <=> DOMAIN f \subseteq ParamNames /\ f \in [DOMAIN f -> Params!Values]
BY DEF DescMaps, ValueMaps

LEMMA CallFields ==
    ASSUME NEW o \in CallsInHand
    PROVE  /\ o # Params!Idle
           /\ o.pc \in {"check", "callbacks", "store", "announce"} /\ o.kind \in {"declare", "set", "service"}
           /\ o.queue \in Seq(Seq(Listed)) /\ o.descs \in DescMaps \cup {None}
           /\ o.i \in Nat /\ o.event \in Seq(Entries)
BY DEF CallsInHand, Params!Idle

(* The thread that runs has a call in hand.                                  *)
LEMMA BusyHasCall ==
    ASSUME SInv, NEW t \in Params!CallingThreads, op[t].pc # "idle"
    PROVE  op[t] \in CallsInHand /\ CallIsSound(t, op[t]) /\ op[t] # Params!Idle
BY DEF SInv, StoreTypeOK, CallsAreSound, Params!Idle

(* Descriptors come to be only for parameters that take any value, and       *)
(* those that stay allow what they allowed.                                  *)
Milder == \A n \in DOMAIN descriptors' :
    \/ n \in DOMAIN descriptors /\ Alike(descriptors[n], descriptors'[n])
    \/ descriptors'[n].dynamic_typing /\ descriptors'[n].range = <<>>

LEMMA MilderFits ==
    ASSUME Milder, NEW n \in DOMAIN descriptors', NEW value, n \in DOMAIN descriptors => Fits(value, descriptors[n])
    PROVE  Fits(value, descriptors'[n])
BY AlikeFits DEF Milder, Fits

LEMMA CheckedStays ==
    ASSUME NEW o, Checked(o), Milder
    PROVE  Checked(o)'
<1>1. CASE o.kind = "declare"
  BY <1>1 DEF Checked, Own
<1>2. CASE o.kind # "declare"
  BY <1>2, MilderFits DEF Checked, Own
<1> QED
  BY <1>1, <1>2

(* A step of one thread's call preserves the invariant, if it leaves the     *)
(* call sound and the store fit.                                             *)
LEMMA CallStep ==
    ASSUME SInv, NEW t \in Params!CallingThreads, NEW o \in {Params!Idle} \cup CallsInHand,
           op' = [op EXCEPT ![t] = o],
           params' \in ValueMaps, descriptors' \in DescMaps, StoreFits', DeclaresAlone',
           Milder \/ \A u \in Params!CallingThreads \ {t} : op[u] = Params!Idle,
           o # Params!Idle => CallIsSound(t, o)'
    PROVE  SInv'
<1>1. op'[t] = o /\ \A u \in Params!CallingThreads \ {t} : op'[u] = op[u]
  BY DEF SInv, StoreTypeOK
<1>2. StoreTypeOK'
  BY DEF SInv, StoreTypeOK
<1>3. ASSUME NEW u \in Params!CallingThreads, op'[u] # Params!Idle PROVE CallIsSound(u, op[u])'
  <2>1. CASE u = t
    BY <1>1, <1>3, <2>1 DEF CallIsSound, Checked, Own
  <2>2. CASE u # t
    <3>1. op'[u] = op[u] /\ Milder /\ CallIsSound(u, op[u])
      BY <1>1, <1>3, <2>2 DEF SInv, CallsAreSound
    <3>2. PICK c : c = op[u]
      OBVIOUS
    <3>3. CallIsSound(u, c)'
      BY <3>1, <3>2, CheckedStays DEF CallIsSound
    <3> QED
      BY <3>1, <3>2, <3>3 DEF CallIsSound, Checked, Own
  <2> QED
    BY <2>1, <2>2
<1> QED
  BY <1>2, <1>3 DEF SInv, CallsAreSound

(* A step that leaves the store alone.                                       *)
LEMMA QuietCallStep ==
    ASSUME Params!ParametersAssumption, SInv,
           NEW t \in Params!CallingThreads, NEW o \in {Params!Idle} \cup CallsInHand,
           op' = [op EXCEPT ![t] = o],
                  op[t] # Params!Idle, o # Params!Idle => o.kind = op[t].kind,
                  UNCHANGED <<params, descriptors>>,
                  o # Params!Idle => CallIsSound(t, o)
    PROVE  SInv'
<1>1. Milder
  BY DEF Milder, Alike
<1>2. StoreFits' /\ params' \in ValueMaps /\ descriptors' \in DescMaps
  BY DEF SInv, StoreFits, StoreTypeOK
<1>3. DeclaresAlone'
  BY DEF SInv, DeclaresAlone, StoreTypeOK, Params!CallingThreads, Params!Idle, Params!ParametersAssumption
<1>4. o # Params!Idle => CallIsSound(t, o)'
  BY DEF CallIsSound, Checked, Own
<1> QED
  BY <1>1, <1>2, <1>3, <1>4, CallStep
-----------------------------------------------------------------------------
(* What is left of a list without its head.                                  *)
LEMMA TailRest ==
    ASSUME NEW S, NEW q \in Seq(S), Len(q) > 1
    PROVE  /\ Tail(q) \in Seq(S) /\ Tail(q) # <<>>
           /\ \A j \in DOMAIN Tail(q) : j + 1 \in DOMAIN q /\ Tail(q)[j] = q[j + 1]
<1>1. q # <<>>
  OBVIOUS
<1>2. Tail(q) \in Seq(S) /\ Len(Tail(q)) = Len(q) - 1 /\ \A i \in 1..Len(Tail(q)) : Tail(q)[i] = q[i + 1]
  BY <1>1, HeadTailProperties
<1>3. Len(q) \in Nat /\ DOMAIN q = 1..Len(q) /\ DOMAIN Tail(q) = 1..Len(Tail(q))
  BY <1>2
<1>4. Tail(q) # <<>>
  <2>1. Len(Tail(q)) # 0
    BY <1>2, <1>3
  <2> QED
    BY <1>2, <2>1, EmptySeq
<1> QED
  BY <1>2, <1>3, <1>4

(* The next list of a call, or its end.                                      *)
LEMMA NextListSound ==
    ASSUME NEW t \in Params!CallingThreads, NEW o \in CallsInHand, CallIsSound(t, o)
    PROVE  /\ Params!NextList(o) \in {Params!Idle} \cup CallsInHand
           /\ Params!NextList(o) # Params!Idle =>
                /\ Params!NextList(o).kind = o.kind /\ Params!NextList(o).pc = "check"
                /\ CallIsSound(t, Params!NextList(o))
<1>1. o.queue \in Seq(Seq(Listed)) /\ o.queue # <<>>
  BY CallFields DEF CallIsSound
<1>2. CASE Len(o.queue) = 1
  BY <1>2 DEF Params!NextList
<1>3. CASE Len(o.queue) # 1
  <2> DEFINE next == [o EXCEPT !.pc = "check", !.queue = Tail(@), !.i = 1, !.event = <<>>]
  <2>1. Params!NextList(o) = next
    BY <1>3 DEF Params!NextList
  <2>2. /\ Tail(o.queue) \in Seq(Seq(Listed)) /\ Tail(o.queue) # <<>>
        /\ \A j \in DOMAIN Tail(o.queue) : j + 1 \in DOMAIN o.queue /\ Tail(o.queue)[j] = o.queue[j + 1]
    <3>1. Len(o.queue) \in Nat /\ Len(o.queue) # 0
      BY <1>1
    <3>2. Len(o.queue) > 1
      <4>1. PICK l \in Nat : l = Len(o.queue)
        BY <3>1
      <4>2. l # 0 /\ l # 1
        BY <1>3, <3>1, <4>1, Zenon
      <4>3. l > 1
        BY <4>2
      <4> QED
        BY <4>1, <4>3, Zenon
    <3> QED
      BY <1>1, <3>2, TailRest, Zenon
  <2>3. <<>> \in Seq(Entries)
    OBVIOUS
  <2>4. next \in CallsInHand
    BY <2>2, <2>3 DEF CallsInHand
  <2>5. next.kind = o.kind /\ next.pc = "check" /\ next.queue = Tail(o.queue) /\ next.descs = o.descs
    BY DEF CallsInHand
  <2> HIDE DEF next
  <2>6. CallIsSound(t, next)
    BY <2>2, <2>5 DEF CallIsSound
  <2> QED
    BY <2>1, <2>4, <2>5, <2>6
<1> QED
  BY <1>2, <1>3

LEMMA RefusedSound ==
    ASSUME NEW t \in Params!CallingThreads, NEW o \in CallsInHand, CallIsSound(t, o)
    PROVE  /\ Params!Refused(o) \in {Params!Idle} \cup CallsInHand
           /\ Params!Refused(o) # Params!Idle =>
                /\ Params!Refused(o).kind = o.kind /\ Params!Refused(o).pc = "check"
                /\ CallIsSound(t, Params!Refused(o))
BY NextListSound DEF Params!Refused

-----------------------------------------------------------------------------
LEMMA Defaults ==
    /\ [Params!DefaultDescriptor EXCEPT !.type = "bool"] \in Params!Descriptors
    /\ [Params!DefaultDescriptor EXCEPT !.type = "bool"].type = "bool"
    /\ [Params!DefaultDescriptor EXCEPT !.type = "bool"].range = <<>>
    /\ [Params!DefaultDescriptor EXCEPT !.dynamic_typing = TRUE] \in Params!Descriptors
    /\ [Params!DefaultDescriptor EXCEPT !.dynamic_typing = TRUE].dynamic_typing
    /\ [Params!DefaultDescriptor EXCEPT !.dynamic_typing = TRUE].range = <<>>
    /\ Params!DefaultDescriptor.range = <<>> /\ Params!DefaultDescriptor \in Params!Descriptors
<1>1. <<>> \in Seq(Int)
  OBVIOUS
<1>2. Params!DefaultDescriptor \in Params!Descriptors /\ Params!DefaultDescriptor.range = <<>>
  BY <1>1 DEF Params!DefaultDescriptor, Params!Descriptors, Params!Types
<1> QED
  BY <1>2 DEF Params!Descriptors, Params!Types

LEMMA InitSInv == ASSUME Params!ParametersAssumption PROVE Params!Init => SInv
<1> SUFFICES ASSUME Params!Init PROVE SInv
  OBVIOUS
<1>0. Params!Value("bool", 0) \in Params!Values /\ Params!Value("bool", 0).type = "bool"
  BY DEF Params!Value, Params!Values, Params!Types
<1>1. PICK sim \in Params!Values :
        /\ params = [x \in {SimTime} |-> sim] /\ sim.type = "bool"
        /\ descriptors = [x \in {SimTime} |-> [Params!DefaultDescriptor EXCEPT !.type = "bool"]]
  <2>1. PICK sim : sim = IF SimTime \in DOMAIN Overrides THEN Overrides[SimTime] ELSE Params!Value("bool", 0)
    OBVIOUS
  <2>2. sim \in Params!Values /\ sim.type = "bool"
    BY <1>0, <2>1 DEF Params!ParametersAssumption
  <2>3. /\ params = [x \in {SimTime} |-> sim]
        /\ descriptors = [x \in {SimTime} |-> [Params!DefaultDescriptor EXCEPT !.type = "bool"]]
    BY <2>1 DEF Params!Init
  <2> QED
    BY <2>2, <2>3
<1>2. [Params!DefaultDescriptor EXCEPT !.type = "bool"] \in Params!Descriptors
  BY Defaults
<1>3. op = [t \in Params!CallingThreads |-> Params!Idle]
  BY DEF Params!Init
<1>4. StoreTypeOK
  BY <1>1, <1>2, <1>3, MapTypes DEF StoreTypeOK, Params!ParametersAssumption
<1>5. StoreFits
  BY <1>1, Defaults DEF StoreFits, Fits
<1>6. CallsAreSound /\ DeclaresAlone
  BY <1>3 DEF CallsAreSound, DeclaresAlone, Params!CallingThreads, Params!Idle
<1> QED
  BY <1>4, <1>5, <1>6 DEF SInv

LEMMA Further ==
    ASSUME NEW o \in CallsInHand
    PROVE  /\ [o EXCEPT !.i = @ + 1] \in CallsInHand
           /\ [o EXCEPT !.i = @ + 1].i = o.i + 1 /\ [o EXCEPT !.i = @ + 1].pc = o.pc
           /\ [o EXCEPT !.i = @ + 1].kind = o.kind /\ [o EXCEPT !.i = @ + 1].queue = o.queue
           /\ [o EXCEPT !.i = @ + 1].descs = o.descs
BY DEF CallsInHand

(* Callbacks, acceptance and the announcement of a list leave the store.     *)
LEMMA CallBackSInv ==
    ASSUME Params!ParametersAssumption, SInv,
           NEW t \in Params!CallingThreads, Params!CallBack(t)
    PROVE  SInv'
<1>1. PICK o : o = op[t]
  OBVIOUS
<1>2. o \in CallsInHand /\ CallIsSound(t, o) /\ o.pc = "callbacks" /\ op[t] # Params!Idle
  BY <1>1, BusyHasCall DEF Params!CallBack
<1>3. UNCHANGED <<params, descriptors>>
  BY DEF Params!CallBack
<1>4. CASE op' = [op EXCEPT ![t] = [o EXCEPT !.i = @ + 1]]
  <2>1. [o EXCEPT !.i = @ + 1] \in CallsInHand /\ [o EXCEPT !.i = @ + 1].kind = o.kind
    BY <1>2 DEF CallsInHand
  <2>2. CallIsSound(t, [o EXCEPT !.i = @ + 1])
    BY <1>2 DEF CallIsSound, Checked, Own, CallsInHand
  <2> QED
    BY <1>1, <1>2, <1>3, <1>4, <2>1, <2>2, QuietCallStep
<1>5. CASE op' = [op EXCEPT ![t] = Params!Refused(o)]
  BY <1>1, <1>2, <1>3, <1>5, RefusedSound, QuietCallStep
<1> QED
  BY <1>1, <1>4, <1>5 DEF Params!CallBack

LEMMA AcceptedSInv ==
    ASSUME Params!ParametersAssumption, SInv,
           NEW t \in Params!CallingThreads, Params!Accepted(t)
    PROVE  SInv'
<1>1. PICK o : o = op[t]
  OBVIOUS
<1>2. o \in CallsInHand /\ CallIsSound(t, o) /\ o.pc = "callbacks" /\ op[t] # Params!Idle
  BY <1>1, BusyHasCall DEF Params!Accepted
<1> DEFINE next == [o EXCEPT !.pc = "store", !.i = 1]
<1>3. next \in CallsInHand /\ next.kind = o.kind
  BY <1>2 DEF CallsInHand
<1>4. Head(o.queue) \in Seq(Listed) /\ Head(o.queue) # <<>>
  BY <1>2, CallFields DEF CallIsSound
<1>5. 1 \in DOMAIN Head(o.queue)
  BY <1>4
<1>6. CallIsSound(t, next)
  BY <1>2, <1>5 DEF CallIsSound, Checked, Own, CallsInHand
<1>7. op' = [op EXCEPT ![t] = next] /\ UNCHANGED <<params, descriptors>>
  BY <1>1 DEF Params!Accepted
<1> QED
  BY <1>1, <1>2, <1>3, <1>6, <1>7, QuietCallStep

LEMMA AnnounceSInv ==
    ASSUME Params!ParametersAssumption, SInv,
           NEW t \in Params!CallingThreads, Params!Announce(t)
    PROVE  SInv'
<1>1. op[t].pc = "announce" /\ op' = [op EXCEPT ![t] = Params!NextList(op[t])] /\ UNCHANGED <<params, descriptors>>
  BY DEF Params!Announce
<1>2. op[t] \in CallsInHand /\ CallIsSound(t, op[t]) /\ op[t] # Params!Idle
  BY <1>1, BusyHasCall
<1> QED
  BY <1>1, <1>2, NextListSound, QuietCallStep
-----------------------------------------------------------------------------
(* The check of a list.                                                      *)
LEMMA CutProperties ==
    ASSUME NEW S, NEW q \in Seq(S), q # <<>>, NEW x \in S
    PROVE  /\ <<x>> \o Tail(q) \in Seq(S) /\ <<x>> \o Tail(q) # <<>> /\ Head(<<x>> \o Tail(q)) = x
           /\ x = Head(q) => <<x>> \o Tail(q) = q
<1>1. Tail(q) \in Seq(S) /\ Len(Tail(q)) = Len(q) - 1 /\ \A i \in 1..Len(Tail(q)) : Tail(q)[i] = q[i + 1]
  BY HeadTailProperties
<1>2. PICK r \in Seq(S) : r = Tail(q)
  BY <1>1
<1>3. <<x>> \o r \in Seq(S) /\ Len(<<x>> \o r) = Len(r) + 1 /\ (<<x>> \o r)[1] = x
  OBVIOUS
<1>4. ASSUME x = Head(q) PROVE <<x>> \o r = q
  <2>1. Len(<<x>> \o r) = Len(q)
    BY <1>1, <1>2, <1>3
  <2>2. ASSUME NEW i \in 1..Len(q) PROVE (<<x>> \o r)[i] = q[i]
    <3>1. CASE i = 1
      BY <1>3, <1>4, <3>1
    <3>2. CASE i # 1
      <4>1. i - 1 \in 1..Len(r) /\ (<<x>> \o r)[i] = r[i - 1]
        BY <1>1, <1>2, <3>2
      <4>2. r[i - 1] = q[(i - 1) + 1]
        BY <1>1, <1>2, <4>1
      <4> QED
        BY <4>1, <4>2
    <3> QED
      BY <3>1, <3>2
  <2> QED
    BY <1>3, <2>1, <2>2, SeqEqual
<1>5. <<x>> \o r # <<>> /\ Head(<<x>> \o r) = x
  BY <1>3
<1> QED
  BY <1>2, <1>3, <1>4, <1>5

LEMMA CheckSInv ==
    ASSUME Params!ParametersAssumption, SInv,
           NEW t \in Params!CallingThreads, Params!Check(t)
    PROVE  SInv'
<1>1. PICK o : o = op[t]
  OBVIOUS
<1>2. o \in CallsInHand /\ CallIsSound(t, o) /\ o.pc = "check" /\ op[t] # Params!Idle
  BY <1>1, BusyHasCall DEF Params!Check
<1>3. o.queue \in Seq(Seq(Listed)) /\ o.queue # <<>> /\ o.descs \in DescMaps \cup {None} /\ o.i \in Nat
  BY <1>2, CallFields DEF CallIsSound
<1>4. PICK its : its \in Params!PreSet(o) /\ Params!CheckList(t, its)
  BY <1>1 DEF Params!Check
<1>5. its \in Seq(Listed) /\ (o.kind = "declare" => its = Head(o.queue))
  <2>1. Head(o.queue) \in Seq(Listed) /\ <<>> \in Seq(Listed)
    BY <1>3, HeadTailProperties, EmptySeq
  <2> QED
    BY <1>4, <2>1 DEF Params!PreSet
<1> DEFINE declaring == o.kind = "declare"
<1>6. /\ <<its>> \o Tail(o.queue) \in Seq(Seq(Listed)) /\ <<its>> \o Tail(o.queue) # <<>>
      /\ Head(<<its>> \o Tail(o.queue)) = its
      /\ (declaring => <<its>> \o Tail(o.queue) = o.queue)
  BY <1>3, <1>5, CutProperties
<1>7. PICK cut : cut = [o EXCEPT !.queue = <<its>> \o Tail(@)]
  OBVIOUS
<1>8. /\ cut \in CallsInHand /\ cut.kind = o.kind /\ cut.pc = "check" /\ cut.descs = o.descs
      /\ cut.queue = <<its>> \o Tail(o.queue)
  BY <1>2, <1>6, <1>7 DEF CallsInHand
<1>9. CallIsSound(t, cut)
  BY <1>2, <1>6, <1>8 DEF CallIsSound
<1>10. PICK descs \in DescMaps : descs = IF declaring THEN o.descs ELSE descriptors
  BY <1>2 DEF CallIsSound, SInv, StoreTypeOK
<1>11. descs \in [DOMAIN descs -> Params!Descriptors]
  BY MapTypes
<1>12. PICK verdict : verdict = Params!apply_descriptors(its, descs, ~declaring)
  OBVIOUS
<1>13. /\ Follows(verdict, DOMAIN descs, descs)
       /\ verdict.ok => \A k \in DOMAIN its : its[k].name \in DOMAIN descs => Fits(its[k].value, descs[its[k].name])
  BY <1>5, <1>11, <1>12, VerdictFits
<1>14. verdict.descs \in DescMaps /\ DOMAIN verdict.descs = DOMAIN descs
  BY <1>13, MapTypes DEF Follows
<1>15. PICK passed : passed = [cut EXCEPT !.pc = "callbacks", !.descs = IF declaring THEN verdict.descs ELSE None]
  OBVIOUS
<1>16. /\ passed \in CallsInHand /\ passed.kind = o.kind /\ passed.pc = "callbacks" /\ passed.queue = cut.queue
       /\ passed.descs = IF declaring THEN verdict.descs ELSE None
  BY <1>8, <1>14, <1>15 DEF CallsInHand
<1>17. PICK unknown \in BOOLEAN :
         /\ op' = [op EXCEPT ![t] =
               IF its = <<>> THEN Params!NextList(cut)
               ELSE IF unknown THEN IF cut.kind = "service" THEN Params!NextList(cut) ELSE Params!Idle
               ELSE IF ~verdict.ok THEN Params!Refused(cut) ELSE passed]
         /\ unknown => ~declaring
         /\ descriptors' = IF its # <<>> /\ ~unknown /\ ~declaring THEN verdict.descs ELSE descriptors
         /\ params' = params
  <2>1. cut = [op[t] EXCEPT !.queue = <<its>> \o Tail(@)]
    BY <1>1, <1>7
  <2>2. cut.kind = o.kind /\ (IF cut.kind = "declare" THEN cut.descs ELSE descriptors) = descs
    BY <1>8, <1>10
  <2>3. PICK unknown : unknown = (~declaring /\ Params!IsUndeclared(its))
    OBVIOUS
  <2> QED
    BY <1>4, <1>12, <1>15, <2>1, <2>2, <2>3 DEF Params!CheckList
<1>18. /\ descriptors' \in DescMaps /\ StoreFits' /\ Milder /\ params' \in ValueMaps
  <2>1. CASE descriptors' = descriptors
    BY <1>17, <2>1 DEF SInv, StoreTypeOK, StoreFits, Milder, Alike
  <2>2. CASE ~declaring /\ descriptors' = verdict.descs
    BY <1>10, <1>13, <1>14, <1>17, <2>2, AlikeFits DEF Follows, SInv, StoreTypeOK, StoreFits, Milder
  <2> QED
    BY <1>17, <2>1, <2>2
<1>19. PICK next \in {Params!Idle} \cup CallsInHand :
         /\ op' = [op EXCEPT ![t] = next] /\ (next # Params!Idle => next.kind = o.kind)
         /\ \/ next # Params!Idle => CallIsSound(t, next) /\ next.pc = "check"
            \/ next = passed /\ its # <<>> /\ verdict.ok /\ (~declaring => descriptors' = verdict.descs)
  <2>1. /\ Params!NextList(cut) \in {Params!Idle} \cup CallsInHand
        /\ Params!NextList(cut) # Params!Idle =>
             /\ Params!NextList(cut).kind = o.kind /\ Params!NextList(cut).pc = "check"
             /\ CallIsSound(t, Params!NextList(cut))
    BY <1>8, <1>9, NextListSound
  <2>2. /\ Params!Refused(cut) \in {Params!Idle} \cup CallsInHand
        /\ Params!Refused(cut) # Params!Idle =>
             /\ Params!Refused(cut).kind = o.kind /\ Params!Refused(cut).pc = "check"
             /\ CallIsSound(t, Params!Refused(cut))
    BY <1>8, <1>9, RefusedSound
  <2>3. CASE op' = [op EXCEPT ![t] = Params!NextList(cut)]
    BY <2>1, <2>3
  <2>4. CASE op' = [op EXCEPT ![t] = Params!Idle]
    BY <2>4
  <2>5. CASE op' = [op EXCEPT ![t] = Params!Refused(cut)]
    BY <2>2, <2>5
  <2>6. CASE its # <<>> /\ ~unknown /\ verdict.ok
    BY <1>16, <1>17, <2>6
  <2>7. verdict.ok \in BOOLEAN
    BY <1>13 DEF Follows
  <2> QED
    BY <1>17, <2>3, <2>4, <2>5, <2>6, <2>7
<1>20. DeclaresAlone'
  BY <1>1, <1>2, <1>19 DEF SInv, DeclaresAlone, StoreTypeOK, Params!CallingThreads, Params!Idle,
     Params!ParametersAssumption
<1>21. ASSUME next # Params!Idle PROVE CallIsSound(t, next)'
  <2>1. CASE CallIsSound(t, next) /\ next.pc = "check"
    BY <2>1 DEF CallIsSound
  <2>2. CASE next = passed /\ its # <<>> /\ verdict.ok /\ (~declaring => descriptors' = verdict.descs)
    <3>1. Head(passed.queue) = its /\ passed.kind = o.kind
      BY <1>6, <1>8, <1>16
    <3>2. CASE declaring
      <4>1. passed.descs = verdict.descs /\ cut.descs = descs
        BY <1>8, <1>10, <1>16, <3>2
      <4>2. \A k \in DOMAIN its : its[k].name \in DOMAIN verdict.descs => Fits(its[k].value, verdict.descs[its[k].name])
        BY <1>13, <1>14, <2>2, AlikeFits DEF Follows
      <4>3. Checked(passed)'
        BY <3>1, <3>2, <4>1, <4>2 DEF Checked, Own
      <4> QED
        BY <1>8, <1>9, <1>14, <1>16, <2>2, <3>1, <3>2, <4>1, <4>3 DEF CallIsSound
    <3>3. CASE ~declaring
      <4>1. \A k \in DOMAIN its : its[k].name \in DOMAIN verdict.descs => Fits(its[k].value, verdict.descs[its[k].name])
        BY <1>13, <1>14, <2>2, AlikeFits DEF Follows
      <4>2. Checked(passed)'
        BY <2>2, <3>1, <3>3, <4>1 DEF Checked, Own
      <4> QED
        BY <1>6, <1>8, <1>16, <2>2, <3>1, <3>3, <4>2 DEF CallIsSound
    <3> QED
      BY <3>2, <3>3
  <2> QED
    BY <1>19, <1>21, <2>1, <2>2
<1> QED
  BY <1>18, <1>19, <1>20, <1>21, CallStep
(* One parameter of an accepted list is stored.                              *)
LEMMA StoreSInv ==
    ASSUME Params!ParametersAssumption, SInv,
           NEW t \in Params!CallingThreads, Params!Store(t)
    PROVE  SInv'
<1>1. PICK o : o = op[t]
  OBVIOUS
<1>2. o \in CallsInHand /\ CallIsSound(t, o) /\ o.pc = "store" /\ op[t] # Params!Idle
  BY <1>1, BusyHasCall DEF Params!Store
<1>3. o.queue \in Seq(Seq(Listed)) /\ o.queue # <<>> /\ o.i \in Nat /\ o.event \in Seq(Entries)
  BY <1>2, CallFields DEF CallIsSound
<1>4. PICK its \in Seq(Listed) : its = Head(o.queue) /\ its # <<>> /\ o.i \in DOMAIN its
  BY <1>2, <1>3, HeadTailProperties DEF CallIsSound
<1>5. PICK parameter \in Listed : parameter = its[o.i]
  BY <1>4
<1>6. PICK n \in ParamNames, value \in Params!Values : n = parameter.name /\ value = parameter.value
  BY DEF Listed
<1> DEFINE declaring == o.kind = "declare"
           deleted == ~declaring /\ value.type = "not_set"
<1>0. PICK implicit \in Params!Descriptors :
        /\ implicit = [Params!DefaultDescriptor EXCEPT !.dynamic_typing = TRUE]
        /\ implicit.dynamic_typing /\ implicit.range = <<>>
  BY Defaults
<1>7. n \in DOMAIN Own(o) => Fits(value, Own(o)[n])
  BY <1>2, <1>4, <1>5, <1>6 DEF CallIsSound, Checked
<1>8. declaring => t = User /\ o.descs \in DescMaps /\ n \in DOMAIN o.descs
  <2> SUFFICES ASSUME declaring PROVE t = User /\ o.descs \in DescMaps /\ n \in DOMAIN o.descs
    OBVIOUS
  <2>1. 1 \in DOMAIN o.queue /\ o.queue[1] = its
    BY <1>3, <1>4
  <2> QED
    BY <1>2, <1>4, <1>5, <1>6, <2>1 DEF CallIsSound
<1>9. /\ params \in [DOMAIN params -> Params!Values] /\ DOMAIN params \subseteq ParamNames
      /\ descriptors \in [DOMAIN descriptors -> Params!Descriptors] /\ DOMAIN descriptors \subseteq ParamNames
      /\ DOMAIN params = DOMAIN descriptors /\ \A m \in DOMAIN params : Fits(params[m], descriptors[m])
  BY MapTypes DEF SInv, StoreTypeOK, StoreFits
<1>10. /\ IF deleted
          THEN params' = Params!Without(params, n) /\ descriptors' = Params!Without(descriptors, n)
          ELSE /\ params' = Params!With(params, n, value)
               /\ descriptors' = IF declaring THEN Params!With(descriptors, n, o.descs[n])
                                 ELSE IF n \in DOMAIN descriptors THEN descriptors
                                 ELSE Params!With(descriptors, n, implicit)
  BY <1>0, <1>1, <1>4, <1>5, <1>6 DEF Params!Store
<1>11. /\ params' \in ValueMaps /\ descriptors' \in DescMaps /\ StoreFits' /\ (declaring \/ Milder)
  <2>1. CASE deleted
    <3>1. /\ DOMAIN params' = DOMAIN params \ {n} /\ params' \in [DOMAIN params \ {n} -> Params!Values]
          /\ \A m \in DOMAIN params \ {n} : params'[m] = params[m]
          /\ DOMAIN descriptors' = DOMAIN descriptors \ {n}
          /\ descriptors' \in [DOMAIN descriptors \ {n} -> Params!Descriptors]
          /\ \A m \in DOMAIN descriptors \ {n} : descriptors'[m] = descriptors[m]
      <4>1. params' = Params!Without(params, n) /\ descriptors' = Params!Without(descriptors, n)
        BY <1>10, <2>1
      <4> QED
        BY <1>9, <4>1 DEF Params!Without, Params!Restrict
    <3> QED
      BY <1>9, <3>1, MapTypes DEF StoreFits, Milder, Alike
  <2>2. CASE ~deleted
    <3>1. /\ DOMAIN params' = DOMAIN params \cup {n} /\ params' \in [DOMAIN params \cup {n} -> Params!Values]
          /\ \A m \in DOMAIN params \cup {n} : params'[m] = IF m = n THEN value ELSE params[m]
      <4>1. params' = Params!With(params, n, value)
        BY <1>10, <2>2
      <4> QED
        BY <1>9, <4>1 DEF Params!With
    <3>2. CASE declaring
      <4>1. o.descs[n] \in Params!Descriptors /\ Fits(value, o.descs[n])
        BY <1>7, <1>8, <3>2, MapTypes DEF Own
      <4>2. descriptors' = Params!With(descriptors, n, o.descs[n])
        BY <1>10, <2>2, <3>2
      <4>3. /\ DOMAIN descriptors' = DOMAIN descriptors \cup {n}
            /\ descriptors' \in [DOMAIN descriptors \cup {n} -> Params!Descriptors]
            /\ \A m \in DOMAIN descriptors \cup {n} : descriptors'[m] = IF m = n THEN o.descs[n] ELSE descriptors[m]
        BY <1>9, <4>1, <4>2 DEF Params!With
      <4> QED
        BY <1>9, <3>1, <3>2, <4>1, <4>3, MapTypes DEF StoreFits
    <3>3. CASE ~declaring /\ n \in DOMAIN descriptors
      <4>1. descriptors' = descriptors /\ Fits(value, descriptors[n])
        BY <1>7, <1>10, <2>2, <3>3 DEF Own
      <4> QED
        BY <1>9, <3>1, <3>3, <4>1, MapTypes DEF StoreFits, Milder, Alike
    <3>4. CASE ~declaring /\ n \notin DOMAIN descriptors
      <4>1. descriptors' = Params!With(descriptors, n, implicit)
        BY <1>10, <2>2, <3>4
      <4>2. /\ DOMAIN descriptors' = DOMAIN descriptors \cup {n}
            /\ descriptors' \in [DOMAIN descriptors \cup {n} -> Params!Descriptors]
            /\ \A m \in DOMAIN descriptors \cup {n} : descriptors'[m] = IF m = n THEN implicit ELSE descriptors[m]
        BY <1>9, <4>1 DEF Params!With
      <4>3. Fits(value, implicit)
        BY <1>0 DEF Fits
      <4> QED
        BY <1>0, <1>9, <3>1, <3>4, <4>2, <4>3, MapTypes DEF StoreFits, Milder, Alike
    <3> QED
      BY <3>2, <3>3, <3>4
  <2> QED
    BY <2>1, <2>2
<1>12. PICK next \in CallsInHand :
         /\ op' = [op EXCEPT ![t] = next]
         /\ next.kind = o.kind /\ next.queue = o.queue /\ next.descs = o.descs
         /\ \/ next.pc = "store" /\ next.i = o.i + 1 /\ o.i < Len(its)
            \/ next.pc = "announce"
  <2>1. PICK filed : filed = IF deleted THEN "deleted"
                             ELSE IF Params!get_parameter_or(n, Params!NotSet) = Params!NotSet THEN "new" ELSE "changed"
    OBVIOUS
  <2>2. PICK event \in Seq(Entries) : event = Append(o.event, [in |-> filed, name |-> n, value |-> value])
    <3>1. PICK entry \in Entries : entry = [in |-> filed, name |-> n, value |-> value]
      <4>1. filed \in {"deleted", "new", "changed"}
        BY <2>1, Zenon
      <4> QED
        BY <4>1 DEF Entries
    <3> QED
      BY <1>3, <3>1, AppendProperties
  <2>3. PICK stored : stored = [o EXCEPT !.event = Append(@, [in |-> filed, name |-> n, value |-> value])]
    OBVIOUS
  <2>4. stored \in CallsInHand /\ stored.kind = o.kind /\ stored.queue = o.queue /\ stored.descs = o.descs
        /\ stored.i = o.i /\ stored.pc = "store"
    BY <1>2, <2>2, <2>3 DEF CallsInHand
  <2>5. PICK further : further = [stored EXCEPT !.i = @ + 1]
    OBVIOUS
  <2>6. PICK last : last = [stored EXCEPT !.pc = "announce"]
    OBVIOUS
  <2>7. further \in CallsInHand /\ further.kind = o.kind /\ further.queue = o.queue /\ further.descs = o.descs
        /\ further.i = o.i + 1 /\ further.pc = "store"
    BY <2>4, <2>5, Further
  <2>8. last \in CallsInHand /\ last.kind = o.kind /\ last.queue = o.queue /\ last.descs = o.descs
        /\ last.pc = "announce"
    BY <2>4, <2>6 DEF CallsInHand
  <2>9. op' = [op EXCEPT ![t] = IF o.i < Len(its) THEN further ELSE last]
    BY <1>1, <1>4, <1>5, <1>6, <2>1, <2>3, <2>5, <2>6, ZenonT(90) DEF Params!Store
  <2> QED
    BY <2>7, <2>8, <2>9
<1>13. DeclaresAlone'
  BY <1>1, <1>2, <1>12 DEF SInv, DeclaresAlone, StoreTypeOK, Params!CallingThreads, Params!Idle,
     Params!ParametersAssumption
<1>14. declaring => \A u \in Params!CallingThreads \ {t} : op[u] = Params!Idle
  BY <1>1, <1>8 DEF SInv, DeclaresAlone, Params!CallingThreads
<1>15. Checked(o)'
  <2>1. CASE declaring
    BY <1>2, <2>1 DEF CallIsSound, Checked, Own
  <2>2. CASE ~declaring
    BY <1>2, <1>11, <2>2, CheckedStays DEF CallIsSound
  <2> QED
    BY <2>1, <2>2
<1>16. CallIsSound(t, next)'
  <2>1. next.pc = "store" => next.i \in DOMAIN its
    BY <1>3, <1>4, <1>12
  <2>2. Checked(next)'
    BY <1>12, <1>15 DEF Checked, Own
  <2> QED
    BY <1>2, <1>3, <1>4, <1>12, <2>1, <2>2 DEF CallIsSound
<1> QED
  BY <1>11, <1>12, <1>13, <1>14, <1>16, CallStep
-----------------------------------------------------------------------------
(* The calls that begin, and those that take one step.                       *)
LEMMA StartsQuietly ==
    ASSUME SInv, NEW t, NEW kind, Params!MayStart(t, kind)
    PROVE  \A u \in Params!CallingThreads \ {t} : op[u] # Params!Idle =>
              op[u].kind \in {"set", "service", "register"} /\ kind \in {"set", "service", "register"}
<1> SUFFICES ASSUME NEW u \in Params!CallingThreads \ {t}, op[u] # Params!Idle
             PROVE  op[u].kind \in {"set", "service", "register"} /\ kind \in {"set", "service", "register"}
  OBVIOUS
<1>1. op[u] \in CallsInHand
  BY DEF SInv, StoreTypeOK
<1>2. Params!Busy(u)
  BY <1>1, CallFields DEF Params!Busy
<1>3. op[u].kind \in Params!Overlapped(t)
  BY <1>2 DEF Params!Overlapped
<1> QED
  BY <1>3 DEF Params!MayStart

LEMMA EnterSInv ==
    ASSUME Params!ParametersAssumption, SInv,
           NEW t \in Params!CallingThreads, NEW kind \in {"declare", "set", "service"},
                  NEW queue \in Seq(Seq(Listed)), NEW descs \in DescMaps \cup {None},
           Params!Enter(t, kind, queue, descs),
                  kind = "declare" => t = User /\ descs \in DescMaps
                     /\ \A j \in DOMAIN queue : \A k \in DOMAIN queue[j] : queue[j][k].name \in DOMAIN descs
    PROVE  SInv'
<1> DEFINE o == [pc |-> "check", kind |-> kind, queue |-> queue, descs |-> descs, i |-> 1, event |-> <<>>]
<1>1. o \in CallsInHand
  <2>1. <<>> \in Seq(Entries)
    OBVIOUS
  <2> QED
    BY <2>1 DEF CallsInHand
<1>2. op' = [op EXCEPT ![t] = o] /\ UNCHANGED <<params, descriptors>> /\ queue # <<>>
  BY DEF Params!Enter
<1>3. CallIsSound(t, o)'
  <2>1. o.pc = "check" /\ o.kind = kind /\ o.queue = queue /\ o.descs = descs
    OBVIOUS
  <2> HIDE DEF o
  <2> QED
    BY <1>2, <2>1 DEF CallIsSound
<1>4. Milder /\ StoreFits' /\ params' \in ValueMaps /\ descriptors' \in DescMaps
  BY <1>2 DEF Milder, Alike, SInv, StoreFits, StoreTypeOK
<1>5. DeclaresAlone'
  <2>1. \A u \in Params!CallingThreads \ {t} : op[u] # Params!Idle =>
            /\ op[u].kind \in {"set", "service", "register"} /\ kind \in {"set", "service", "register"}
    BY StartsQuietly DEF Params!Enter
  <2>2. op'[t].kind = kind /\ \A u \in Params!CallingThreads \ {t} : op'[u] = op[u]
    BY <1>2 DEF SInv, StoreTypeOK
  <2> QED
    <3>1. CASE t = User
      BY <2>1, <2>2, <3>1 DEF DeclaresAlone, Params!CallingThreads, Params!ParametersAssumption
    <3>2. CASE t = Service
      BY <2>1, <2>2, <3>2 DEF DeclaresAlone, Params!CallingThreads, Params!Idle, Params!ParametersAssumption
    <3> QED
      BY <3>1, <3>2 DEF Params!CallingThreads
<1> QED
  BY <1>1, <1>2, <1>3, <1>4, <1>5, CallStep

LEMMA SetSInv ==
    ASSUME Params!ParametersAssumption, SInv,
           NEW t \in Params!CallingThreads, Params!set_parameters(t) \/ Params!set_parameters_atomically(t)
    PROVE  SInv'
<1>1. Settings \subseteq Seq(Listed)
  BY DEF Listed, Params!ParametersAssumption
<1>2. Params!KindOf(t) \in {"set", "service"}
  BY DEF Params!KindOf
<1>3. CASE Params!set_parameters(t)
  <2>1. PICK its \in Settings : Params!Enter(t, Params!KindOf(t), [k \in DOMAIN its |-> <<its[k]>>], None)
    BY <1>3 DEF Params!set_parameters
  <2>2. [k \in DOMAIN its |-> <<its[k]>>] \in Seq(Seq(Listed))
    <3>1. Len(its) \in Nat /\ DOMAIN its = 1..Len(its) /\ \A k \in DOMAIN its : its[k] \in Listed
      BY <1>1
    <3>2. \A k \in DOMAIN its : <<its[k]>> \in Seq(Listed)
      BY <3>1
    <3> QED
      BY <3>1, <3>2
  <2> QED
    BY <1>2, <2>1, <2>2, EnterSInv
<1>4. CASE Params!set_parameters_atomically(t)
  <2>1. PICK its \in Settings : Params!Enter(t, Params!KindOf(t), <<its>>, None)
    BY <1>4 DEF Params!set_parameters_atomically
  <2>2. <<its>> \in Seq(Seq(Listed))
    BY <1>1
  <2> QED
    BY <1>2, <2>1, <2>2, EnterSInv
<1> QED
  BY <1>3, <1>4

(* The last place of a name in a list.                                       *)
LEMMA LastPlace ==
    ASSUME NEW n \in Nat, NEW S \in SUBSET (1..n), S # {}
    PROVE  Params!Max(S) \in S
<1> DEFINE mirrored == {n - x : x \in S}
<1>1. mirrored \in SUBSET Nat /\ mirrored # {}
  <2>1. \A x \in S : n - x \in Nat
    OBVIOUS
  <2>2. PICK x : x \in S
    OBVIOUS
  <2>3. n - x \in mirrored
    BY <2>2
  <2>4. mirrored \subseteq Nat
    BY <2>1, Zenon
  <2> QED
    BY <2>3, <2>4, Zenon
<1>2. PICK y \in mirrored : \A z \in mirrored : y <= z
  BY <1>1, LeastOne
<1>3. PICK x \in S : y = n - x
  OBVIOUS
<1>4. \A z \in S : x >= z
  <2> SUFFICES ASSUME NEW z \in S PROVE x >= z
    OBVIOUS
  <2>1. y <= n - z
    BY <1>2
  <2> QED
    BY <1>3, <2>1
<1> QED
  BY <1>4 DEF Params!Max

LEMMA DeclareSInv ==
    ASSUME Params!ParametersAssumption, SInv,
           Params!declare_parameters(User)
    PROVE  SInv'
<1>1. PICK items \in Items, ignoreOverride \in BOOLEAN :
        Params!Enter(User, "declare",
                     [k \in DOMAIN items |->
                      <<Params!Parameter(items[k].name, Params!ItemValue(items[k], ignoreOverride))>>],
                     [n \in {items[k].name : k \in DOMAIN items} |->
                       Params!ItemDescriptor(items[Params!Max({k \in DOMAIN items : items[k].name = n})])])
  BY DEF Params!declare_parameters
<1>2. PICK Passed : Passed = [name : ParamNames, value : Params!Values, typed : BOOLEAN, dynamic_typing : BOOLEAN,
                              read_only : BOOLEAN, range : Seq(Int)]
  OBVIOUS
<1>3. items \in Seq(Passed)
  BY <1>2 DEF Params!ParametersAssumption
<1>4. Len(items) \in Nat /\ DOMAIN items = 1..Len(items) /\ \A k \in DOMAIN items : items[k] \in Passed
  BY <1>3
<1>5. PICK queue : queue = [k \in DOMAIN items |->
                      <<Params!Parameter(items[k].name, Params!ItemValue(items[k], ignoreOverride))>>]
  OBVIOUS
<1>6. PICK descs : descs = [n \in {items[k].name : k \in DOMAIN items} |->
                              Params!ItemDescriptor(items[Params!Max({k \in DOMAIN items : items[k].name = n})])]
  OBVIOUS
<1>7. \A k \in DOMAIN items : Params!Parameter(items[k].name, Params!ItemValue(items[k], ignoreOverride)) \in Listed
  <2>1. Params!NotSet \in Params!Values
    BY DEF Params!NotSet, Params!Value, Params!Values, Params!Types
  <2>2. ASSUME NEW item \in Passed
        PROVE  item.name \in ParamNames /\ Params!ItemValue(item, ignoreOverride) \in Params!Values
    BY <1>2, <2>1 DEF Params!ItemValue, Params!ParametersAssumption
  <2> QED
    BY <1>4, <2>2 DEF Params!Parameter, Listed
<1>8. queue \in Seq(Seq(Listed))
  BY <1>4, <1>5, <1>7
<1>9. descs \in DescMaps /\ DOMAIN descs = {items[k].name : k \in DOMAIN items}
  <2>1. ASSUME NEW item \in Passed PROVE Params!ItemDescriptor(item) \in Params!Descriptors /\ item.name \in ParamNames
    BY <1>2 DEF Params!ItemDescriptor, Params!Descriptors, Params!Values, Params!Types
  <2>2. ASSUME NEW n \in {items[k].name : k \in DOMAIN items}
        PROVE  Params!ItemDescriptor(items[Params!Max({k \in DOMAIN items : items[k].name = n})]) \in Params!Descriptors
    <3>1. PICK S : S = {k \in DOMAIN items : items[k].name = n}
      OBVIOUS
    <3>2. S \in SUBSET (1..Len(items)) /\ S # {}
      BY <1>4, <3>1
    <3>3. Params!Max(S) \in DOMAIN items
      BY <1>4, <3>2, LastPlace
    <3> QED
      BY <1>4, <2>1, <3>1, <3>3
  <2>3. {items[k].name : k \in DOMAIN items} \subseteq ParamNames
    BY <1>4, <2>1
  <2> QED
    BY <1>6, <2>2, <2>3, MapTypes
<1>10. \A j \in DOMAIN queue : \A k \in DOMAIN queue[j] : queue[j][k].name \in DOMAIN descs
  BY <1>4, <1>5, <1>9 DEF Params!Parameter
<1>11. User \in Params!CallingThreads
  BY DEF Params!CallingThreads
<1> QED
  BY <1>1, <1>5, <1>6, <1>8, <1>9, <1>10, <1>11, EnterSInv
(* A call that takes one step changes the store only when nobody else is     *)
(* at work.                                                                  *)
LEMMA OneStepSInv ==
    ASSUME SInv, NEW t \in Params!CallingThreads, NEW kind, Params!OneStep(t, kind),
           params' \in ValueMaps, descriptors' \in DescMaps, StoreFits',
           UNCHANGED descriptors \/ kind = "describe"
    PROVE  SInv'
<1>1. op' = op /\ Params!MayStart(t, kind)
  BY DEF Params!OneStep
<1>2. Milder \/ \A u \in Params!CallingThreads : op[u] = Params!Idle
  <2>1. CASE UNCHANGED descriptors
    BY <2>1 DEF Milder, Alike
  <2>2. CASE kind = "describe"
    <3>1. \A u \in Params!CallingThreads \ {t} : op[u] = Params!Idle
      BY <1>1, <2>2, StartsQuietly
    <3>2. op[t] = Params!Idle
      BY <1>1, BusyHasCall, CallFields DEF Params!MayStart, Params!Busy, SInv, StoreTypeOK
    <3> QED
      BY <3>1, <3>2
  <2> QED
    BY <2>1, <2>2
<1>3. ASSUME NEW u \in Params!CallingThreads, op'[u] # Params!Idle PROVE CallIsSound(u, op[u])'
  <2>1. PICK c : c = op[u]
    OBVIOUS
  <2>2. CallIsSound(u, c) /\ Milder
    BY <1>1, <1>2, <1>3, <2>1 DEF SInv, CallsAreSound
  <2>3. CallIsSound(u, c)'
    BY <2>2, CheckedStays DEF CallIsSound
  <2> QED
    BY <1>1, <2>1, <2>3 DEF CallIsSound, Checked, Own
<1> QED
  BY <1>1, <1>3 DEF SInv, StoreTypeOK, CallsAreSound, DeclaresAlone

LEMMA UndeclareSInv ==
    ASSUME SInv, Params!undeclare_parameter(User)
    PROVE  SInv'
<1>1. PICK n \in DOMAIN params : params' = Params!Without(params, n) /\ descriptors' = Params!Without(descriptors, n)
  BY DEF Params!undeclare_parameter
<1>2. Params!OneStep(User, "describe") /\ User \in Params!CallingThreads
  BY DEF Params!undeclare_parameter, Params!CallingThreads
<1>3. /\ params \in [DOMAIN params -> Params!Values] /\ DOMAIN params \subseteq ParamNames
      /\ descriptors \in [DOMAIN descriptors -> Params!Descriptors] /\ DOMAIN descriptors \subseteq ParamNames
      /\ DOMAIN params = DOMAIN descriptors /\ \A m \in DOMAIN params : Fits(params[m], descriptors[m])
  BY MapTypes DEF SInv, StoreTypeOK, StoreFits
<1>4. /\ DOMAIN params' = DOMAIN params \ {n} /\ params' \in [DOMAIN params \ {n} -> Params!Values]
      /\ \A m \in DOMAIN params \ {n} : params'[m] = params[m]
      /\ DOMAIN descriptors' = DOMAIN descriptors \ {n}
      /\ descriptors' \in [DOMAIN descriptors \ {n} -> Params!Descriptors]
      /\ \A m \in DOMAIN descriptors \ {n} : descriptors'[m] = descriptors[m]
  BY <1>1, <1>3 DEF Params!Without, Params!Restrict
<1>5. params' \in ValueMaps /\ descriptors' \in DescMaps /\ StoreFits'
  BY <1>3, <1>4, MapTypes DEF StoreFits
<1> QED
  BY <1>2, <1>5, OneStepSInv

LEMMA DescribeSInv ==
    ASSUME Params!ParametersAssumption, SInv,
           Params!set_descriptor(User)
    PROVE  SInv'
<1>1. PICK n \in DOMAIN params, descriptor \in {Params!ItemDescriptor(items[1]) : items \in Items \ {<<>>}} :
        LET current == Params!get_parameter(n)
            verdict(value) == Params!apply_descriptor(Params!Parameter(n, value), descriptor, FALSE, DOMAIN params)
            Alternatives == IF verdict(current).ok THEN {current} ELSE {its[1].value : its \in Settings \ {<<>>}}
        IN  \E chosen \in Alternatives :
            /\ ~Params!describe_parameter(n).read_only /\ current.type # "raises"
            /\ verdict(chosen).ok
            /\ params' = [params EXCEPT ![n] = chosen]
            /\ descriptors' = [descriptors EXCEPT ![n] = verdict(chosen).descriptor]
            /\ quirks' = quirks \cup Params!Raced(User) \cup (IF chosen = current THEN {} ELSE {"swapped"})
  BY DEF Params!set_descriptor
<1>2. Params!OneStep(User, "describe") /\ User \in Params!CallingThreads
  BY DEF Params!set_descriptor, Params!CallingThreads
<1>3. /\ params \in [DOMAIN params -> Params!Values] /\ DOMAIN params \subseteq ParamNames
      /\ descriptors \in [DOMAIN descriptors -> Params!Descriptors] /\ DOMAIN descriptors \subseteq ParamNames
      /\ DOMAIN params = DOMAIN descriptors /\ \A m \in DOMAIN params : Fits(params[m], descriptors[m])
  BY MapTypes DEF SInv, StoreTypeOK, StoreFits
<1>4. descriptor \in Params!Descriptors
  <2>0. PICK items \in Items \ {<<>>} : descriptor = Params!ItemDescriptor(items[1])
    OBVIOUS
  <2>1. PICK Passed : Passed = [name : ParamNames, value : Params!Values, typed : BOOLEAN, dynamic_typing : BOOLEAN,
                                read_only : BOOLEAN, range : Seq(Int)]
    OBVIOUS
  <2>2. items \in Seq(Passed) /\ items # <<>>
    BY <2>1 DEF Params!ParametersAssumption
  <2>3. items[1] \in Passed
    BY <2>2
  <2> QED
    BY <2>0, <2>1, <2>3 DEF Params!ItemDescriptor, Params!Descriptors, Params!Values, Params!Types
<1>5. PICK chosen : LET verdict == Params!apply_descriptor(Params!Parameter(n, chosen), descriptor, FALSE,
                                                           DOMAIN params)
                    IN  /\ Params!get_parameter(n).type # "raises"
                        /\ chosen = Params!get_parameter(n) \/ \E its \in Settings \ {<<>>} : chosen = its[1].value
                        /\ verdict.ok
                        /\ params' = [params EXCEPT ![n] = chosen]
                        /\ descriptors' = [descriptors EXCEPT ![n] = verdict.descriptor]
  BY <1>1
<1>6. chosen \in Params!Values
  <2>1. CASE chosen = Params!get_parameter(n)
    <3>1. chosen = params[n]
      BY <1>5, <2>1 DEF Params!get_parameter, Params!has_parameter, Params!Value
    <3> QED
      BY <1>3, <3>1
  <2>2. ASSUME NEW its \in Settings \ {<<>>}, chosen = its[1].value PROVE chosen \in Params!Values
    <3>1. its \in Seq(Listed) /\ its # <<>>
      BY DEF Listed, Params!ParametersAssumption
    <3>2. its[1] \in Listed
      BY <3>1
    <3> QED
      BY <2>2, <3>2 DEF Listed
  <2> QED
    BY <1>5, <2>1, <2>2
<1>7. Params!Parameter(n, chosen) \in Listed /\ Params!Parameter(n, chosen).value = chosen
  <2>1. n \in ParamNames
    BY <1>3
  <2> QED
    BY <1>6, <2>1 DEF Params!Parameter, Listed
<1>8. PICK verdict : /\ verdict = Params!apply_descriptor(Params!Parameter(n, chosen), descriptor, FALSE, DOMAIN params)
                     /\ verdict.descriptor \in Params!Descriptors /\ Fits(chosen, verdict.descriptor)
  <2>1. PICK verdict : verdict = Params!apply_descriptor(Params!Parameter(n, chosen), descriptor, FALSE, DOMAIN params)
    OBVIOUS
  <2>2. /\ verdict.descriptor \in Params!Descriptors /\ Alike(descriptor, verdict.descriptor)
        /\ verdict.ok => Fits(chosen, descriptor)
    <3>1. PICK parameter \in Listed : parameter = Params!Parameter(n, chosen) /\ parameter.value = chosen
      BY <1>7
    <3>2. verdict = Params!apply_descriptor(parameter, descriptor, FALSE, DOMAIN params)
      BY <2>1, <3>1
    <3> QED
      BY <1>4, <3>1, <3>2, AcceptedFits
  <2>3. verdict.ok
    BY <1>5, <2>1
  <2>4. Fits(chosen, verdict.descriptor)
    BY <2>2, <2>3, AlikeFits
  <2> QED
    BY <2>1, <2>2, <2>4
<1>9. params' = [params EXCEPT ![n] = chosen] /\ descriptors' = [descriptors EXCEPT ![n] = verdict.descriptor]
  BY <1>5, <1>7, <1>8
<1>10. params' \in ValueMaps /\ descriptors' \in DescMaps /\ StoreFits'
  BY <1>3, <1>6, <1>8, <1>9, MapTypes DEF StoreFits
<1> QED
  BY <1>2, <1>10, OneStepSInv

LEMMA RegisterSInv ==
    ASSUME SInv, Params!Register
    PROVE  SInv'
<1>1. Params!OneStep(User, "register") /\ UNCHANGED <<params, descriptors>> /\ User \in Params!CallingThreads
  BY DEF Params!Register, Params!add_on_set_parameters_callback, Params!remove_on_set_parameters_callback,
     Params!CallingThreads
<1>2. params' \in ValueMaps /\ descriptors' \in DescMaps /\ StoreFits'
  BY <1>1 DEF SInv, StoreTypeOK, StoreFits
<1> QED
  BY <1>1, <1>2, OneStepSInv

LEMMA NextSInv == ASSUME Params!ParametersAssumption, SInv, Params!Next PROVE SInv'
<1>1. CASE Params!Declare
  BY <1>1, DeclareSInv DEF Params!Declare
<1>2. CASE Params!Set
  BY <1>2, SetSInv DEF Params!Set
<1>3. CASE Params!Run
  BY <1>3, CheckSInv, CallBackSInv, AcceptedSInv, StoreSInv, AnnounceSInv DEF Params!Run
<1>4. CASE Params!Describe
  BY <1>4, UndeclareSInv, DescribeSInv DEF Params!Describe
<1>5. CASE Params!Register
  BY <1>5, RegisterSInv
<1> QED
  BY <1>1, <1>2, <1>3, <1>4, <1>5 DEF Params!Next

(* The invariant of the parameters and of the calls at work on them holds    *)
(* in every reachable state.                                                 *)
THEOREM StoreInvariance == ASSUME Params!ParametersAssumption PROVE Params!Spec => []SInv
<1>1. SInv /\ UNCHANGED Params!vars => SInv'
  BY DEF SInv, Params!vars, StoreTypeOK, CallsAreSound, CallIsSound, Checked, Own, DeclaresAlone, StoreFits
<1> QED
  BY <1>1, InitSInv, NextSInv, PTL DEF Params!Spec

LEMMA SInvMeets == SInv => Params!StoreMeetsDescriptors
<1> SUFFICES ASSUME SInv PROVE Params!StoreMeetsDescriptors
  OBVIOUS
<1>1. DOMAIN params = DOMAIN descriptors /\ \A n \in DOMAIN params : Fits(params[n], descriptors[n])
  BY DEF SInv, StoreFits
<1>2. \A n \in DOMAIN params : Params!apply_descriptor(Params!Parameter(n, params[n]), descriptors[n], FALSE, {}).ok
  <2> SUFFICES ASSUME NEW n \in DOMAIN params
               PROVE  Params!apply_descriptor(Params!Parameter(n, params[n]), descriptors[n], FALSE, {}).ok
    OBVIOUS
  <2>1. Fits(params[n], descriptors[n])
    BY <1>1
  <2> QED
    BY <2>1, FitsIsAccepted, Zenon
<1> QED
  BY <1>1, <1>2 DEF Params!StoreMeetsDescriptors

(* Every stored parameter has a descriptor and obeys it, however the calls   *)
(* of threads overlap (node.py:518-1244).                                    *)
THEOREM StoreObeysDescriptors ==
    ASSUME Params!ParametersAssumption PROVE Params!Spec => []Params!StoreMeetsDescriptors
BY StoreInvariance, SInvMeets, PTL
-----------------------------------------------------------------------------
(* Those who follow the parameters                                           *)

(* What a reader of /parameter_events can know of the parameters.            *)
Known(f) == Params!Restrict(f, {n \in DOMAIN f : f[n].type # "not_set"})

(* A reader that begins with m hears an event, entry by entry.               *)
Replay(r, m, event) ==
    /\ r = [k \in 0..Len(event) |-> IF k = 0 THEN m ELSE Params!Hear(r[k - 1], event[k])]
    /\ \A k \in 1..Len(event) : ~Params!Misfiled(r[k - 1], event[k])

(* A reader will know the parameters f from the event a call has gathered.   *)
Tells(o, m, f) ==
    IF o = Params!Idle THEN m = Known(f)
    ELSE \E r : Replay(r, m, o.event) /\ r[Len(o.event)] = Known(f)

(* The time source agrees with the parameters, and with those that a call    *)
(* will still store when all n callbacks, the time source the last of them,  *)
(* have accepted them.                                                       *)
Agrees(f, active) == SimTime \in DOMAIN f /\ f[SimTime].type = "bool" => active = (f[SimTime].v = 1)
Asked(o, n) == o.pc = "store" \/ (o.pc = "callbacks" /\ o.i > n)
ToCome(o) == {k \in DOMAIN Head(o.queue) : Head(o.queue)[k].name = SimTime /\ (o.pc = "store" => k >= o.i)}
Obeys(o, n, f, active) ==
    IF o # Params!Idle /\ Asked(o, n)
    THEN /\ ToCome(o) = {} => Agrees(f, active)
         /\ \A k \in ToCome(o) : /\ Head(o.queue)[k].value.type = "bool"
                                 /\ active = (Head(o.queue)[k].value.v = 1)
    ELSE Agrees(f, active)

(* A list begins with the first callback and without an event.               *)
Begins(o, q) ==
    /\ o.i >= 1 /\ (o.pc = "check" => o.i = 1)
    /\ o.pc \in {"check", "callbacks"} => o.event = <<>>
    /\ "twice" \notin q => \A j \in DOMAIN o.queue : ~Params!NamesTwice(o.queue[j])
CallsBegin == \A t \in Params!CallingThreads : op[t] # Params!Idle => Begins(op[t], quirks)

Alone(t) == \A u \in Params!CallingThreads \ {t} : op[u] = Params!Idle
OneAtWork == "raced" \notin quirks => \E t \in Params!CallingThreads : Alone(t)
SourceIsLast == onSet \in {<<"time_source">>, <<"user", "time_source">>}

SourceFollows ==
    quirks \cap {"raced", "twice", "swapped"} = {} =>
        \A t \in Params!CallingThreads : Alone(t) => Obeys(op[t], Len(onSet), params, simActive)
ReadersFollow ==
    quirks \cap {"raced", "undeclared", "swapped"} = {} =>
        /\ "misfiled" \notin quirks
        /\ \A t \in Params!CallingThreads : Alone(t) => Tells(op[t], mirror, params)

FInv == SInv /\ CallsBegin /\ OneAtWork /\ SourceIsLast /\ SourceFollows /\ ReadersFollow

-----------------------------------------------------------------------------
LEMMA FreshTells ==
    ASSUME NEW o, NEW m, NEW f, o = Params!Idle \/ o.event = <<>>
    PROVE  Tells(o, m, f) <=> m = Known(f)
<1>1. CASE o = Params!Idle
  BY <1>1 DEF Tells
<1>2. CASE o # Params!Idle /\ o.event = <<>>
  <2>1. Len(o.event) = 0
    BY <1>2
  <2>2. ASSUME Tells(o, m, f) PROVE m = Known(f)
    <3>1. PICK r : r = [k \in 0..0 |-> IF k = 0 THEN m ELSE Params!Hear(r[k - 1], o.event[k])] /\ r[0] = Known(f)
      BY <1>2, <2>1, <2>2 DEF Tells, Replay
    <3>2. r[0] = m
      BY <3>1
    <3> QED
      BY <3>1, <3>2
  <2>3. ASSUME m = Known(f) PROVE Tells(o, m, f)
    <3> DEFINE r == [k \in 0..0 |-> m]
    <3>1. r = [k \in 0..0 |-> IF k = 0 THEN m ELSE Params!Hear(r[k - 1], o.event[k])] /\ r[0] = m
      OBVIOUS
    <3>2. Replay(r, m, o.event)
      BY <2>1, <3>1 DEF Replay
    <3> HIDE DEF r
    <3> QED
      BY <1>2, <2>1, <2>3, <3>1, <3>2 DEF Tells
  <2> QED
    BY <2>2, <2>3
<1> QED
  BY <1>1, <1>2

LEMMA FreshObeys ==
    ASSUME NEW o, NEW n, NEW f, NEW active, o = Params!Idle \/ ~Asked(o, n)
    PROVE  Obeys(o, n, f, active) <=> Agrees(f, active)
BY DEF Obeys

(* One more entry of an event.                                               *)
LEMMA TellsOn ==
    ASSUME NEW o \in CallsInHand, NEW p \in CallsInHand, NEW m, NEW f, NEW g, NEW entry \in Entries,
           Tells(o, m, f), ~Params!Misfiled(Known(f), entry), Known(g) = Params!Hear(Known(f), entry),
           p.event = Append(o.event, entry)
    PROVE  Tells(p, m, g)
<1>1. PICK e \in Seq(Entries) : e = o.event
  BY CallFields
<1>2. PICK n \in Nat : n = Len(e)
  OBVIOUS
<1>3. /\ p.event = Append(e, entry) /\ Len(p.event) = n + 1 /\ p.event[n + 1] = entry
      /\ \A k \in 1..n : p.event[k] = e[k]
  BY <1>1, <1>2
<1>4. PICK r : /\ r = [k \in 0..n |-> IF k = 0 THEN m ELSE Params!Hear(r[k - 1], e[k])]
               /\ \A k \in 1..n : ~Params!Misfiled(r[k - 1], e[k])
               /\ r[n] = Known(f)
  BY <1>1, <1>2, CallFields DEF Tells, Replay
<1> DEFINE s == [k \in 0..(n + 1) |-> IF k <= n THEN r[k] ELSE Params!Hear(r[n], entry)]
<1>5. \A k \in 0..n : s[k] = r[k]
  OBVIOUS
<1>6. s[n + 1] = Known(g)
  BY <1>4
<1>7. s[0] = m /\ s = [k \in 0..(n + 1) |-> s[k]]
  BY <1>4
<1> HIDE DEF s
<1>8. ASSUME NEW k \in 1..(n + 1)
      PROVE  s[k] = Params!Hear(s[k - 1], p.event[k]) /\ ~Params!Misfiled(s[k - 1], p.event[k])
  <2>1. k - 1 \in 0..n /\ s[k - 1] = r[k - 1] /\ k # 0
    BY <1>5, <1>8
  <2>2. CASE k \in 1..n
    <3>1. s[k] = r[k] /\ k \in 0..n
      BY <1>5, <2>2
    <3>2. r[k] = Params!Hear(r[k - 1], e[k])
      BY <1>4, <2>1, <3>1
    <3> QED
      BY <1>3, <1>4, <2>1, <2>2, <3>1, <3>2
  <2>3. CASE k = n + 1
    <3>1. k - 1 = n
      BY <2>3
    <3> QED
      BY <1>3, <1>4, <1>6, <2>1, <2>3, <3>1
  <2>4. k \in 1..n \/ k = n + 1
    BY <1>8
  <2> QED
    BY <2>2, <2>3, <2>4
<1>9. s = [k \in 0..Len(p.event) |-> IF k = 0 THEN m ELSE Params!Hear(s[k - 1], p.event[k])]
  <2>1. \A k \in 0..(n + 1) : s[k] = IF k = 0 THEN m ELSE Params!Hear(s[k - 1], p.event[k])
    <3> SUFFICES ASSUME NEW k \in 0..(n + 1), k # 0
                 PROVE  s[k] = Params!Hear(s[k - 1], p.event[k])
      BY <1>7
    <3>1. k \in 1..(n + 1)
      OBVIOUS
    <3> QED
      BY <1>8, <3>1
  <2> QED
    BY <1>3, <1>7, <2>1
<1>10. Replay(s, m, p.event) /\ s[Len(p.event)] = Known(g)
  BY <1>3, <1>6, <1>8, <1>9 DEF Replay
<1> QED
  BY <1>10, CallFields DEF Tells

(* The reader hears the event.                                               *)
LEMMA HearsAll ==
    ASSUME NEW e \in Seq(Entries), NEW r, NEW m, Replay(r, m, e)
    PROVE  (CHOOSE g : g = [k \in 0..Len(e) |-> IF k = 0 THEN m ELSE Params!Hear(g[k - 1], e[k])]) = r
<1> DEFINE Goes(g) == g = [k \in 0..Len(e) |-> IF k = 0 THEN m ELSE Params!Hear(g[k - 1], e[k])]
<1>1. PICK g : g = CHOOSE h : Goes(h)
  OBVIOUS
<1>2. Goes(r)
  BY DEF Replay
<1>3. Goes(g)
  <2> HIDE DEF Goes
  <2> QED
    BY <1>1, <1>2
<1>4. Len(e) \in Nat
  OBVIOUS
<1> DEFINE bad == {k \in 0..Len(e) : g[k] # r[k]}
<1>5. bad = {}
  <2> SUFFICES ASSUME bad # {} PROVE FALSE
    OBVIOUS
  <2>1. PICK k \in bad : \A j \in bad : k <= j
    <3>1. bad \in SUBSET Nat
      BY <1>4
    <3> HIDE DEF bad
    <3> QED
      BY <3>1, LeastOne
  <2>2. k \in 0..Len(e) /\ g[k] # r[k]
    OBVIOUS
  <2>3. k # 0
    <3>1. g[0] = m /\ r[0] = m
      BY <1>2, <1>3, <1>4
    <3> QED
      BY <2>2, <3>1
  <2>4. k - 1 \in 0..Len(e) /\ ~(k <= k - 1)
    BY <1>4, <2>2, <2>3
  <2>5. g[k - 1] = r[k - 1]
    <3>1. k - 1 \notin bad
      BY <2>1, <2>4
    <3> QED
      BY <2>4, <3>1
  <2>6. g[k] = Params!Hear(g[k - 1], e[k]) /\ r[k] = Params!Hear(r[k - 1], e[k])
    BY <1>2, <1>3, <2>2, <2>3
  <2> QED
    BY <2>2, <2>5, <2>6
<1>6. \A k \in 0..Len(e) : g[k] = r[k]
  BY <1>5
<1>7. g = [k \in 0..Len(e) |-> g[k]] /\ r = [k \in 0..Len(e) |-> r[k]]
  BY <1>2, <1>3
<1>8. g = r
  <2> HIDE DEF Goes
  <2> QED
    BY <1>6, <1>7
<1> QED
  BY <1>1, <1>8

LEMMA AnnounceHears ==
    ASSUME NEW t \in Params!CallingThreads, Params!Announce(t), op[t] \in CallsInHand, Tells(op[t], mirror, params)
    PROVE  mirror' = Known(params) /\ quirks' = quirks
<1>1. PICK e \in Seq(Entries) : e = op[t].event
  BY CallFields
<1>2. PICK r : Replay(r, mirror, e) /\ r[Len(e)] = Known(params)
  BY <1>1, CallFields DEF Tells
<1>3. PICK g : g = CHOOSE h : h = [k \in 0..Len(e) |-> IF k = 0 THEN mirror ELSE Params!Hear(h[k - 1], e[k])]
  OBVIOUS
<1>4. g = r
  BY <1>2, <1>3, HearsAll
<1>5. /\ mirror' = g[Len(e)]
      /\ quirks' = quirks \cup (IF (\E k \in DOMAIN e : Params!Misfiled(g[k - 1], e[k])) /\ quirks \subseteq {"twice"}
                                THEN {"misfiled"} ELSE {})
  BY <1>1, <1>3 DEF Params!Announce
<1>6. DOMAIN e = 1..Len(e)
  OBVIOUS
<1>7. ~\E k \in DOMAIN e : Params!Misfiled(g[k - 1], e[k])
  BY <1>2, <1>4, <1>6 DEF Replay
<1> QED
  BY <1>2, <1>4, <1>5, <1>7

-----------------------------------------------------------------------------
(* A step of one thread's call preserves the invariant if what the call is   *)
(* left with does.                                                           *)
LEMMA WorkStep ==
    ASSUME FInv, SInv', NEW t \in Params!CallingThreads, NEW o, op' = [op EXCEPT ![t] = o], SourceIsLast',
           quirks \subseteq quirks', "raced" \notin quirks' => Alone(t),
           o # Params!Idle => Begins(o, quirks'),
           quirks' \cap {"raced", "twice", "swapped"} = {} => Obeys(o, Len(onSet'), params', simActive'),
           quirks' \cap {"raced", "undeclared", "swapped"} = {} =>
               "misfiled" \notin quirks' /\ Tells(o, mirror', params')
    PROVE  FInv'
<1>1. op'[t] = o /\ \A u \in Params!CallingThreads \ {t} : op'[u] = op[u]
  BY DEF FInv, SInv, StoreTypeOK
<1>2. CallsBegin'
  <2> SUFFICES ASSUME NEW u \in Params!CallingThreads, op'[u] # Params!Idle PROVE Begins(op'[u], quirks')
    BY DEF CallsBegin
  <2>1. CASE u = t
    BY <1>1, <2>1
  <2>2. CASE u # t
    <3>1. op'[u] = op[u] /\ Begins(op[u], quirks)
      BY <1>1, <2>2 DEF FInv, CallsBegin
    <3> QED
      BY <3>1 DEF Begins
  <2> QED
    BY <2>1, <2>2
<1>3. "raced" \notin quirks' => Alone(t)'
  BY <1>1 DEF Alone
<1>4. ASSUME "raced" \notin quirks', NEW u \in Params!CallingThreads, Alone(u)' PROVE op'[u] = o
  <2>1. CASE u = t
    BY <1>1, <2>1
  <2>2. CASE u # t
    <3>1. op'[t] = Params!Idle /\ op[u] = Params!Idle
      BY <1>4, <2>2 DEF Alone
    <3> QED
      BY <1>1, <2>2, <3>1
  <2> QED
    BY <2>1, <2>2
<1>5. SourceFollows'
  BY <1>4 DEF SourceFollows
<1>6. ReadersFollow'
  BY <1>4 DEF ReadersFollow
<1> QED
  BY <1>2, <1>3, <1>5, <1>6 DEF FInv, OneAtWork

(* A call at work is alone, unless calls overlapped.                         *)
LEMMA WorksAlone ==
    ASSUME FInv, NEW t \in Params!CallingThreads, op[t] # Params!Idle, "raced" \notin quirks
    PROVE  Alone(t)
BY DEF FInv, OneAtWork, Alone

LEMMA RacedIsSeen ==
    ASSUME SInv, NEW t \in Params!CallingThreads, "raced" \notin Params!Raced(t)
    PROVE  Alone(t)
<1> SUFFICES ASSUME NEW u \in Params!CallingThreads \ {t}, op[u] # Params!Idle PROVE FALSE
  BY DEF Alone
<1>1. op[u] \in CallsInHand
  BY DEF SInv, StoreTypeOK
<1>2. Params!Busy(u)
  BY <1>1, CallFields DEF Params!Busy
<1>3. op[u].kind \in Params!Overlapped(t)
  BY <1>2 DEF Params!Overlapped
<1> QED
  BY <1>3 DEF Params!Raced

(* The time source is the last callback.                                     *)
LEMMA SourcePlace ==
    ASSUME SourceIsLast, NEW i \in Nat, i >= 1, i <= Len(onSet)
    PROVE  (onSet[i] = "time_source" => i = Len(onSet)) /\ (onSet[i] = "user" => i < Len(onSet))
<1>1. CASE onSet = <<"time_source">>
  BY <1>1
<1>2. CASE onSet = <<"user", "time_source">>
  <2>1. Len(onSet) = 2 /\ onSet[1] = "user" /\ onSet[2] = "time_source"
    BY <1>2
  <2>2. i = 1 \/ i = 2
    BY <2>1
  <2> QED
    BY <2>1, <2>2
<1> QED
  BY <1>1, <1>2 DEF SourceIsLast

(* A step that neither stores nor asks the time source.                      *)
LEMMA PassiveStep ==
    ASSUME FInv, SInv', NEW t \in Params!CallingThreads, op[t] # Params!Idle, NEW o, op' = [op EXCEPT ![t] = o],
           UNCHANGED <<params, onSet, simActive, mirror, quirks>>,
           ~Asked(op[t], Len(onSet)), op[t].event = <<>>,
           o # Params!Idle => Begins(o, quirks) /\ ~Asked(o, Len(onSet)) /\ o.event = <<>>
    PROVE  FInv'
<1>1. "raced" \notin quirks => Alone(t)
  BY WorksAlone
<1>2. quirks \cap {"raced", "twice", "swapped"} = {} => Obeys(o, Len(onSet), params, simActive)
  <2>1. Obeys(op[t], Len(onSet), params, simActive) <=> Agrees(params, simActive)
    BY FreshObeys
  <2>2. Obeys(o, Len(onSet), params, simActive) <=> Agrees(params, simActive)
    BY FreshObeys
  <2> QED
    BY <1>1, <2>1, <2>2 DEF FInv, SourceFollows
<1>3. quirks \cap {"raced", "undeclared", "swapped"} = {} => "misfiled" \notin quirks /\ Tells(o, mirror, params)
  <2>1. Tells(op[t], mirror, params) <=> mirror = Known(params)
    BY FreshTells
  <2>2. Tells(o, mirror, params) <=> mirror = Known(params)
    BY FreshTells
  <2> QED
    BY <1>1, <2>1, <2>2 DEF FInv, ReadersFollow
<1>4. SourceIsLast'
  BY DEF FInv, SourceIsLast
<1> QED
  BY <1>1, <1>2, <1>3, <1>4, WorkStep

(* The next list of a call begins.                                           *)
LEMMA NextListBegins ==
    ASSUME NEW o \in CallsInHand, o.queue # <<>>, NEW q,
           "twice" \notin q => \A j \in DOMAIN o.queue : ~Params!NamesTwice(o.queue[j]),
           Params!NextList(o) # Params!Idle
    PROVE  /\ Begins(Params!NextList(o), q) /\ Params!NextList(o).event = <<>>
           /\ \A n \in Nat : ~Asked(Params!NextList(o), n)
<1> DEFINE next == [o EXCEPT !.pc = "check", !.queue = Tail(@), !.i = 1, !.event = <<>>]
<1>1. Params!NextList(o) = next /\ Len(o.queue) # 1
  BY DEF Params!NextList
<1>2. next.pc = "check" /\ next.i = 1 /\ next.event = <<>> /\ next.queue = Tail(o.queue)
  BY DEF CallsInHand
<1> HIDE DEF next
<1>3. \A j \in DOMAIN Tail(o.queue) : j + 1 \in DOMAIN o.queue /\ Tail(o.queue)[j] = o.queue[j + 1]
  <2>1. PICK s \in Seq(Seq(Listed)) : s = o.queue
    BY CallFields
  <2>2. Len(s) \in Nat /\ Len(s) # 0 /\ Len(s) # 1
    BY <1>1, <2>1
  <2>3. PICK l \in Nat : l = Len(s)
    BY <2>2
  <2>4. l > 1
    <3>1. l # 0 /\ l # 1
      BY <2>2, <2>3, Zenon
    <3> QED
      BY <3>1
  <2>5. Len(s) > 1
    BY <2>3, <2>4, Zenon
  <2> QED
    BY <2>1, <2>5, TailRest
<1>4. "twice" \notin q => \A j \in DOMAIN next.queue : ~Params!NamesTwice(next.queue[j])
  BY <1>2, <1>3
<1> QED
  BY <1>1, <1>2, <1>4 DEF Begins, Asked

LEMMA RefusedBegins ==
    ASSUME NEW o \in CallsInHand, o.queue # <<>>, NEW q,
           "twice" \notin q => \A j \in DOMAIN o.queue : ~Params!NamesTwice(o.queue[j]),
           Params!Refused(o) # Params!Idle
    PROVE  /\ Begins(Params!Refused(o), q) /\ Params!Refused(o).event = <<>>
           /\ \A n \in Nat : ~Asked(Params!Refused(o), n)
<1>1. Params!Refused(o) = Params!NextList(o)
  BY DEF Params!Refused
<1> QED
  BY <1>1, NextListBegins

(* A list with another head.                                                 *)
LEMMA CutRest ==
    ASSUME NEW S, NEW q \in Seq(S), q # <<>>, NEW x \in S
    PROVE  \A j \in DOMAIN (<<x>> \o Tail(q)) :
               (<<x>> \o Tail(q))[j] = x \/ (j \in DOMAIN q /\ (<<x>> \o Tail(q))[j] = q[j])
<1>1. Tail(q) \in Seq(S) /\ Len(Tail(q)) = Len(q) - 1 /\ \A i \in 1..Len(Tail(q)) : Tail(q)[i] = q[i + 1]
  BY HeadTailProperties
<1>2. PICK r \in Seq(S) : r = Tail(q)
  BY <1>1
<1>3. Len(<<x>> \o r) = Len(r) + 1 /\ (<<x>> \o r)[1] = x /\ DOMAIN (<<x>> \o r) = 1..(Len(r) + 1)
  OBVIOUS
<1>4. ASSUME NEW j \in DOMAIN (<<x>> \o r), j # 1 PROVE j \in DOMAIN q /\ (<<x>> \o r)[j] = q[j]
  <2>1. j - 1 \in 1..Len(r) /\ (<<x>> \o r)[j] = r[j - 1]
    BY <1>3, <1>4
  <2>2. r[j - 1] = q[(j - 1) + 1]
    BY <1>1, <1>2, <2>1
  <2>3. j \in 1..Len(q) /\ (j - 1) + 1 = j
    BY <1>1, <1>2, <2>1
  <2> QED
    BY <2>1, <2>2, <2>3
<1> QED
  BY <1>2, <1>3, <1>4

LEMMA CheckFInv ==
    ASSUME Params!ParametersAssumption, FInv, NEW t \in Params!CallingThreads, Params!Check(t)
    PROVE  FInv'
<1>0. SInv /\ SInv'
  BY CheckSInv DEF FInv
<1>1. PICK o : o = op[t]
  OBVIOUS
<1>2. o \in CallsInHand /\ o.queue # <<>> /\ o.pc = "check" /\ op[t] # Params!Idle /\ o.queue \in Seq(Seq(Listed))
  BY <1>0, <1>1, BusyHasCall, CallFields DEF Params!Check, CallIsSound
<1>3. Begins(o, quirks)
  BY <1>1, <1>2 DEF FInv, CallsBegin
<1>4. PICK its : its \in Params!PreSet(o) /\ Params!CheckList(t, its)
  BY <1>1 DEF Params!Check
<1>5. its \in {Head(o.queue), <<>>} /\ its \in Seq(Listed)
  <2>1. Head(o.queue) \in Seq(Listed) /\ <<>> \in Seq(Listed)
    BY <1>2, HeadTailProperties, EmptySeq
  <2> QED
    BY <1>4, <2>1 DEF Params!PreSet
<1>6. PICK queue : queue = <<its>> \o Tail(o.queue)
  OBVIOUS
<1>7. /\ queue \in Seq(Seq(Listed)) /\ queue # <<>>
      /\ \A j \in DOMAIN queue : queue[j] = its \/ (j \in DOMAIN o.queue /\ queue[j] = o.queue[j])
  <2>1. PICK S : S = Seq(Listed)
    OBVIOUS
  <2>2. PICK q \in Seq(S) : q = o.queue /\ q # <<>>
    BY <1>2, <2>1
  <2>3. its \in S
    BY <1>5, <2>1
  <2>4. <<its>> \o Tail(q) \in Seq(S) /\ <<its>> \o Tail(q) # <<>>
    BY <2>2, <2>3, CutProperties, Zenon
  <2>5. \A j \in DOMAIN (<<its>> \o Tail(q)) :
            (<<its>> \o Tail(q))[j] = its \/ (j \in DOMAIN q /\ (<<its>> \o Tail(q))[j] = q[j])
    BY <2>2, <2>3, CutRest
  <2> QED
    BY <1>6, <2>1, <2>2, <2>4, <2>5, Zenon
<1>8. "twice" \notin quirks => \A j \in DOMAIN queue : ~Params!NamesTwice(queue[j])
  <2> SUFFICES ASSUME "twice" \notin quirks, NEW j \in DOMAIN queue PROVE ~Params!NamesTwice(queue[j])
    OBVIOUS
  <2>1. 1 \in DOMAIN o.queue /\ o.queue[1] = Head(o.queue)
    BY <1>2
  <2>2. ~Params!NamesTwice(<<>>)
    BY DEF Params!NamesTwice
  <2> QED
    BY <1>3, <1>5, <1>7, <2>1, <2>2 DEF Begins
<1>9. PICK cut \in CallsInHand : /\ cut = [o EXCEPT !.queue = <<its>> \o Tail(@)]
                                /\ cut.queue = queue /\ cut.pc = "check" /\ cut.i = o.i /\ cut.event = o.event
  <2>1. [o EXCEPT !.queue = <<its>> \o Tail(@)] = [o EXCEPT !.queue = queue]
    BY <1>6
  <2>2. [o EXCEPT !.queue = queue] \in CallsInHand
    BY <1>2, <1>7 DEF CallsInHand
  <2>3. LET c == [o EXCEPT !.queue = queue] IN c.queue = queue /\ c.pc = "check" /\ c.i = o.i /\ c.event = o.event
    BY <1>2 DEF CallsInHand
  <2> QED
    BY <2>1, <2>2, <2>3
<1>10. PICK descs : op' \in {[op EXCEPT ![t] = Params!NextList(cut)], [op EXCEPT ![t] = Params!Idle],
                             [op EXCEPT ![t] = Params!Refused(cut)],
                             [op EXCEPT ![t] = [cut EXCEPT !.pc = "callbacks", !.descs = descs]]}
  BY <1>1, <1>4, <1>9 DEF Params!CheckList
<1>11. UNCHANGED <<params, onSet, simActive, mirror, quirks>>
  BY <1>4 DEF Params!CheckList
<1>12. Len(onSet) \in Nat /\ Len(onSet) >= 1
  BY DEF FInv, SourceIsLast
<1>13. ~Asked(op[t], Len(onSet)) /\ op[t].event = <<>> /\ o.i = 1
  BY <1>1, <1>2, <1>3 DEF Asked, Begins
<1>14. CASE op' = [op EXCEPT ![t] = Params!NextList(cut)]
  BY <1>0, <1>2, <1>7, <1>8, <1>9, <1>11, <1>12, <1>13, <1>14, NextListBegins, PassiveStep
<1>15. CASE op' = [op EXCEPT ![t] = Params!Idle]
  BY <1>0, <1>2, <1>11, <1>13, <1>15, PassiveStep
<1>16. CASE op' = [op EXCEPT ![t] = Params!Refused(cut)]
  BY <1>0, <1>2, <1>7, <1>8, <1>9, <1>11, <1>12, <1>13, <1>16, RefusedBegins, PassiveStep
<1>17. CASE op' = [op EXCEPT ![t] = [cut EXCEPT !.pc = "callbacks", !.descs = descs]]
  <2>1. PICK next : next = [cut EXCEPT !.pc = "callbacks", !.descs = descs]
    OBVIOUS
  <2>2. next.pc = "callbacks" /\ next.i = 1 /\ next.event = <<>> /\ next.queue = queue
    BY <1>1, <1>9, <1>13, <2>1 DEF CallsInHand
  <2>3. Begins(next, quirks) /\ ~Asked(next, Len(onSet))
    BY <1>8, <1>12, <2>2 DEF Begins, Asked
  <2> QED
    BY <1>0, <1>2, <1>11, <1>13, <1>17, <2>1, <2>2, <2>3, PassiveStep
<1> QED
  BY <1>10, <1>14, <1>15, <1>16, <1>17

(* What the time source says of a list.                                      *)
LEMMA SourceSays ==
    ASSUME NEW its \in Seq(Listed)
    PROVE  /\ (\A k \in DOMAIN its : its[k].name # SimTime) =>
                  Params!on_parameter_event(its) = [ok |-> TRUE, active |-> simActive]
           /\ \A k \in DOMAIN its : its[k].name = SimTime /\ ~Params!NamesTwice(its) =>
                  Params!on_parameter_event(its) =
                      IF its[k].value.type = "bool" THEN [ok |-> TRUE, active |-> its[k].value.v = 1]
                      ELSE [ok |-> FALSE, active |-> simActive]
<1> DEFINE I == {i \in 1..Len(its) : its[i].name = SimTime}
<1>1. PICK first : first = IF I # {} THEN Params!Min(I) ELSE 0
  OBVIOUS
<1>2. Params!on_parameter_event(its) =
        IF first = 0 THEN [ok |-> TRUE, active |-> simActive]
        ELSE IF its[first].value.type = "bool" THEN [ok |-> TRUE, active |-> its[first].value.v = 1]
        ELSE [ok |-> FALSE, active |-> simActive]
  BY <1>1 DEF Params!on_parameter_event, Params!SelectInSeq
<1>3. DOMAIN its = 1..Len(its)
  OBVIOUS
<1>4. ASSUME \A k \in DOMAIN its : its[k].name # SimTime PROVE first = 0
  BY <1>1, <1>3, <1>4
<1>5. ASSUME NEW k \in DOMAIN its, its[k].name = SimTime, ~Params!NamesTwice(its) PROVE first = k /\ k # 0
  <2>1. k \in I
    BY <1>3, <1>5
  <2>2. \A j \in I : j = k
    BY <1>3, <1>5 DEF Params!NamesTwice
  <2>3. I = {k} /\ k \in Nat /\ k # 0
    BY <1>3, <2>1, <2>2
  <2>4. Params!Min({k}) = k
    BY <2>3 DEF Params!Min
  <2> QED
    BY <1>1, <2>3, <2>4
<1> QED
  BY <1>2, <1>4, <1>5

-----------------------------------------------------------------------------
LEMMA CallBackFInv ==
    ASSUME Params!ParametersAssumption, FInv, NEW t \in Params!CallingThreads, Params!CallBack(t)
    PROVE  FInv'
<1>0. SInv /\ SInv'
  BY CallBackSInv DEF FInv
<1>1. PICK o : o = op[t]
  OBVIOUS
<1>2. o \in CallsInHand /\ o.queue # <<>> /\ o.pc = "callbacks" /\ op[t] # Params!Idle /\ o.queue \in Seq(Seq(Listed))
  BY <1>0, <1>1, BusyHasCall, CallFields DEF Params!CallBack, CallIsSound
<1>3. Begins(o, quirks)
  BY <1>1, <1>2 DEF FInv, CallsBegin
<1>4. PICK its \in Seq(Listed) : its = Head(o.queue)
  BY <1>2, HeadTailProperties
<1>5. PICK verdict : verdict = Params!on_parameter_event(its)
  OBVIOUS
<1>6. /\ o.i <= Len(onSet) /\ o.i \in Nat /\ UNCHANGED <<params, onSet, mirror, quirks>>
      /\ \/ /\ onSet[o.i] = "time_source" /\ simActive' = verdict.active
            /\ op' = [op EXCEPT ![t] = IF verdict.ok THEN [o EXCEPT !.i = @ + 1] ELSE Params!Refused(o)]
         \/ /\ onSet[o.i] = "user" /\ simActive' = simActive
            /\ op' \in {[op EXCEPT ![t] = [o EXCEPT !.i = @ + 1]], [op EXCEPT ![t] = Params!Refused(o)]}
  BY <1>1, <1>2, <1>4, <1>5, CallFields DEF Params!CallBack
<1>7. PICK next : next = [o EXCEPT !.i = @ + 1]
  OBVIOUS
<1>8. next.pc = "callbacks" /\ next.i = o.i + 1 /\ next.event = <<>> /\ next.queue = o.queue /\ next \in CallsInHand
  BY <1>2, <1>3, <1>7, Further DEF Begins, CallsInHand
<1>9. Begins(next, quirks) /\ next # Params!Idle
  BY <1>3, <1>6, <1>8, CallFields DEF Begins
<1>10. SourceIsLast /\ SourceIsLast' /\ Len(onSet) \in Nat
  BY <1>6 DEF FInv, SourceIsLast
<1>11. ~Asked(op[t], Len(onSet)) /\ op[t].event = <<>> /\ o.i >= 1
  BY <1>1, <1>2, <1>3, <1>6, <1>10 DEF Asked, Begins
<1>12. "twice" \notin quirks => \A j \in DOMAIN o.queue : ~Params!NamesTwice(o.queue[j])
  BY <1>3 DEF Begins
<1>13. CASE simActive' = simActive /\ op' = [op EXCEPT ![t] = Params!Refused(o)]
  <2>1. Params!Refused(o) # Params!Idle =>
          /\ Begins(Params!Refused(o), quirks) /\ Params!Refused(o).event = <<>>
          /\ ~Asked(Params!Refused(o), Len(onSet))
    BY <1>2, <1>10, <1>12, RefusedBegins
  <2> QED
    BY <1>0, <1>2, <1>6, <1>11, <1>13, <2>1, PassiveStep
<1>14. CASE onSet[o.i] = "user" /\ simActive' = simActive /\ op' = [op EXCEPT ![t] = next]
  <2>1. ~Asked(next, Len(onSet))
    BY <1>6, <1>8, <1>10, <1>11, <1>14, SourcePlace DEF Asked
  <2> QED
    BY <1>0, <1>2, <1>6, <1>8, <1>9, <1>11, <1>14, <2>1, PassiveStep
<1>15. CASE onSet[o.i] = "time_source" /\ verdict.ok /\ simActive' = verdict.active /\ op' = [op EXCEPT ![t] = next]
  <2>1. "raced" \notin quirks => Alone(t)
    BY <1>2, WorksAlone
  <2>2. next.i > Len(onSet)
    BY <1>6, <1>8, <1>10, <1>11, <1>15, SourcePlace
  <2>3. ToCome(next) = {k \in DOMAIN its : its[k].name = SimTime} /\ Asked(next, Len(onSet)) /\ Head(next.queue) = its
    BY <1>4, <1>8, <2>2 DEF ToCome, Asked
  <2>4. ASSUME quirks \cap {"raced", "twice", "swapped"} = {} PROVE Obeys(next, Len(onSet), params, verdict.active)
    <3>1. Agrees(params, simActive)
      <4>1. Obeys(op[t], Len(onSet), params, simActive)
        BY <2>1, <2>4 DEF FInv, SourceFollows
      <4> QED
        BY <1>11, <4>1, FreshObeys
    <3>2. ~Params!NamesTwice(its)
      <4>1. 1 \in DOMAIN o.queue /\ o.queue[1] = its
        BY <1>2, <1>4
      <4> QED
        BY <1>12, <2>4, <4>1
    <3>3. ASSUME ToCome(next) = {} PROVE Agrees(params, verdict.active)
      <4>1. \A k \in DOMAIN its : its[k].name # SimTime
        BY <2>3, <3>3
      <4>2. verdict.active = simActive
        BY <1>5, <4>1, SourceSays
      <4> QED
        BY <3>1, <4>2
    <3>4. ASSUME NEW k \in ToCome(next)
          PROVE  its[k].value.type = "bool" /\ verdict.active = (its[k].value.v = 1)
      <4>1. k \in DOMAIN its /\ its[k].name = SimTime
        BY <2>3, <3>4
      <4>2. verdict = IF its[k].value.type = "bool" THEN [ok |-> TRUE, active |-> its[k].value.v = 1]
                      ELSE [ok |-> FALSE, active |-> simActive]
        BY <1>5, <3>2, <4>1, SourceSays
      <4>3. its[k].value.type = "bool"
        BY <1>15, <4>2
      <4> QED
        BY <4>2, <4>3
    <3> QED
      BY <1>9, <2>3, <3>3, <3>4 DEF Obeys
  <2>5. quirks \cap {"raced", "undeclared", "swapped"} = {} => "misfiled" \notin quirks /\ Tells(next, mirror, params)
    <3>1. Tells(op[t], mirror, params) <=> mirror = Known(params)
      BY <1>11, FreshTells
    <3>2. Tells(next, mirror, params) <=> mirror = Known(params)
      BY <1>8, FreshTells
    <3> QED
      BY <2>1, <3>1, <3>2 DEF FInv, ReadersFollow
  <2> QED
    BY <1>0, <1>6, <1>9, <1>10, <1>15, <2>1, <2>4, <2>5, WorkStep
<1>16. ~verdict.ok => verdict.active = simActive
  BY <1>5 DEF Params!on_parameter_event
<1>17. verdict.ok \in BOOLEAN
  BY <1>5 DEF Params!on_parameter_event
<1> QED
  BY <1>6, <1>7, <1>13, <1>14, <1>15, <1>16, <1>17

LEMMA AcceptedFInv ==
    ASSUME Params!ParametersAssumption, FInv, NEW t \in Params!CallingThreads, Params!Accepted(t)
    PROVE  FInv'
<1>0. SInv /\ SInv'
  BY AcceptedSInv DEF FInv
<1>1. PICK o : o = op[t]
  OBVIOUS
<1>2. o \in CallsInHand /\ o.queue # <<>> /\ o.pc = "callbacks" /\ op[t] # Params!Idle /\ o.queue \in Seq(Seq(Listed))
  BY <1>0, <1>1, BusyHasCall, CallFields DEF Params!Accepted, CallIsSound
<1>3. Begins(o, quirks)
  BY <1>1, <1>2 DEF FInv, CallsBegin
<1>4. PICK next : next = [o EXCEPT !.pc = "store", !.i = 1]
  OBVIOUS
<1>5. /\ op' = [op EXCEPT ![t] = next] /\ o.i > Len(onSet)
      /\ UNCHANGED <<params, onSet, simActive, mirror, quirks>>
  BY <1>1, <1>4 DEF Params!Accepted
<1>6. next.pc = "store" /\ next.i = 1 /\ next.event = o.event /\ next.queue = o.queue /\ next \in CallsInHand
  BY <1>2, <1>4 DEF CallsInHand
<1>7. Begins(next, quirks) /\ next # Params!Idle /\ SourceIsLast'
  BY <1>3, <1>5, <1>6, CallFields DEF Begins, FInv, SourceIsLast
<1>8. "raced" \notin quirks => Alone(t)
  BY <1>2, WorksAlone
<1>9. PICK its \in Seq(Listed) : its = Head(o.queue)
  BY <1>2, HeadTailProperties
<1>10. ToCome(next) = ToCome(o)
  BY <1>2, <1>6, <1>9 DEF ToCome
<1>11. Asked(o, Len(onSet)) /\ Asked(next, Len(onSet))
  BY <1>2, <1>5, <1>6 DEF Asked
<1>12. Obeys(o, Len(onSet), params, simActive) => Obeys(next, Len(onSet), params, simActive)
  BY <1>1, <1>2, <1>6, <1>7, <1>10, <1>11 DEF Obeys
<1>13. Tells(o, mirror, params) => Tells(next, mirror, params)
  BY <1>1, <1>2, <1>6, <1>7 DEF Tells
<1> QED
  BY <1>0, <1>1, <1>5, <1>7, <1>8, <1>12, <1>13, WorkStep DEF FInv, SourceFollows, ReadersFollow

LEMMA AnnounceFInv ==
    ASSUME Params!ParametersAssumption, FInv, NEW t \in Params!CallingThreads, Params!Announce(t)
    PROVE  FInv'
<1>0. SInv /\ SInv'
  BY AnnounceSInv DEF FInv
<1>1. PICK o : o = op[t]
  OBVIOUS
<1>2. o \in CallsInHand /\ o.queue # <<>> /\ o.pc = "announce" /\ op[t] # Params!Idle
  BY <1>0, <1>1, BusyHasCall DEF Params!Announce, CallIsSound
<1>3. Begins(o, quirks)
  BY <1>1, <1>2 DEF FInv, CallsBegin
<1>4. /\ op' = [op EXCEPT ![t] = Params!NextList(o)] /\ UNCHANGED <<params, onSet, simActive>>
      /\ quirks \subseteq quirks' /\ quirks' \subseteq quirks \cup {"misfiled"}
  BY <1>1 DEF Params!Announce
<1>5. PICK next : next = Params!NextList(o)
  OBVIOUS
<1>6. SourceIsLast' /\ Len(onSet) \in Nat
  BY <1>4 DEF FInv, SourceIsLast
<1>7. next # Params!Idle => Begins(next, quirks') /\ next.event = <<>> /\ ~Asked(next, Len(onSet))
  <2>1. "twice" \notin quirks' => \A j \in DOMAIN o.queue : ~Params!NamesTwice(o.queue[j])
    BY <1>3, <1>4 DEF Begins
  <2> QED
    BY <1>2, <1>5, <1>6, <2>1, NextListBegins
<1>8. "raced" \notin quirks => Alone(t)
  BY <1>2, WorksAlone
<1>9. Obeys(o, Len(onSet), params, simActive) => Obeys(next, Len(onSet), params, simActive)
  <2>1. ~Asked(o, Len(onSet))
    BY <1>2 DEF Asked
  <2> QED
    BY <1>7, <2>1, FreshObeys
<1>10. ASSUME quirks' \cap {"raced", "undeclared", "swapped"} = {}
       PROVE  "misfiled" \notin quirks' /\ Tells(next, mirror', params)
  <2>1. "misfiled" \notin quirks /\ Tells(op[t], mirror, params)
    BY <1>4, <1>8, <1>10 DEF FInv, ReadersFollow
  <2>2. mirror' = Known(params) /\ quirks' = quirks
    BY <1>1, <1>2, <2>1, AnnounceHears
  <2> QED
    BY <1>7, <2>1, <2>2, FreshTells
<1>11. ASSUME quirks' \cap {"raced", "twice", "swapped"} = {} PROVE Obeys(next, Len(onSet), params, simActive)
  <2>1. Obeys(o, Len(onSet), params, simActive)
    BY <1>1, <1>4, <1>8, <1>11 DEF FInv, SourceFollows
  <2> QED
    BY <1>9, <2>1
<1> QED
  BY <1>0, <1>4, <1>5, <1>6, <1>7, <1>8, <1>10, <1>11, WorkStep

-----------------------------------------------------------------------------
(* What is known of a store with one more value, or one less.                *)
LEMMA KnownStore ==
    ASSUME NEW f \in ValueMaps, NEW n \in ParamNames, NEW v \in Params!Values
    PROVE  /\ v.type = "not_set" => Known(Params!With(f, n, v)) = Params!Without(Known(f), n)
           /\ v.type # "not_set" => Known(Params!With(f, n, v)) = Params!With(Known(f), n, v)
           /\ Known(Params!Without(f, n)) = Params!Without(Known(f), n)
           /\ n \in DOMAIN Known(f) <=> n \in DOMAIN f /\ f[n].type # "not_set"
<1> DEFINE S == {m \in DOMAIN f : f[m].type # "not_set"}
           g == Params!With(f, n, v)
           h == Params!Without(f, n)
<1>1. Known(f) = [m \in S |-> f[m]]
  BY DEF Known, Params!Restrict
<1>2. /\ DOMAIN g = DOMAIN f \cup {n} /\ g[n] = v /\ \A m \in DOMAIN f \ {n} : g[m] = f[m]
      /\ DOMAIN h = DOMAIN f \ {n} /\ \A m \in DOMAIN f \ {n} : h[m] = f[m]
  BY DEF Params!With, Params!Without, Params!Restrict
<1> HIDE DEF g, h
<1>3. Known(g) = [m \in {m \in DOMAIN g : g[m].type # "not_set"} |-> g[m]]
  BY DEF Known, Params!Restrict
<1>4. Known(h) = [m \in {m \in DOMAIN h : h[m].type # "not_set"} |-> h[m]]
  BY DEF Known, Params!Restrict
<1>5. Params!Without(Known(f), n) = [m \in S \ {n} |-> f[m]]
  BY <1>1 DEF Params!Without, Params!Restrict
<1>6. Params!With(Known(f), n, v) = [m \in S \cup {n} |-> IF m = n THEN v ELSE f[m]]
  BY <1>1 DEF Params!With
<1>7. ASSUME v.type = "not_set" PROVE Known(g) = Params!Without(Known(f), n)
  <2>1. {m \in DOMAIN g : g[m].type # "not_set"} = S \ {n}
    BY <1>2, <1>7
  <2> QED
    BY <1>2, <1>3, <1>5, <2>1
<1>8. ASSUME v.type # "not_set" PROVE Known(g) = Params!With(Known(f), n, v)
  <2>1. {m \in DOMAIN g : g[m].type # "not_set"} = S \cup {n}
    BY <1>2, <1>8
  <2> QED
    BY <1>2, <1>3, <1>6, <2>1
<1>9. Known(h) = Params!Without(Known(f), n)
  <2>1. {m \in DOMAIN h : h[m].type # "not_set"} = S \ {n}
    BY <1>2
  <2> QED
    BY <1>2, <1>4, <1>5, <2>1
<1>10. DOMAIN Known(f) = S
  BY <1>1
<1> QED
  BY <1>7, <1>8, <1>9, <1>10 DEF g, h

LEMMA StoreFInv ==
    ASSUME Params!ParametersAssumption, FInv, NEW t \in Params!CallingThreads, Params!Store(t)
    PROVE  FInv'
<1>0. SInv /\ SInv'
  BY StoreSInv DEF FInv
<1>1. PICK o : o = op[t]
  OBVIOUS
<1>2. /\ o \in CallsInHand /\ o.queue # <<>> /\ o.pc = "store" /\ op[t] # Params!Idle
      /\ o.queue \in Seq(Seq(Listed)) /\ o.i \in Nat
  BY <1>0, <1>1, BusyHasCall, CallFields DEF Params!Store, CallIsSound
<1>3. Begins(o, quirks)
  BY <1>1, <1>2 DEF FInv, CallsBegin
<1>4. PICK its \in Seq(Listed) : its = Head(o.queue) /\ o.i \in DOMAIN its
  BY <1>0, <1>1, <1>2, BusyHasCall, HeadTailProperties DEF CallIsSound
<1>5. PICK n \in ParamNames, value \in Params!Values : n = its[o.i].name /\ value = its[o.i].value
  <2>1. PICK parameter \in Listed : parameter = its[o.i]
    BY <1>4
  <2> QED
    BY <2>1 DEF Listed
<1>6. PICK deleted : deleted = (o.kind # "declare" /\ value.type = "not_set")
  OBVIOUS
<1>7. PICK filed : filed = IF deleted THEN "deleted"
                           ELSE IF Params!get_parameter_or(n, Params!NotSet) = Params!NotSet THEN "new" ELSE "changed"
  OBVIOUS
<1>8. PICK entry : entry = [in |-> filed, name |-> n, value |-> value]
  OBVIOUS
<1>9. entry \in Entries /\ entry.in = filed /\ entry.name = n /\ entry.value = value
  BY <1>5, <1>7, <1>8 DEF Entries
<1>10. PICK stored : stored = [o EXCEPT !.event = Append(@, entry)]
  OBVIOUS
<1>11. /\ params' = IF deleted THEN Params!Without(params, n) ELSE Params!With(params, n, value)
       /\ op' = [op EXCEPT ![t] = IF o.i < Len(its) THEN [stored EXCEPT !.i = @ + 1] ELSE [stored EXCEPT !.pc = "announce"]]
       /\ UNCHANGED <<onSet, simActive, mirror, quirks>>
  BY <1>1, <1>4, <1>5, <1>6, <1>7, <1>8, <1>10 DEF Params!Store
<1>12. /\ stored \in CallsInHand /\ stored.event = Append(o.event, entry) /\ stored.pc = "store" /\ stored.i = o.i
       /\ stored.queue = o.queue
  <2>1. Append(o.event, entry) \in Seq(Entries)
    BY <1>2, <1>9, CallFields
  <2> QED
    BY <1>2, <1>10, <2>1 DEF CallsInHand
<1>13. PICK next \in CallsInHand :
         /\ op' = [op EXCEPT ![t] = next] /\ next.event = stored.event /\ next.queue = o.queue
         /\ \/ o.i < Len(its) /\ next.pc = "store" /\ next.i = o.i + 1
            \/ o.i = Len(its) /\ next.pc = "announce" /\ next.i = o.i
  <2>1. CASE o.i < Len(its)
    <3>1. PICK more : more = [stored EXCEPT !.i = @ + 1]
      OBVIOUS
    <3>2. /\ more \in CallsInHand /\ more.event = stored.event /\ more.queue = o.queue /\ more.pc = "store"
          /\ more.i = o.i + 1
      <4>1. /\ more \in CallsInHand /\ more.i = stored.i + 1 /\ more.pc = stored.pc /\ more.queue = stored.queue
        BY <1>12, <3>1, Further
      <4>2. more.event = stored.event
        BY <1>12, <3>1 DEF CallsInHand
      <4> QED
        BY <1>12, <4>1, <4>2
    <3> QED
      BY <1>11, <2>1, <3>1, <3>2
  <2>2. CASE ~(o.i < Len(its))
    <3>1. PICK last : last = [stored EXCEPT !.pc = "announce"]
      OBVIOUS
    <3>2. /\ last \in CallsInHand /\ last.event = stored.event /\ last.queue = o.queue /\ last.pc = "announce"
          /\ last.i = o.i
      BY <1>2, <1>12, <3>1 DEF CallsInHand
    <3>3. o.i = Len(its)
      BY <1>4, <2>2
    <3> QED
      BY <1>11, <2>2, <3>1, <3>2, <3>3
  <2> QED
    BY <2>1, <2>2
<1>14. Begins(next, quirks) /\ next # Params!Idle /\ SourceIsLast' /\ Len(onSet) \in Nat
  BY <1>2, <1>3, <1>11, <1>13, CallFields DEF Begins, FInv, SourceIsLast
<1>15. "raced" \notin quirks => Alone(t)
  BY <1>2, WorksAlone
<1>16. params \in ValueMaps /\ params \in [DOMAIN params -> Params!Values]
  BY <1>0, MapTypes DEF SInv, StoreTypeOK
<1>17. ASSUME quirks \cap {"raced", "undeclared", "swapped"} = {}
       PROVE  "misfiled" \notin quirks /\ Tells(next, mirror, params')
  <2>1. "misfiled" \notin quirks /\ Tells(o, mirror, params)
    BY <1>1, <1>15, <1>17 DEF FInv, ReadersFollow
  <2>2. ~Params!Misfiled(Known(params), entry)
    <3>1. n \in DOMAIN Known(params) <=> n \in DOMAIN params /\ params[n].type # "not_set"
      BY <1>5, <1>16, KnownStore
    <3>2. ~deleted => (filed = "new" <=> ~(n \in DOMAIN params /\ params[n].type # "not_set"))
      BY <1>7 DEF Params!get_parameter_or, Params!has_parameter, Params!NotSet, Params!Value
    <3>3. filed \in {"new", "changed", "deleted"} /\ (deleted => filed = "deleted")
      BY <1>7
    <3>4. deleted \in BOOLEAN
      BY <1>6
    <3>5. ~deleted => filed \in {"new", "changed"}
      BY <1>7
    <3> QED
      BY <1>9, <3>1, <3>2, <3>3, <3>4, <3>5 DEF Params!Misfiled
  <2>3. Known(params') = Params!Hear(Known(params), entry)
    <3>1. CASE value.type = "not_set"
      <4>1. Params!Hear(Known(params), entry) = Params!Without(Known(params), n)
        BY <1>9, <3>1 DEF Params!Hear
      <4> QED
        BY <1>5, <1>11, <1>16, <3>1, <4>1, KnownStore
    <3>2. CASE value.type # "not_set"
      <4>1. Params!Hear(Known(params), entry) = Params!With(Known(params), n, value) /\ ~deleted
        BY <1>6, <1>9, <3>2 DEF Params!Hear
      <4> QED
        BY <1>5, <1>11, <1>16, <3>2, <4>1, KnownStore
    <3> QED
      BY <3>1, <3>2
  <2>4. next.event = Append(o.event, entry)
    BY <1>12, <1>13
  <2>5. PICK g : g = params'
    OBVIOUS
  <2>6. Tells(next, mirror, g)
    BY <1>2, <1>9, <1>13, <2>1, <2>2, <2>3, <2>4, <2>5, TellsOn
  <2> QED
    BY <2>1, <2>5, <2>6
<1>18. ASSUME quirks \cap {"raced", "twice", "swapped"} = {} PROVE Obeys(next, Len(onSet), params', simActive)
  <2>1. ~Params!NamesTwice(its)
    <3>1. 1 \in DOMAIN o.queue /\ o.queue[1] = its
      BY <1>2, <1>4
    <3> QED
      BY <1>3, <1>18, <3>1 DEF Begins
  <2>2. Obeys(o, Len(onSet), params, simActive)
    BY <1>1, <1>15, <1>18 DEF FInv, SourceFollows
  <2>3. ToCome(o) = {k \in DOMAIN its : its[k].name = SimTime /\ k >= o.i}
    BY <1>2, <1>4 DEF ToCome
  <2>4. /\ ToCome(o) = {} => Agrees(params, simActive)
        /\ \A k \in ToCome(o) : its[k].value.type = "bool" /\ simActive = (its[k].value.v = 1)
    BY <1>1, <1>2, <1>4, <2>2 DEF Obeys, Asked
  <2>5. PICK g : g = params'
    OBVIOUS
  <2>6. n # SimTime /\ Agrees(params, simActive) => Agrees(g, simActive)
    BY <1>11, <1>16, <2>5 DEF Agrees, Params!With, Params!Without, Params!Restrict
  <2>7. CASE n = SimTime
    <3>1. o.i \in ToCome(o)
      BY <1>2, <1>4, <1>5, <2>3, <2>7
    <3>2. value.type = "bool" /\ simActive = (value.v = 1) /\ ~deleted
      BY <1>5, <1>6, <2>4, <3>1
    <3>3. Agrees(g, simActive)
      BY <1>11, <2>5, <2>7, <3>2 DEF Agrees, Params!With
    <3>4. \A k \in DOMAIN its : its[k].name = SimTime => k = o.i
      BY <1>4, <1>5, <2>1, <2>7 DEF Params!NamesTwice
    <3>5. next.pc = "store" => ToCome(next) = {}
      BY <1>2, <1>4, <1>13, <3>4 DEF ToCome
    <3> QED
      BY <1>13, <1>14, <2>5, <3>3, <3>5 DEF Obeys, Asked
  <2>8. CASE n # SimTime
    <3>1. CASE next.pc = "store"
      <4>1. ToCome(next) = ToCome(o)
        <5>1. ToCome(next) = {k \in DOMAIN its : its[k].name = SimTime /\ k >= o.i + 1}
          BY <1>4, <1>13, <3>1 DEF ToCome
        <5>2. \A k \in DOMAIN its : its[k].name = SimTime => (k >= o.i <=> k >= o.i + 1)
          BY <1>2, <1>4, <1>5, <2>8
        <5> QED
          BY <2>3, <5>1, <5>2
      <4> QED
        BY <1>4, <1>13, <1>14, <2>4, <2>5, <2>6, <2>8, <3>1, <4>1 DEF Obeys, Asked
    <3>2. CASE next.pc = "announce"
      <4>1. ToCome(o) = {}
        <5>1. o.i = Len(its)
          BY <1>13, <3>2
        <5>2. \A k \in DOMAIN its : k >= o.i => k = o.i
          BY <1>4, <5>1
        <5> QED
          BY <1>5, <2>3, <2>8, <5>2
      <4> QED
        BY <2>4, <2>5, <2>6, <2>8, <3>2, <4>1 DEF Obeys, Asked
    <3> QED
      BY <1>13, <3>1, <3>2
  <2> QED
    BY <2>7, <2>8
<1> QED
  BY <1>0, <1>11, <1>13, <1>14, <1>15, <1>17, <1>18, WorkStep

-----------------------------------------------------------------------------
(* Whoever starts a call has none; unless calls overlap, nobody is at work.  *)
LEMMA StartsIdle ==
    ASSUME SInv, NEW t \in Params!CallingThreads, NEW kind, Params!MayStart(t, kind)
    PROVE  op[t] = Params!Idle
BY CallFields DEF Params!MayStart, Params!Busy, SInv, StoreTypeOK

LEMMA EnterFInv ==
    ASSUME FInv, SInv', NEW t \in Params!CallingThreads, NEW kind, NEW queue, NEW descs,
           Params!Enter(t, kind, queue, descs)
    PROVE  FInv'
<1> DEFINE o == [pc |-> "check", kind |-> kind, queue |-> queue, descs |-> descs, i |-> 1, event |-> <<>>]
<1>0. SInv
  BY DEF FInv
<1>1. /\ op' = [op EXCEPT ![t] = o] /\ UNCHANGED <<params, onSet, simActive, mirror>>
      /\ quirks' = quirks \cup Params!Raced(t)
                     \cup (IF \E j \in DOMAIN queue : Params!NamesTwice(queue[j]) THEN {"twice"} ELSE {})
  BY DEF Params!Enter
<1>2. o.pc = "check" /\ o.i = 1 /\ o.event = <<>> /\ o.queue = queue
  OBVIOUS
<1> HIDE DEF o
<1>3. Begins(o, quirks') /\ \A n \in Nat : ~Asked(o, n)
  BY <1>1, <1>2 DEF Begins, Asked
<1>4. SourceIsLast' /\ Len(onSet) \in Nat
  BY <1>1 DEF FInv, SourceIsLast
<1>5. "raced" \notin quirks' => Alone(t)
  BY <1>0, <1>1, RacedIsSeen
<1>6. op[t] = Params!Idle
  BY <1>0, StartsIdle DEF Params!Enter
<1>7. quirks \subseteq quirks' /\ ("misfiled" \in quirks' => "misfiled" \in quirks)
  BY <1>1 DEF Params!Raced
<1>8. ASSUME quirks' \cap {"raced", "twice", "swapped"} = {} PROVE Obeys(o, Len(onSet), params, simActive)
  <2>1. Obeys(op[t], Len(onSet), params, simActive)
    BY <1>5, <1>7, <1>8 DEF FInv, SourceFollows
  <2>2. Agrees(params, simActive)
    BY <1>6, <2>1, FreshObeys
  <2> QED
    BY <1>3, <1>4, <2>2, FreshObeys
<1>9. ASSUME quirks' \cap {"raced", "undeclared", "swapped"} = {}
      PROVE  "misfiled" \notin quirks' /\ Tells(o, mirror, params)
  <2>1. "misfiled" \notin quirks /\ Tells(op[t], mirror, params)
    BY <1>5, <1>7, <1>9 DEF FInv, ReadersFollow
  <2>2. mirror = Known(params)
    BY <1>6, <2>1, FreshTells
  <2> QED
    BY <1>2, <1>7, <2>1, <2>2, FreshTells
<1> QED
  BY <1>1, <1>3, <1>4, <1>5, <1>7, <1>8, <1>9, WorkStep

LEMMA SetFInv ==
    ASSUME Params!ParametersAssumption, FInv,
           NEW t \in Params!CallingThreads, Params!set_parameters(t) \/ Params!set_parameters_atomically(t)
    PROVE  FInv'
<1>1. SInv'
  BY SetSInv DEF FInv
<1>2. \E kind, queue, descs : Params!Enter(t, kind, queue, descs)
  BY DEF Params!set_parameters, Params!set_parameters_atomically
<1> QED
  BY <1>1, <1>2, EnterFInv

LEMMA DeclareFInv ==
    ASSUME Params!ParametersAssumption, FInv, Params!declare_parameters(User)
    PROVE  FInv'
<1>1. SInv'
  BY DeclareSInv DEF FInv
<1>2. \E kind, queue, descs : Params!Enter(User, kind, queue, descs)
  BY DEF Params!declare_parameters
<1>3. User \in Params!CallingThreads
  BY DEF Params!CallingThreads
<1> QED
  BY <1>1, <1>2, <1>3, EnterFInv

(* A call that takes one step: if it leaves a value of use_sim_time, it is   *)
(* the one the time source knows, and it is recorded when it publishes       *)
(* nothing of what it does.                                                  *)
LEMMA OneStepFInv ==
    ASSUME FInv, SInv', SourceIsLast', NEW kind, Params!OneStep(User, kind),
           quirks \cup Params!Raced(User) \subseteq quirks', "misfiled" \in quirks' => "misfiled" \in quirks,
           "swapped" \notin quirks' /\ Agrees(params, simActive) => Agrees(params', simActive),
           quirks' \cap {"undeclared", "swapped"} = {} => params' = params
    PROVE  FInv'
<1>0. SInv
  BY DEF FInv
<1>1. op' = op /\ UNCHANGED <<mirror, simActive>> /\ User \in Params!CallingThreads
  BY DEF Params!OneStep, Params!CallingThreads
<1>2. op[User] = Params!Idle
  BY <1>0, <1>1, StartsIdle DEF Params!OneStep
<1>3. "raced" \notin quirks' => Alone(User)
  BY <1>0, <1>1, RacedIsSeen
<1>4. op' = [op EXCEPT ![User] = Params!Idle]
  BY <1>0, <1>1, <1>2 DEF SInv, StoreTypeOK
<1>5. ASSUME quirks' \cap {"raced", "twice", "swapped"} = {}
      PROVE  Obeys(Params!Idle, Len(onSet'), params', simActive')
  <2>1. Obeys(Params!Idle, Len(onSet), params, simActive)
    BY <1>1, <1>2, <1>3, <1>5 DEF FInv, SourceFollows
  <2>2. Agrees(params, simActive)
    BY <2>1, FreshObeys
  <2>3. Agrees(params', simActive')
    BY <1>1, <1>5, <2>2
  <2> QED
    BY <2>3 DEF Obeys
<1>6. ASSUME quirks' \cap {"raced", "undeclared", "swapped"} = {}
      PROVE  "misfiled" \notin quirks' /\ Tells(Params!Idle, mirror', params')
  BY <1>1, <1>2, <1>3, <1>6 DEF FInv, ReadersFollow
<1>7. PICK o : o = Params!Idle
  OBVIOUS
<1>8. o # Params!Idle => Begins(o, quirks')
  BY <1>7
<1> QED
  BY <1>1, <1>3, <1>4, <1>5, <1>6, <1>7, <1>8, WorkStep

LEMMA UndeclareFInv ==
    ASSUME FInv, Params!undeclare_parameter(User)
    PROVE  FInv'
<1>1. SInv'
  BY UndeclareSInv DEF FInv
<1>2. PICK n : params' = Params!Without(params, n)
  BY DEF Params!undeclare_parameter
<1>3. /\ Params!OneStep(User, "describe") /\ UNCHANGED onSet
      /\ quirks' = quirks \cup Params!Raced(User) \cup {"undeclared"}
  BY DEF Params!undeclare_parameter
<1>4. Agrees(params, simActive) => Agrees(params', simActive)
  BY <1>2 DEF Agrees, Params!Without, Params!Restrict
<1>5. SourceIsLast' /\ ("misfiled" \in quirks' => "misfiled" \in quirks)
  BY <1>3 DEF FInv, SourceIsLast, Params!Raced
<1> QED
  BY <1>1, <1>3, <1>4, <1>5, OneStepFInv

LEMMA DescribeFInv ==
    ASSUME Params!ParametersAssumption, FInv, Params!set_descriptor(User)
    PROVE  FInv'
<1>1. SInv'
  BY DescribeSInv DEF FInv
<1>2. PICK n, chosen :
        /\ n \in DOMAIN params /\ Params!get_parameter(n).type # "raises"
        /\ params' = [params EXCEPT ![n] = chosen]
        /\ quirks' = quirks \cup Params!Raced(User)
                       \cup (IF chosen = Params!get_parameter(n) THEN {} ELSE {"swapped"})
  BY DEF Params!set_descriptor
<1>3. Params!OneStep(User, "describe") /\ UNCHANGED onSet
  BY DEF Params!set_descriptor
<1>4. Params!get_parameter(n) = params[n]
  BY <1>2 DEF Params!get_parameter, Params!has_parameter, Params!Value
<1>5. "swapped" \notin quirks' => params' = params
  <2>1. params \in [DOMAIN params -> Params!Values]
    BY MapTypes DEF FInv, SInv, StoreTypeOK
  <2> QED
    BY <1>2, <1>4, <2>1
<1>6. SourceIsLast' /\ ("misfiled" \in quirks' => "misfiled" \in quirks)
  BY <1>2, <1>3 DEF FInv, SourceIsLast, Params!Raced
<1> QED
  BY <1>1, <1>2, <1>3, <1>5, <1>6, OneStepFInv

LEMMA Pairs ==
    ASSUME NEW a, NEW b
    PROVE  /\ <<a>> \o <<b>> = <<a, b>> /\ <<>> \o <<b>> = <<b>>
           /\ SubSeq(<<a, b>>, 2, 2) = <<b>>
<1>1. PICK S : a \in S /\ b \in S
  <2>1. a \in {a, b} /\ b \in {a, b}
    OBVIOUS
  <2> QED
    BY <2>1
<1>2. <<a>> \in Seq(S) /\ <<b>> \in Seq(S) /\ <<a, b>> \in Seq(S)
  BY <1>1
<1>3. PICK s \in Seq(S), t \in Seq(S), both \in Seq(S) : s = <<a>> /\ t = <<b>> /\ both = <<a, b>>
  BY <1>2
<1>4. /\ Len(s) = 1 /\ s[1] = a /\ Len(t) = 1 /\ t[1] = b
      /\ Len(both) = 2 /\ both[1] = a /\ both[2] = b
  BY <1>3
<1>5. s \o t = both
  <2>1. PICK c : c = s \o t
    OBVIOUS
  <2>2. c \in Seq(S) /\ Len(c) = Len(s) + Len(t)
        /\ \A i \in 1..(Len(s) + Len(t)) : c[i] = IF i <= Len(s) THEN s[i] ELSE t[i - Len(s)]
    BY <2>1, ConcatProperties, Zenon
  <2>3. Len(c) = 2 /\ c[1] = both[1] /\ c[2] = both[2]
    BY <1>4, <2>2
  <2>4. \A i \in 1..Len(c) : c[i] = both[i]
    BY <2>3
  <2> QED
    BY <1>4, <2>1, <2>2, <2>3, <2>4, SeqEqual
<1>6. SubSeq(both, 2, 2) = t
  <2>1. PICK c : c = SubSeq(both, 2, 2)
    OBVIOUS
  <2>2. c \in Seq(S) /\ Len(c) = 1 /\ \A i \in 1..1 : c[i] = both[2 + i - 1]
    <3>1. \A i \in 2..2 : both[i] \in S
      BY <1>1, <1>4
    <3> QED
      BY <2>1, <3>1, SubSeqProperties
  <2>3. c[1] = t[1]
    BY <1>4, <2>2
  <2> QED
    BY <1>4, <2>1, <2>2, <2>3, SeqEqual
<1>7. <<>> \o t = t
  BY ConcatEmptySeq
<1> QED
  BY <1>3, <1>5, <1>6, <1>7

LEMMA RegisterFInv ==
    ASSUME FInv, Params!Register
    PROVE  FInv'
<1>1. SInv'
  BY RegisterSInv DEF FInv
<1>2. /\ Params!OneStep(User, "register") /\ UNCHANGED params /\ quirks' = quirks \cup Params!Raced(User)
  BY DEF Params!Register, Params!add_on_set_parameters_callback, Params!remove_on_set_parameters_callback
<1>3. SourceIsLast'
  <2>1. CASE Params!add_on_set_parameters_callback(User)
    <3>1. onSet = <<"time_source">>
      BY <2>1 DEF Params!add_on_set_parameters_callback, FInv, SourceIsLast
    <3>2. onSet' = <<"user">> \o onSet
      BY <2>1 DEF Params!add_on_set_parameters_callback
    <3> QED
      BY <3>1, <3>2, Pairs DEF SourceIsLast
  <2>2. CASE Params!remove_on_set_parameters_callback(User)
    <3>1. onSet = <<"user", "time_source">>
      BY <2>2 DEF Params!remove_on_set_parameters_callback, FInv, SourceIsLast, Params!ToSet
    <3>2. onSet' = Params!RemoveFirst(onSet, "user")
      BY <2>2 DEF Params!remove_on_set_parameters_callback
    <3> DEFINE I == {i \in 1..Len(onSet) : onSet[i] = "user"}
    <3>3. I = {1}
      BY <3>1
    <3>4. Params!Min(I) = 1
      BY <3>3 DEF Params!Min
    <3>5. onSet' = SubSeq(onSet, 1, 1 - 1) \o SubSeq(onSet, 1 + 1, Len(onSet))
      <4>1. PICK i : i = IF I # {} THEN Params!Min(I) ELSE 0
        OBVIOUS
      <4>2. i = 1
        BY <3>3, <3>4, <4>1
      <4>3. \E k \in 1..Len(onSet) : onSet[k] = "user"
        BY <3>3
      <4>4. onSet' = SubSeq(onSet, 1, i - 1) \o SubSeq(onSet, i + 1, Len(onSet))
        BY <3>2, <4>1, <4>3 DEF Params!RemoveFirst, Params!RemoveAt, Params!SelectInSeq
      <4> QED
        BY <4>2, <4>4
    <3>6. Len(onSet) = 2 /\ 1 - 1 = 0 /\ 1 + 1 = 2
      BY <3>1
    <3>7. SubSeq(onSet, 1, 0) = <<>>
      BY SubSeqEmpty
    <3>8. onSet' = <<>> \o SubSeq(onSet, 2, 2)
      BY <3>5, <3>6, <3>7
    <3> QED
      BY <3>1, <3>8, Pairs DEF SourceIsLast
  <2> QED
    BY <2>1, <2>2 DEF Params!Register
<1>4. "misfiled" \in quirks' => "misfiled" \in quirks
  BY <1>2 DEF Params!Raced
<1> QED
  BY <1>1, <1>2, <1>3, <1>4, OneStepFInv

LEMMA InitFInv == ASSUME Params!ParametersAssumption PROVE Params!Init => FInv
<1> SUFFICES ASSUME Params!Init PROVE FInv
  OBVIOUS
<1>1. PICK sim : /\ params = [x \in {SimTime} |-> sim] /\ mirror = params /\ simActive = (sim.v = 1)
                 /\ sim = IF SimTime \in DOMAIN Overrides THEN Overrides[SimTime] ELSE Params!Value("bool", 0)
  BY DEF Params!Init
<1>2. sim.type = "bool"
  BY <1>1 DEF Params!Value, Params!ParametersAssumption
<1>3. op = [t \in Params!CallingThreads |-> Params!Idle] /\ onSet = <<"time_source">> /\ quirks = {}
  BY DEF Params!Init
<1>4. Agrees(params, simActive) /\ mirror = Known(params)
  BY <1>1, <1>2 DEF Agrees, Known, Params!Restrict
<1>5. \A t \in Params!CallingThreads : op[t] = Params!Idle
  BY <1>3
<1>6. OneAtWork /\ CallsBegin /\ SourceIsLast
  BY <1>3, <1>5 DEF OneAtWork, CallsBegin, SourceIsLast, Alone, Params!CallingThreads
<1>7. SourceFollows
  BY <1>4, <1>5 DEF SourceFollows, Obeys
<1>8. ReadersFollow
  BY <1>3, <1>4, <1>5 DEF ReadersFollow, Tells
<1> QED
  BY <1>6, <1>7, <1>8, InitSInv DEF FInv

LEMMA NextFInv == ASSUME Params!ParametersAssumption, FInv, Params!Next PROVE FInv'
<1>1. CASE Params!Declare
  BY <1>1, DeclareFInv DEF Params!Declare
<1>2. CASE Params!Set
  BY <1>2, SetFInv DEF Params!Set
<1>3. CASE Params!Run
  BY <1>3, CheckFInv, CallBackFInv, AcceptedFInv, StoreFInv, AnnounceFInv DEF Params!Run
<1>4. CASE Params!Describe
  BY <1>4, UndeclareFInv, DescribeFInv DEF Params!Describe
<1>5. CASE Params!Register
  BY <1>5, RegisterFInv
<1> QED
  BY <1>1, <1>2, <1>3, <1>4, <1>5 DEF Params!Next

(* The invariant of those who follow the parameters holds in every           *)
(* reachable state.                                                          *)
THEOREM FollowersInvariance == ASSUME Params!ParametersAssumption PROVE Params!Spec => []FInv
<1>1. FInv /\ UNCHANGED Params!vars => FInv'
  BY DEF FInv, SInv, Params!vars, StoreTypeOK, CallsAreSound, CallIsSound, Checked, Own, DeclaresAlone, StoreFits,
     CallsBegin, OneAtWork, SourceIsLast, SourceFollows, ReadersFollow, Alone
<1> QED
  BY <1>1, InitFInv, NextFInv, PTL DEF Params!Spec

(* The time source and the readers of /parameter_events agree with the       *)
(* parameters whenever no call is at work (time_source.py:125-143,           *)
(* node.py:820-944).                                                         *)
THEOREM ListenersFollow ==
    ASSUME Params!ParametersAssumption PROVE Params!Spec => []Params!ListenersFollowTheStore
<1>1. FInv => Params!ListenersFollowTheStore
  <2> SUFFICES ASSUME FInv PROVE Params!TimeSourceFollows /\ Params!EventsTellTheStore
    BY DEF Params!ListenersFollowTheStore
  <2>1. User \in Params!CallingThreads
    BY DEF Params!CallingThreads
  <2>2. Params!Quiet => Alone(User) /\ op[User] = Params!Idle
    BY CallFields DEF Params!Quiet, Params!Busy, Alone, FInv, SInv, StoreTypeOK, Params!CallingThreads
  <2>3. Params!TimeSourceFollows
    BY <2>1, <2>2 DEF Params!TimeSourceFollows, Params!Sequential, Params!has_parameter, FInv, SourceFollows, Obeys, Agrees
  <2>4. Params!EventsTellTheStore
    BY <2>1, <2>2 DEF Params!EventsTellTheStore, Params!Sequential, FInv, ReadersFollow, Tells, Known
  <2> QED
    BY <2>3, <2>4
<1> QED
  BY <1>1, FollowersInvariance, PTL
=============================================================================
