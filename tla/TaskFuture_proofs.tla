--------------------------- MODULE TaskFuture_proofs ---------------------------
(***************************************************************************)
(* Proofs about futures and tasks: no task is run by two threads, and each *)
(* is owed one resumption at a time, for any futures, tasks, callbacks,    *)
(* programs, workers and application threads.                              *)
(***************************************************************************)
EXTENDS TaskFuture, SequenceTheorems, FiniteSetTheorems, TLAPS

InCallLabels == {"run", "yielded", "settle", "leave", "release"}
WorkerLabels == {"idle", "called"} \cup InCallLabels
States == {"PENDING", "FINISHED", "CANCELLED"}

TypeOK ==
    /\ state \in [Awaitable \cup Callbacks -> States]
    /\ callbacks \in [Awaitable -> Seq(Runnable)]
    /\ executing \in [Runnable -> BOOLEAN]
    /\ taskLock \in [Runnable -> Workers \cup {None}]
    /\ pos \in [Runnable -> Nat]
    /\ waitingOn \in [Runnable -> Awaitable \cup {None}]
    /\ ready \in Seq(Runnable) /\ pool \in Seq(Runnable)
    /\ wpc \in [Workers -> WorkerLabels]
    /\ wtask \in [Workers -> Runnable \cup {None}]
    /\ xpc \in [Externals -> {"start", "settle", "cancel", "cancelling", "done"}]
    /\ xfut \in [Externals -> Awaitable \cup {None}]
    /\ scheduled \in [Callbacks -> Nat]
    /\ \A w \in Workers : wpc[w] # "idle" => wtask[w] \in Runnable
    /\ \A x \in Externals : xpc[x] \in {"settle", "cancel", "cancelling"} => xfut[x] \in Awaitable

(* Whoever is inside the body of __call__() holds the lock of its task.    *)
LockIsHeld ==
    /\ \A w \in Workers : wpc[w] \in InCallLabels => taskLock[wtask[w]] = w
    /\ \A t \in Runnable, w \in Workers : taskLock[t] = w => wtask[w] = t /\ wpc[w] \in InCallLabels
    /\ \A t \in Runnable : executing[t] => taskLock[t] # None
    /\ \A w \in Workers : wpc[w] = "release" => ~executing[wtask[w]]

(* Where a resumption of t can be: its places, each with t at most once.   *)
Queued(t) == Contains(ready, t)
Pooled(t) == Contains(pool, t)
Registered(f, t) == Contains(callbacks[f], t)
Called(w, t) == wtask[w] = t /\ wpc[w] \in {"called", "run", "yielded"}
Single(s, t) == \A i, j \in 1 .. Len(s) : s[i] = t /\ s[j] = t => i = j

OncePerPlace == \A t \in Runnable :
    Single(ready, t) /\ Single(pool, t) /\ \A f \in Awaitable : Single(callbacks[f], t)
OnePlace == \A t \in Runnable :
    /\ \A f, g \in Awaitable : Registered(f, t) /\ Registered(g, t) => f = g
    /\ \A v, w \in Workers : Called(v, t) /\ Called(w, t) => v = w
    /\ Queued(t) => ~Pooled(t)
    /\ \A f \in Awaitable : Registered(f, t) => ~Queued(t) /\ ~Pooled(t)
    /\ \A w \in Workers : Called(w, t) =>
         ~Queued(t) /\ ~Pooled(t) /\ \A f \in Awaitable : ~Registered(f, t)
HasPlace(t) ==
    \/ Queued(t) \/ Pooled(t)
    \/ \E f \in Awaitable : Registered(f, t)
    \/ \E w \in Workers : Called(w, t)

(* Only a future that is done is settled.                                  *)
SettledIsDone ==
    /\ \A w \in Workers : wpc[w] = "settle" => ~Pending(wtask[w])
    /\ \A x \in Externals : xpc[x] = "settle" => ~Pending(xfut[x])

(* A task is registered with the future it waits for, and is not resumed   *)
(* before that is done; a callback waits for nothing.                      *)
WaitsForOne ==
    /\ \A t \in Tasks :
         /\ \A f \in Awaitable : Registered(f, t) => waitingOn[t] = f
         /\ waitingOn[t] # None /\ Pending(waitingOn[t]) =>
              /\ ~Queued(t) /\ ~Pooled(t)
              /\ \A w \in Workers : wtask[w] = t => wpc[w] \notin {"called", "run"}
    /\ \A d \in Callbacks :
         /\ waitingOn[d] = None
         /\ \A w \in Workers : wtask[w] = d =>
              /\ wpc[w] # "yielded"
              /\ wpc[w] \in {"settle", "leave", "release"} => ~Pending(d)

(* The schedule counter of a callback tells whether it has left its list.  *)
CountedOnce == \A d \in Callbacks :
    /\ scheduled[d] <= 1
    /\ scheduled[d] = 1 \/ d \in removed => \A f \in Awaitable : ~Registered(f, d)
    /\ d \in removed => scheduled[d] = 0
    /\ scheduled[d] = 0 => ~Queued(d) /\ ~Pooled(d) /\ \A w \in Workers : ~Called(w, d)

NobodyIsLost ==
    /\ \A t \in Tasks : Pending(t) => HasPlace(t) \/ t \in dropped
    /\ \A d \in Callbacks : Pending(d) /\ scheduled[d] = 1 => HasPlace(d)

IInv ==
    /\ ConstantsAssumption /\ TypeOK /\ LockIsHeld /\ OncePerPlace /\ OnePlace /\ SettledIsDone
    /\ NothingStranded /\ WaitsForOne /\ CountedOnce /\ NobodyIsLost

-----------------------------------------------------------------------------
(* What the operators on sequences do to the members of a sequence and to  *)
(* their being there once.                                                 *)

LEMMA EmptyHolds == \A t : ~Contains(<<>>, t) /\ Single(<<>>, t)
  BY DEF Contains, Single

LEMMA AppendHolds ==
  ASSUME NEW R, NEW s \in Seq(R), NEW e \in R
  PROVE  /\ Append(s, e) \in Seq(R) /\ Append(s, e) # <<>>
         /\ \A t : Contains(Append(s, e), t) <=> (Contains(s, t) \/ t = e)
         /\ \A t : Single(s, t) /\ (t = e => ~Contains(s, t)) => Single(Append(s, e), t)
<1> DEFINE a == Append(s, e)
<1>1. /\ a \in Seq(R) /\ a # <<>> /\ Len(a) = Len(s) + 1 /\ Len(s) \in Nat
      /\ \A i \in 1 .. Len(s) : a[i] = s[i]
      /\ a[Len(s) + 1] = e
  BY AppendProperties
<1> HIDE DEF a
<1>2. \A t : Contains(a, t) <=> (Contains(s, t) \/ t = e)
  BY <1>1 DEF Contains
<1>3. \A t : Single(s, t) /\ (t = e => ~Contains(s, t)) => Single(a, t)
  BY <1>1 DEF Contains, Single
<1> QED BY <1>1, <1>2, <1>3 DEF a

LEMMA TailHolds ==
  ASSUME NEW R, NEW s \in Seq(R), s # <<>>
  PROVE  /\ Head(s) \in R /\ Tail(s) \in Seq(R)
         /\ \A t : Contains(s, t) <=> (t = Head(s) \/ Contains(Tail(s), t))
         /\ \A t : Single(s, t) => Single(Tail(s), t) /\ (t = Head(s) => ~Contains(Tail(s), t))
<1> DEFINE r == Tail(s)
           h == Head(s)
<1>1. /\ h \in R /\ r \in Seq(R) /\ Len(r) = Len(s) - 1 /\ Len(s) \in Nat \ {0}
      /\ \A i \in 1 .. Len(r) : r[i] = s[i + 1]
      /\ h = s[1]
  <2>1. Len(s) \in Nat \ {0}
    BY EmptySeq, LenProperties
  <2>2. Head(s) = s[1]
    OBVIOUS
  <2> QED BY <2>1, <2>2, HeadTailProperties
<1> HIDE DEF r, h
<1>2. ASSUME NEW t PROVE Contains(s, t) <=> (t = h \/ Contains(r, t))
  <2>1. Contains(s, t) => t = h \/ Contains(r, t)
    <3> SUFFICES ASSUME NEW i \in 1 .. Len(s), s[i] = t, i # 1 PROVE Contains(r, t)
      BY <1>1 DEF Contains
    <3>1. i - 1 \in 1 .. Len(r) /\ r[i - 1] = s[(i - 1) + 1] /\ (i - 1) + 1 = i
      BY <1>1
    <3> QED BY <3>1 DEF Contains
  <2>2. t = h \/ Contains(r, t) => Contains(s, t)
    <3>1. \A i \in 1 .. Len(r) : i + 1 \in 1 .. Len(s) /\ 1 \in 1 .. Len(s)
      BY <1>1
    <3>2. 1 \in 1 .. Len(s)
      BY <1>1
    <3> QED BY <1>1, <3>1, <3>2 DEF Contains
  <2> QED BY <2>1, <2>2
<1>3. ASSUME NEW t, Single(s, t) PROVE Single(r, t) /\ (t = h => ~Contains(r, t))
  <2>1. \A i \in 1 .. Len(r) : i + 1 \in 1 .. Len(s) /\ i + 1 # 1 /\ i \in Int
    BY <1>1
  <2>2. 1 \in 1 .. Len(s)
    BY <1>1
  <2>3. Single(r, t)
    <3> SUFFICES ASSUME NEW i \in 1 .. Len(r), NEW j \in 1 .. Len(r), r[i] = t, r[j] = t
                 PROVE  i = j
      BY DEF Single
    <3>1. i + 1 = j + 1
      BY <1>1, <1>3, <2>1 DEF Single
    <3> QED BY <2>1, <3>1
  <2>4. t = h => ~Contains(r, t)
    BY <1>1, <1>3, <2>1, <2>2 DEF Single, Contains
  <2> QED BY <2>3, <2>4
<1> QED BY <1>1, <1>2, <1>3 DEF r, h

LEMMA ConcatHolds ==
  ASSUME NEW R, NEW s \in Seq(R), NEW u \in Seq(R)
  PROVE  /\ s \o u \in Seq(R)
         /\ \A t : Contains(s \o u, t) <=> (Contains(s, t) \/ Contains(u, t))
         /\ \A t : Single(s, t) /\ Single(u, t) /\ ~(Contains(s, t) /\ Contains(u, t))
                     => Single(s \o u, t)
<1> DEFINE c == s \o u
<1>1. /\ c \in Seq(R) /\ Len(c) = Len(s) + Len(u) /\ Len(s) \in Nat /\ Len(u) \in Nat
      /\ \A i \in 1 .. Len(c) : c[i] = IF i <= Len(s) THEN s[i] ELSE u[i - Len(s)]
  BY ConcatProperties, LenProperties
<1> HIDE DEF c
<1>2. \A i \in 1 .. Len(c) :
        \/ i \in 1 .. Len(s) /\ c[i] = s[i]
        \/ ~(i \in 1 .. Len(s)) /\ i - Len(s) \in 1 .. Len(u) /\ c[i] = u[i - Len(s)]
  BY <1>1
<1>3. /\ \A i \in 1 .. Len(s) : i \in 1 .. Len(c) /\ c[i] = s[i]
      /\ \A i \in 1 .. Len(u) : i + Len(s) \in 1 .. Len(c) /\ c[i + Len(s)] = u[i]
  <2>1. \A i \in 1 .. Len(u) : (i + Len(s)) - Len(s) = i /\ ~(i + Len(s) <= Len(s))
                                 /\ i + Len(s) \in 1 .. Len(c)
    BY <1>1
  <2> QED BY <1>1, <2>1
<1>4. \A t : Contains(c, t) <=> (Contains(s, t) \/ Contains(u, t))
  BY <1>2, <1>3 DEF Contains
<1>5. ASSUME NEW t, Single(s, t), Single(u, t), ~(Contains(s, t) /\ Contains(u, t))
      PROVE  Single(c, t)
  <2> SUFFICES ASSUME NEW i \in 1 .. Len(c), NEW j \in 1 .. Len(c), c[i] = t, c[j] = t
               PROVE  i = j
    BY DEF Single
  <2>1. CASE i \in 1 .. Len(s) /\ j \in 1 .. Len(s)
    BY <1>2, <1>5, <2>1 DEF Single
  <2>2. CASE i \notin 1 .. Len(s) /\ j \notin 1 .. Len(s)
    <3>1. i - Len(s) = j - Len(s)
      BY <1>2, <1>5, <2>2 DEF Single
    <3> QED BY <1>1, <3>1
  <2>3. CASE ~(i \in 1 .. Len(s) <=> j \in 1 .. Len(s))
    BY <1>2, <1>5, <2>3 DEF Contains
  <2> QED BY <2>1, <2>2, <2>3
<1> QED BY <1>1, <1>4, <1>5 DEF c

(* A set of positions has a smallest one, which is what Min chooses.       *)
LEMMA MinIsLeast ==
  ASSUME NEW S \in SUBSET Nat, S # {}
  PROVE  Min(S) \in S
<1> DEFINE R == OpToRel(<, Nat)
<1>1. PICK x \in S : \A y \in S : ~(<<y, x>> \in R)
  BY WFMin, NatLessThanWellFounded
<1>2. \A m, n \in Nat : m < n => <<m, n>> \in R
  BY DEF OpToRel
<1> HIDE DEF R
<1>3. ASSUME NEW y \in S PROVE x =< y
  <2>1. x \in Nat /\ y \in Nat
    BY <1>1
  <2>2. ~(y < x)
    BY <1>1, <1>2, <2>1
  <2> QED BY <2>1, <2>2
<1> QED BY <1>3 DEF Min

LEMMA RemoveFirstHolds ==
  ASSUME NEW R, NEW s \in Seq(R), NEW e, Contains(s, e), Single(s, e)
  PROVE  /\ RemoveFirst(s, e) \in Seq(R)
         /\ \A t : Contains(RemoveFirst(s, e), t) <=> (Contains(s, t) /\ t # e)
         /\ \A t : Single(s, t) => Single(RemoveFirst(s, e), t)
<1> DEFINE I == {i \in 1 .. Len(s) : s[i] = e}
           k == Min(I)
           l == SubSeq(s, 1, k - 1)
           r == SubSeq(s, k + 1, Len(s))
           c == l \o r
<1>1. k \in 1 .. Len(s) /\ s[k] = e /\ Len(s) \in Nat
  <2>1. I \in SUBSET Nat /\ I # {} /\ Len(s) \in Nat
    BY LenProperties DEF Contains
  <2>2. k \in I
    BY <2>1, MinIsLeast
  <2> QED BY <2>1, <2>2
<1>2. RemoveFirst(s, e) = c
  BY DEF RemoveFirst, RemoveAt, SelectInSeq, Contains
<1> HIDE DEF k
<1>3. /\ l \in Seq(R) /\ Len(l) = k - 1
      /\ \A i \in 1 .. (k - 1) : l[i] = s[i]
  <2>1. \A i \in 1 .. (k - 1) : s[i] \in R /\ 1 + i - 1 = i
    BY <1>1, ElementOfSeq
  <2>2. /\ l \in Seq(R) /\ Len(l) = IF 1 <= k - 1 THEN k - 1 - 1 + 1 ELSE 0
        /\ \A i \in 1 .. (k - 1 - 1 + 1) : l[i] = s[1 + i - 1]
    BY <1>1, <2>1, SubSeqProperties
  <2>3. k - 1 - 1 + 1 = k - 1 /\ k - 1 \in Nat
    BY <1>1
  <2> QED BY <2>1, <2>2, <2>3
<1>4. /\ r \in Seq(R) /\ Len(r) = Len(s) - k
      /\ \A i \in 1 .. (Len(s) - k) : r[i] = s[k + i]
  <2>1. \A i \in (k + 1) .. Len(s) : s[i] \in R
    BY <1>1, ElementOfSeq
  <2>2. /\ r \in Seq(R) /\ Len(r) = IF k + 1 <= Len(s) THEN Len(s) - (k + 1) + 1 ELSE 0
        /\ \A i \in 1 .. (Len(s) - (k + 1) + 1) : r[i] = s[(k + 1) + i - 1]
    BY <1>1, <2>1, SubSeqProperties
  <2>3. Len(s) - (k + 1) + 1 = Len(s) - k /\ Len(s) - k \in Nat
        /\ \A i \in 1 .. (Len(s) - k) : (k + 1) + i - 1 = k + i
    BY <1>1
  <2>4. (IF k + 1 <= Len(s) THEN Len(s) - (k + 1) + 1 ELSE 0) = Len(s) - k
    BY <1>1
  <2> HIDE DEF r
  <2> QED BY <2>2, <2>3, <2>4
<1> HIDE DEF l, r, c, I
<1>5. /\ c \in Seq(R)
      /\ \A t : Contains(c, t) <=> (Contains(l, t) \/ Contains(r, t))
      /\ \A t : Single(l, t) /\ Single(r, t) /\ ~(Contains(l, t) /\ Contains(r, t))
                  => Single(c, t)
  BY <1>3, <1>4, ConcatHolds DEF c
<1>6. \A i \in 1 .. Len(s) : s[i] = e => i = k
  BY <1>1 DEF Single
<1>7. /\ \A i \in 1 .. Len(l) : i \in 1 .. Len(s) /\ i < k /\ l[i] = s[i]
      /\ \A i \in 1 .. Len(r) : k + i \in 1 .. Len(s) /\ k + i > k /\ r[i] = s[k + i]
  BY <1>1, <1>3, <1>4
<1>8. \A i \in 1 .. Len(s) :
        \/ i = k
        \/ i \in 1 .. Len(l) /\ l[i] = s[i]
        \/ i - k \in 1 .. Len(r) /\ r[i - k] = s[i]
  <2> SUFFICES ASSUME NEW i \in 1 .. Len(s), i > k
               PROVE  i - k \in 1 .. Len(r) /\ r[i - k] = s[i]
    BY <1>1, <1>3
  <2>1. i - k \in 1 .. (Len(s) - k) /\ k + (i - k) = i
    BY <1>1
  <2> QED BY <1>4, <2>1
<1>9. \A t : Contains(c, t) <=> (Contains(s, t) /\ t # e)
  <2>1. ASSUME NEW t, Contains(l, t) \/ Contains(r, t) PROVE Contains(s, t) /\ t # e
    <3>1. PICK i \in 1 .. Len(s) : s[i] = t /\ i # k
      <4>1. CASE Contains(l, t)
        <5>1. PICK i \in 1 .. Len(l) : l[i] = t
          BY <4>1 DEF Contains
        <5> QED BY <1>1, <1>7, <5>1
      <4>2. CASE Contains(r, t)
        <5>1. PICK i \in 1 .. Len(r) : r[i] = t
          BY <4>2 DEF Contains
        <5>2. k + i \in 1 .. Len(s) /\ s[k + i] = t /\ k + i # k
          BY <1>1, <1>7, <5>1
        <5> QED BY <5>2
      <4> QED BY <2>1, <4>1, <4>2
    <3> QED BY <1>6, <3>1 DEF Contains
  <2>2. ASSUME NEW t, Contains(s, t), t # e PROVE Contains(l, t) \/ Contains(r, t)
    BY <1>1, <1>8, <2>2 DEF Contains
  <2> QED BY <1>5, <2>1, <2>2
<1>10. ASSUME NEW t, Single(s, t) PROVE Single(c, t)
  <2>1. Single(l, t)
    BY <1>7, <1>10 DEF Single
  <2>2. Single(r, t)
    <3> SUFFICES ASSUME NEW i \in 1 .. Len(r), NEW j \in 1 .. Len(r), r[i] = t, r[j] = t
                 PROVE  i = j
      BY DEF Single
    <3>1. k + i = k + j
      BY <1>7, <1>10 DEF Single
    <3> QED BY <1>1, <1>4, <3>1
  <2>3. ASSUME Contains(l, t), Contains(r, t) PROVE FALSE
    <3>1. PICK i \in 1 .. Len(l) : l[i] = t
      BY <2>3 DEF Contains
    <3>2. PICK j \in 1 .. Len(r) : r[j] = t
      BY <2>3 DEF Contains
    <3>3. i = k + j
      BY <1>7, <1>10, <3>1, <3>2 DEF Single
    <3> QED BY <1>1, <1>4, <1>7, <3>3
  <2> QED BY <1>5, <2>1, <2>2, <2>3
<1> QED BY <1>2, <1>5, <1>9, <1>10

(* How often t occurs in a sequence that holds it at most once.            *)
LEMMA OccurrencesOfSingle ==
  ASSUME NEW R, NEW s \in Seq(R), NEW t, Single(s, t)
  PROVE  Occurrences(s, t) = IF Contains(s, t) THEN 1 ELSE 0
<1>1. DOMAIN s = 1 .. Len(s)
  BY LenProperties
<1>2. CASE Contains(s, t)
  <2>1. PICK i \in 1 .. Len(s) : s[i] = t
    BY <1>2 DEF Contains
  <2>2. {j \in DOMAIN s : s[j] = t} = {i}
    BY <1>1, <2>1 DEF Single
  <2> QED BY <1>2, <2>2, FS_Singleton DEF Occurrences
<1>3. CASE ~Contains(s, t)
  <2>1. {j \in DOMAIN s : s[j] = t} = {}
    BY <1>1, <1>3 DEF Contains
  <2> QED BY <1>3, <2>1, FS_EmptySet DEF Occurrences
<1> QED BY <1>2, <1>3

(* A sequence made of a finite set holds its members, each once.           *)
LEMMA SetToSeqHolds ==
  ASSUME NEW S, IsFiniteSet(S)
  PROVE  /\ SetToSeq(S) \in Seq(S)
         /\ \A t : Contains(SetToSeq(S), t) <=> t \in S
         /\ \A t : Single(SetToSeq(S), t)
<1> DEFINE n == Cardinality(S)
           s == SetToSeq(S)
<1>1. n \in Nat /\ ExistsBijection(1 .. n, S)
  BY FS_CardinalityType
<1>2. PICK b \in Bijection(1 .. n, S) : TRUE
  BY <1>1 DEF ExistsBijection
<1>3. b \in [1 .. n -> S] /\ IsInjective(b)
  BY <1>2 DEF Bijection, Injection
<1>4. s \in [1 .. n -> S] /\ IsInjective(s)
  BY <1>3 DEF SetToSeq
<1> HIDE DEF s, n
<1>5. s \in Seq(S) /\ Len(s) = n /\ DOMAIN s = 1 .. n
  BY <1>1, <1>4, IsASeq, LenProperties
<1>6. s \in Surjection(1 .. n, S)
  <2>1. s \in Injection(1 .. n, S)
    BY <1>4 DEF Injection
  <2>2. Cardinality(1 .. n) = n
    BY <1>1, FS_Interval
  <2> QED BY <2>1, <2>2, FS_Injection DEF n
<1>7. \A t : Contains(s, t) <=> t \in S
  BY <1>4, <1>5, <1>6 DEF Surjection, Contains
<1>8. \A t : Single(s, t)
  BY <1>4, <1>5 DEF IsInjective, Single
<1> QED BY <1>5, <1>7, <1>8 DEF s

-----------------------------------------------------------------------------
LEMMA InitIInv == ConstantsAssumption /\ Init => IInv
<1> SUFFICES ASSUME ConstantsAssumption, Init PROVE IInv
  OBVIOUS
<1>1. /\ ready \in Seq(Tasks)
      /\ \A t : Queued(t) <=> t \in Tasks
      /\ \A t : Single(ready, t)
  BY SetToSeqHolds DEF Init, ConstantsAssumption, Queued
<1>2. ready \in Seq(Runnable) /\ pool \in Seq(Runnable)
  BY <1>1, SeqMonotonic, EmptySeq DEF Init, Runnable
<1>3. /\ \A f \in Awaitable : \A t : ~Registered(f, t) /\ Single(callbacks[f], t)
      /\ \A t : ~Pooled(t) /\ Single(pool, t)
  BY EmptyHolds DEF Init, Registered, Pooled
<1>4. \A w \in Workers : \A t : ~Called(w, t)
  BY DEF Init, Called
<1>5. TypeOK
  <2>1. callbacks \in [Awaitable -> Seq(Runnable)]
    BY EmptySeq DEF Init
  <2> QED BY <1>2, <2>1 DEF Init, TypeOK, States, WorkerLabels, InCallLabels
<1>6. LockIsHeld
  BY DEF Init, ConstantsAssumption, LockIsHeld, InCallLabels
<1>7. OncePerPlace /\ OnePlace
  BY <1>1, <1>3, <1>4 DEF OncePerPlace, OnePlace
<1>8. SettledIsDone /\ NothingStranded
  BY DEF Init, SettledIsDone, NothingStranded
<1>9. WaitsForOne
  BY <1>3 DEF Init, WaitsForOne, Runnable, ConstantsAssumption
<1>10. CountedOnce
  BY <1>1, <1>3, <1>4 DEF Init, CountedOnce, ConstantsAssumption, Awaitable
<1>11. NobodyIsLost
  BY <1>1 DEF Init, NobodyIsLost, HasPlace
<1> QED BY <1>5, <1>6, <1>7, <1>8, <1>9, <1>10, <1>11 DEF IInv

LEMMA SpinnerPopsIInv == ASSUME IInv, SpinnerPops PROVE IInv'
<1> DEFINE h == Head(ready)
<1>1. /\ UNCHANGED <<state, callbacks, executing, taskLock, closed, pos, waitingOn>>
      /\ UNCHANGED <<wpc, wtask, dropped, xpc, xfut, scheduled, removed>>
  BY DEF SpinnerPops, taskVars, workerVars, externalVars
<1>2. /\ h \in Runnable /\ ready' \in Seq(Runnable)
      /\ \A t : Queued(t) <=> (t = h \/ Queued(t)')
      /\ \A t : Single(ready, t) => Single(ready', t) /\ (t = h => ~Queued(t)')
  BY TailHolds DEF SpinnerPops, IInv, TypeOK, Queued
<1>3. /\ pool' \in Seq(Runnable)
      /\ \A t : Pooled(t)' <=> (Pooled(t) \/ (t = h /\ Pending(h)))
      /\ \A t : Single(pool, t) /\ (t = h => ~Pooled(t)) => Single(pool', t)
  BY <1>2, AppendHolds DEF SpinnerPops, IInv, TypeOK, Pooled
<1>4. /\ \A f \in Awaitable : \A t : Registered(f, t)' <=> Registered(f, t)
      /\ \A w \in Workers : \A t : Called(w, t)' <=> Called(w, t)
  BY <1>1 DEF Registered, Called
<1> HIDE DEF h
<1>5. TypeOK'
  BY <1>1, <1>2, <1>3 DEF IInv, TypeOK
<1>6. LockIsHeld'
  BY <1>1 DEF IInv, LockIsHeld
<1>7. OncePerPlace'
  BY <1>1, <1>2, <1>3 DEF IInv, OncePerPlace, OnePlace
<1>8. OnePlace'
  BY <1>2, <1>3, <1>4 DEF IInv, OncePerPlace, OnePlace
<1>9. SettledIsDone' /\ NothingStranded'
  BY <1>1 DEF IInv, SettledIsDone, NothingStranded, Settling, Pending
<1>10. WaitsForOne'
  BY <1>1, <1>2, <1>3, <1>4 DEF IInv, WaitsForOne, Pending
<1>11. CountedOnce'
  BY <1>1, <1>2, <1>3, <1>4 DEF IInv, CountedOnce
<1>12. NobodyIsLost'
  BY <1>1, <1>2, <1>3, <1>4 DEF IInv, NobodyIsLost, HasPlace, Pending
<1> QED BY <1>5, <1>6, <1>7, <1>8, <1>9, <1>10, <1>11, <1>12 DEF IInv

LEMMA WorkerTakesIInv == ASSUME IInv, NEW w \in Workers, WorkerTakes(w) PROVE IInv'
<1> DEFINE h == Head(pool)
<1>1. /\ UNCHANGED <<state, callbacks, executing, taskLock, closed, pos, waitingOn, ready>>
      /\ UNCHANGED <<dropped, xpc, xfut, scheduled, removed>>
      /\ wpc[w] = "idle"
      /\ wtask' = [wtask EXCEPT ![w] = h]
      /\ wpc' = [wpc EXCEPT ![w] = "called"]
  BY DEF WorkerTakes, taskVars, externalVars
<1>2. /\ h \in Runnable /\ pool' \in Seq(Runnable)
      /\ \A t : Pooled(t) <=> (t = h \/ Pooled(t)')
      /\ \A t : Single(pool, t) => Single(pool', t) /\ (t = h => ~Pooled(t)')
  BY TailHolds DEF WorkerTakes, IInv, TypeOK, Pooled
<1> HIDE DEF h
<1>3. /\ \A v \in Workers : v # w => wpc'[v] = wpc[v] /\ wtask'[v] = wtask[v]
      /\ wpc'[w] = "called" /\ wtask'[w] = h
  BY <1>1 DEF IInv, TypeOK
<1>4. /\ \A f \in Awaitable : \A t : Registered(f, t)' <=> Registered(f, t)
      /\ \A t : Queued(t)' <=> Queued(t)
      /\ \A v \in Workers : \A t : Called(v, t)' <=> (IF v = w THEN t = h ELSE Called(v, t))
  BY <1>1, <1>3 DEF Registered, Called, Queued
<1>5. TypeOK'
  BY <1>1, <1>2, <1>3 DEF IInv, TypeOK, WorkerLabels
<1>6. LockIsHeld'
  BY <1>1, <1>3 DEF IInv, LockIsHeld, InCallLabels
<1>7. OncePerPlace'
  BY <1>1, <1>2 DEF IInv, OncePerPlace
<1>8. OnePlace'
  BY <1>2, <1>4 DEF IInv, OncePerPlace, OnePlace
<1>9. SettledIsDone' /\ NothingStranded'
  BY <1>1, <1>3 DEF IInv, SettledIsDone, NothingStranded, Settling, Pending
<1>10. WaitsForOne'
  BY <1>1, <1>2, <1>3, <1>4 DEF IInv, WaitsForOne, Pending
<1>11. CountedOnce'
  BY <1>1, <1>2, <1>4 DEF IInv, CountedOnce
<1>12. NobodyIsLost'
  BY <1>1, <1>2, <1>4 DEF IInv, NobodyIsLost, HasPlace, Pending, Called
<1> QED BY <1>5, <1>6, <1>7, <1>8, <1>9, <1>10, <1>11, <1>12 DEF IInv

LEMMA CallReturnsEarlyIInv == ASSUME IInv, NEW w \in Workers, CallReturnsEarly(w) PROVE IInv'
<1> DEFINE t0 == wtask[w]
<1>1. /\ UNCHANGED <<state, callbacks, executing, taskLock, closed, pos, waitingOn, ready, pool>>
      /\ UNCHANGED <<wtask, xpc, xfut, scheduled, removed>>
      /\ wpc[w] = "called" /\ ~Admits(t0)
      /\ wpc' = [wpc EXCEPT ![w] = "idle"]
      /\ dropped' = IF Pending(t0) THEN dropped \cup {t0} ELSE dropped
  BY DEF CallReturnsEarly, taskVars, queueVars, externalVars
<1>2. /\ \A v \in Workers : v # w => wpc'[v] = wpc[v]
      /\ wpc'[w] = "idle" /\ t0 \in Runnable
  BY <1>1 DEF IInv, TypeOK
<1>3. /\ \A f \in Awaitable : \A t : Registered(f, t)' <=> Registered(f, t)
      /\ \A t : Queued(t)' <=> Queued(t)
      /\ \A t : Pooled(t)' <=> Pooled(t)
      /\ \A v \in Workers : \A t : Called(v, t)' <=> (v # w /\ Called(v, t))
      /\ \A t : Called(w, t) <=> t = t0
  BY <1>1, <1>2 DEF Registered, Called, Queued, Pooled
<1>4. t0 \in Callbacks => ~Pending(t0)
  <2> SUFFICES ASSUME t0 \in Callbacks, Pending(t0) PROVE FALSE
    OBVIOUS
  <2>1. taskLock[t0] # None
    BY <1>1, <1>2 DEF Admits, IInv, LockIsHeld
  <2>2. PICK v \in Workers : wtask[v] = t0 /\ wpc[v] \in InCallLabels /\ v # w
    <3>1. taskLock[t0] \in Workers
      BY <1>2, <2>1 DEF IInv, TypeOK
    <3>2. wtask[taskLock[t0]] = t0 /\ wpc[taskLock[t0]] \in InCallLabels
      BY <1>2, <3>1 DEF IInv, LockIsHeld
    <3> QED BY <1>1, <3>1, <3>2 DEF InCallLabels
  <2>3. wpc[v] \in {"settle", "leave", "release"}
    BY <1>2, <1>3, <2>2 DEF IInv, OnePlace, Called, InCallLabels
  <2> QED BY <2>2, <2>3 DEF IInv, WaitsForOne
<1> HIDE DEF t0
<1>5. TypeOK'
  BY <1>1, <1>2 DEF IInv, TypeOK, WorkerLabels
<1>6. LockIsHeld'
  BY <1>1, <1>2 DEF IInv, LockIsHeld, InCallLabels
<1>7. OncePerPlace'
  BY <1>1 DEF IInv, OncePerPlace
<1>8. OnePlace'
  BY <1>3 DEF IInv, OnePlace
<1>9. SettledIsDone' /\ NothingStranded'
  BY <1>1, <1>2 DEF IInv, SettledIsDone, NothingStranded, Settling, Pending
<1>10. WaitsForOne'
  BY <1>1, <1>2, <1>3 DEF IInv, WaitsForOne, Pending
<1>11. CountedOnce'
  BY <1>1, <1>3 DEF IInv, CountedOnce
<1>12. NobodyIsLost'
  <2>1. \A t \in Tasks : Pending(t)' => HasPlace(t)' \/ t \in dropped'
    BY <1>1, <1>3 DEF IInv, NobodyIsLost, HasPlace, Pending
  <2>2. \A d \in Callbacks : Pending(d)' /\ scheduled'[d] = 1 => HasPlace(d)'
    BY <1>1, <1>3, <1>4 DEF IInv, NobodyIsLost, HasPlace, Pending
  <2> QED BY <2>1, <2>2 DEF NobodyIsLost
<1> QED BY <1>5, <1>6, <1>7, <1>8, <1>9, <1>10, <1>11, <1>12 DEF IInv

LEMMA CallStartsIInv == ASSUME IInv, NEW w \in Workers, CallStarts(w) PROVE IInv'
<1> DEFINE t0 == wtask[w]
<1>1. /\ UNCHANGED <<state, callbacks, closed, pos, waitingOn, ready, pool>>
      /\ UNCHANGED <<wtask, dropped, xpc, xfut, scheduled, removed>>
      /\ wpc[w] = "called" /\ taskLock[t0] = None
      /\ wpc' = [wpc EXCEPT ![w] = "run"]
      /\ taskLock' = [taskLock EXCEPT ![t0] = w]
      /\ executing' = [executing EXCEPT ![t0] = TRUE]
  BY DEF CallStarts, Admits, Goto, queueVars, externalVars
<1>2. /\ \A v \in Workers : v # w => wpc'[v] = wpc[v]
      /\ wpc'[w] = "run" /\ t0 \in Runnable
  BY <1>1 DEF IInv, TypeOK
<1>3. /\ \A f \in Awaitable : \A t : Registered(f, t)' <=> Registered(f, t)
      /\ \A t : Queued(t)' <=> Queued(t)
      /\ \A t : Pooled(t)' <=> Pooled(t)
      /\ \A v \in Workers : \A t : Called(v, t)' <=> Called(v, t)
  BY <1>1, <1>2 DEF Registered, Called, Queued, Pooled
<1>4. /\ \A t \in Runnable : t # t0 => taskLock'[t] = taskLock[t] /\ executing'[t] = executing[t]
      /\ taskLock'[t0] = w /\ executing'[t0] = TRUE
  BY <1>1, <1>2 DEF IInv, TypeOK
<1>5. TypeOK'
  BY <1>1, <1>2 DEF IInv, TypeOK, WorkerLabels, InCallLabels
<1>6. LockIsHeld'
  <2>1. \A v \in Workers : wpc[v] \in InCallLabels => wtask[v] \in Runnable /\ wtask[v] # t0
    BY <1>1 DEF IInv, TypeOK, LockIsHeld, InCallLabels, ConstantsAssumption
  <2>2. w # None /\ "run" \in InCallLabels /\ "release" \in InCallLabels /\ "called" \notin InCallLabels
    BY DEF IInv, ConstantsAssumption, InCallLabels
  <2> HIDE DEF t0
  <2>3. \A v \in Workers : wpc'[v] \in InCallLabels => taskLock'[wtask'[v]] = v
    BY <1>1, <1>2, <1>4, <2>1, <2>2 DEF IInv, LockIsHeld, t0
  <2>4. \A t \in Runnable, v \in Workers :
           taskLock'[t] = v => wtask'[v] = t /\ wpc'[v] \in InCallLabels
    BY <1>1, <1>2, <1>4, <2>1, <2>2 DEF IInv, LockIsHeld, t0
  <2>5. \A t \in Runnable : executing'[t] => taskLock'[t] # None
    BY <1>4, <2>2 DEF IInv, LockIsHeld
  <2>6. \A v \in Workers : wpc'[v] = "release" => ~executing'[wtask'[v]]
    BY <1>1, <1>2, <1>4, <2>1, <2>2 DEF IInv, LockIsHeld
  <2> QED BY <2>3, <2>4, <2>5, <2>6 DEF LockIsHeld
<1> HIDE DEF t0
<1>7. OncePerPlace'
  BY <1>1 DEF IInv, OncePerPlace
<1>8. OnePlace'
  BY <1>3 DEF IInv, OnePlace
<1>9. SettledIsDone' /\ NothingStranded'
  BY <1>1, <1>2 DEF IInv, SettledIsDone, NothingStranded, Settling, Pending
<1>10. WaitsForOne'
  BY <1>1, <1>2, <1>3 DEF IInv, WaitsForOne, Pending
<1>11. CountedOnce'
  BY <1>1, <1>3 DEF IInv, CountedOnce
<1>12. NobodyIsLost'
  BY <1>1, <1>3 DEF IInv, NobodyIsLost, HasPlace, Pending
<1> QED BY <1>5, <1>6, <1>7, <1>8, <1>9, <1>10, <1>11, <1>12 DEF IInv

LEMMA AwaitReturnsIInv == ASSUME IInv, NEW w \in Workers, AwaitReturns(w) PROVE IInv'
<1> DEFINE t0 == wtask[w]
<1>1. /\ UNCHANGED <<state, callbacks, closed, executing, taskLock, ready, pool, wpc, wtask>>
      /\ UNCHANGED <<dropped, xpc, xfut, scheduled, removed>>
      /\ wpc[w] = "run" /\ pos[t0] < Len(Program[t0])
      /\ pos' = [pos EXCEPT ![t0] = @ + 1]
      /\ waitingOn' = [waitingOn EXCEPT ![t0] = None]
  BY DEF AwaitReturns, queueVars, workerVars, externalVars
<1>2. t0 \in Tasks
  <2>1. t0 \in Runnable
    BY <1>1 DEF IInv, TypeOK
  <2>2. ASSUME t0 \in Callbacks PROVE FALSE
    <3>1. Len(Program[t0]) = 0 /\ pos[t0] \in Nat
      BY <2>1, <2>2 DEF IInv, TypeOK, ConstantsAssumption
    <3> QED BY <1>1, <3>1
  <2> QED BY <2>1, <2>2 DEF Runnable
<1>3. /\ \A f \in Awaitable : \A t : Registered(f, t)' <=> Registered(f, t)
      /\ \A t : Queued(t)' <=> Queued(t)
      /\ \A t : Pooled(t)' <=> Pooled(t)
      /\ \A v \in Workers : \A t : Called(v, t)' <=> Called(v, t)
      /\ Called(w, t0)
  BY <1>1 DEF Registered, Called, Queued, Pooled
<1> HIDE DEF t0
<1>4. \A t \in Runnable : waitingOn'[t] = IF t = t0 THEN None ELSE waitingOn[t]
  BY <1>1, <1>2 DEF IInv, TypeOK
<1>5. TypeOK'
  <2>0. pos[t0] + 1 \in Nat
    BY <1>2 DEF IInv, TypeOK, Runnable
  <2>1. pos' \in [Runnable -> Nat] /\ waitingOn' \in [Runnable -> Awaitable \cup {None}]
    BY <1>1, <2>0 DEF IInv, TypeOK
  <2> QED BY <1>1, <2>1 DEF IInv, TypeOK
<1>6. LockIsHeld'
  BY <1>1 DEF IInv, LockIsHeld
<1>7. OncePerPlace'
  BY <1>1 DEF IInv, OncePerPlace
<1>8. OnePlace'
  BY <1>3 DEF IInv, OnePlace
<1>9. SettledIsDone' /\ NothingStranded'
  BY <1>1 DEF IInv, SettledIsDone, NothingStranded, Settling, Pending
<1>10. WaitsForOne'
  <2>1. \A f \in Awaitable : ~Registered(f, t0)
    BY <1>2, <1>3 DEF IInv, OnePlace, Runnable
  <2>2. \A d \in Callbacks : waitingOn'[d] = None
    BY <1>4 DEF IInv, WaitsForOne, Runnable
  <2>3. \A t \in Tasks :
         /\ \A f \in Awaitable : Registered(f, t)' => waitingOn'[t] = f
         /\ waitingOn'[t] # None /\ Pending(waitingOn[t])' => t # t0 /\ waitingOn[t] # None
                                                             /\ Pending(waitingOn[t])
    BY <1>1, <1>2, <1>3, <1>4, <2>1 DEF IInv, WaitsForOne, Pending, Runnable
  <2> QED BY <1>1, <1>3, <2>2, <2>3 DEF IInv, WaitsForOne, Pending
<1>11. CountedOnce'
  BY <1>1, <1>3 DEF IInv, CountedOnce
<1>12. NobodyIsLost'
  BY <1>1, <1>3 DEF IInv, NobodyIsLost, HasPlace, Pending
<1> QED BY <1>5, <1>6, <1>7, <1>8, <1>9, <1>10, <1>11, <1>12 DEF IInv

LEMMA CoroutineYieldsIInv == ASSUME IInv, NEW w \in Workers, CoroutineYields(w) PROVE IInv'
<1> DEFINE t0 == wtask[w]
           g0 == Program[t0][pos[t0] + 1]
<1>1. /\ UNCHANGED <<state, callbacks, closed, executing, taskLock, ready, pool, wtask>>
      /\ UNCHANGED <<dropped, xpc, xfut, scheduled, removed>>
      /\ wpc[w] = "run" /\ pos[t0] < Len(Program[t0]) /\ ~AwaitedTwice(t0)
      /\ wpc' = [wpc EXCEPT ![w] = "yielded"]
  BY DEF CoroutineYields, Goto, queueVars, externalVars
<1>2. t0 \in Tasks /\ t0 \notin Callbacks
  <2>1. t0 \in Runnable
    BY <1>1 DEF IInv, TypeOK
  <2>2. ASSUME t0 \in Callbacks PROVE FALSE
    <3>1. Len(Program[t0]) = 0 /\ pos[t0] \in Nat
      BY <2>1, <2>2 DEF IInv, TypeOK, ConstantsAssumption
    <3> QED BY <1>1, <3>1
  <2> QED BY <2>1, <2>2 DEF Runnable
<1>3. /\ \A f \in Awaitable : \A t : Registered(f, t)' <=> Registered(f, t)
      /\ \A t : Queued(t)' <=> Queued(t)
      /\ \A t : Pooled(t)' <=> Pooled(t)
      /\ \A v \in Workers : v # w => wpc'[v] = wpc[v]
      /\ wpc'[w] = "yielded"
      /\ Called(w, t0)
  BY <1>1 DEF Registered, Called, Queued, Pooled, IInv, TypeOK
<1>4. \A v \in Workers : \A t : Called(v, t)' <=> Called(v, t)
  BY <1>1, <1>3 DEF Called
<1>5. \/ /\ UNCHANGED waitingOn
         /\ pos' = [pos EXCEPT ![t0] = @ + 1]
      \/ /\ g0 \in Awaitable /\ Pending(g0) /\ UNCHANGED pos
         /\ waitingOn' = [waitingOn EXCEPT ![t0] = g0]
  <2>1. Program[t0] \in Seq(Awaitable \cup {Yield}) /\ pos[t0] \in Nat
    BY <1>2 DEF IInv, TypeOK, ConstantsAssumption, Runnable
  <2>2. pos[t0] + 1 \in 1 .. Len(Program[t0])
    BY <1>1, <2>1
  <2>3. g0 \in Awaitable \cup {Yield}
    BY <2>1, <2>2, ElementOfSeq
  <2> QED BY <2>3 DEF CoroutineYields
<1> HIDE DEF t0, g0
<1>6. \A t \in Runnable :
        \/ waitingOn'[t] = waitingOn[t]
        \/ t = t0 /\ waitingOn'[t] \in Awaitable
  BY <1>2, <1>5 DEF IInv, TypeOK
<1>7. TypeOK'
  <2>0. pos[t0] + 1 \in Nat
    BY <1>2 DEF IInv, TypeOK, Runnable
  <2>1. pos' \in [Runnable -> Nat] /\ waitingOn' \in [Runnable -> Awaitable \cup {None}]
    BY <1>5, <2>0 DEF IInv, TypeOK
  <2> QED BY <1>1, <1>3, <2>1 DEF IInv, TypeOK, WorkerLabels, InCallLabels
<1>8. LockIsHeld'
  BY <1>1, <1>3 DEF IInv, LockIsHeld, InCallLabels
<1>9. OncePerPlace'
  BY <1>1 DEF IInv, OncePerPlace
<1>10. OnePlace'
  BY <1>3, <1>4 DEF IInv, OnePlace
<1>11. SettledIsDone' /\ NothingStranded'
  BY <1>1, <1>3 DEF IInv, SettledIsDone, NothingStranded, Settling, Pending
<1>12. WaitsForOne'
  <2>1. /\ ~Queued(t0) /\ ~Pooled(t0)
        /\ \A f \in Awaitable : ~Registered(f, t0)
        /\ \A v \in Workers : wtask[v] = t0 /\ v # w => wpc[v] \notin {"called", "run"}
    BY <1>1, <1>2, <1>3 DEF IInv, OnePlace, Runnable, Called
  <2>2. \A t \in Tasks :
         /\ \A f \in Awaitable : Registered(f, t)' => waitingOn'[t] = f
         /\ waitingOn'[t] # None /\ Pending(waitingOn[t])' =>
              /\ ~Queued(t)' /\ ~Pooled(t)'
              /\ \A v \in Workers : wtask'[v] = t => wpc'[v] \notin {"called", "run"}
    <3> SUFFICES ASSUME NEW t \in Tasks
                 PROVE  /\ \A f \in Awaitable : Registered(f, t)' => waitingOn'[t] = f
                        /\ waitingOn'[t] # None /\ Pending(waitingOn[t])' =>
                             /\ ~Queued(t)' /\ ~Pooled(t)'
                             /\ \A v \in Workers : wtask'[v] = t => wpc'[v] \notin {"called", "run"}
      OBVIOUS
    <3>1. CASE t = t0
      BY <1>1, <1>3, <2>1, <3>1
    <3>2. CASE t # t0
      BY <1>1, <1>2, <1>3, <1>6, <3>2 DEF IInv, WaitsForOne, Pending, Runnable, t0
    <3> QED BY <3>1, <3>2
  <2>3. \A d \in Callbacks :
         /\ waitingOn'[d] = None
         /\ \A v \in Workers : wtask'[v] = d =>
              /\ wpc'[v] # "yielded"
              /\ wpc'[v] \in {"settle", "leave", "release"} => ~Pending(d)'
    BY <1>1, <1>2, <1>3, <1>6 DEF IInv, WaitsForOne, Pending, Runnable, t0
  <2> QED BY <2>2, <2>3 DEF WaitsForOne
<1>13. CountedOnce'
  BY <1>1, <1>3, <1>4 DEF IInv, CountedOnce
<1>14. NobodyIsLost'
  BY <1>1, <1>3, <1>4 DEF IInv, NobodyIsLost, HasPlace, Pending
<1> QED BY <1>7, <1>8, <1>9, <1>10, <1>11, <1>12, <1>13, <1>14 DEF IInv

LEMMA TaskSuspendsIInv == ASSUME IInv, NEW w \in Workers, TaskSuspends(w) PROVE IInv'
<1> DEFINE t0 == wtask[w]
           g0 == waitingOn[t0]
<1>1. /\ UNCHANGED <<state, closed, executing, taskLock, pos, waitingOn, pool, wtask>>
      /\ UNCHANGED <<dropped, xpc, xfut, scheduled, removed>>
      /\ wpc[w] = "yielded"
      /\ wpc' = [wpc EXCEPT ![w] = "leave"]
  BY DEF TaskSuspends, Goto, taskVars, externalVars
<1>2. t0 \in Tasks /\ t0 \in Runnable /\ t0 \notin Callbacks
  BY <1>1 DEF IInv, TypeOK, WaitsForOne, Runnable
<1>3. /\ \A t : Pooled(t)' <=> Pooled(t)
      /\ \A v \in Workers : v # w => wpc'[v] = wpc[v]
      /\ wpc'[w] = "leave"
      /\ Called(w, t0)
  BY <1>1 DEF Called, Pooled, IInv, TypeOK
<1>4. \A v \in Workers : \A t : Called(v, t)' <=> (v # w /\ Called(v, t))
  BY <1>1, <1>3 DEF Called
<1>5. /\ ~Queued(t0) /\ ~Pooled(t0)
      /\ \A f \in Awaitable : ~Registered(f, t0)
      /\ \A v \in Workers : v # w => ~Called(v, t0)
  BY <1>1, <1>2, <1>3 DEF IInv, OnePlace
<1>6. \/ /\ UNCHANGED callbacks
         /\ ready' = Append(ready, t0)
         /\ ~(g0 # None /\ Pending(g0))
      \/ /\ UNCHANGED ready
         /\ callbacks' = [callbacks EXCEPT ![g0] = Append(@, t0)]
         /\ g0 \in Awaitable /\ Pending(g0)
  BY <1>2 DEF TaskSuspends, AddWaitingTask, IInv, TypeOK
<1> HIDE DEF t0, g0
<1>7. CASE /\ UNCHANGED callbacks
           /\ ready' = Append(ready, t0)
           /\ ~(g0 # None /\ Pending(g0))
  <2>1. /\ ready' \in Seq(Runnable)
        /\ \A t : Queued(t)' <=> (Queued(t) \/ t = t0)
        /\ \A t : Single(ready, t) /\ (t = t0 => ~Queued(t)) => Single(ready', t)
    BY <1>2, <1>7, AppendHolds DEF IInv, TypeOK, Queued
  <2>2. \A f \in Awaitable : \A t : Registered(f, t)' <=> Registered(f, t)
    BY <1>7 DEF Registered
  <2>3. TypeOK'
    BY <1>1, <1>7, <2>1 DEF IInv, TypeOK, WorkerLabels, InCallLabels
  <2>4. LockIsHeld'
    BY <1>1, <1>3 DEF IInv, LockIsHeld, InCallLabels
  <2>5. OncePerPlace'
    BY <1>1, <1>5, <1>7, <2>1 DEF IInv, OncePerPlace
  <2>6. OnePlace'
    BY <1>3, <1>4, <1>5, <2>1, <2>2 DEF IInv, OnePlace
  <2>7. SettledIsDone' /\ NothingStranded'
    BY <1>1, <1>3, <1>7 DEF IInv, SettledIsDone, NothingStranded, Settling, Pending
  <2>8. WaitsForOne'
    BY <1>1, <1>2, <1>3, <1>7, <2>1, <2>2 DEF IInv, WaitsForOne, Pending, t0, g0
  <2>9. CountedOnce'
    BY <1>1, <1>2, <1>3, <1>4, <2>1, <2>2 DEF IInv, CountedOnce
  <2>10. NobodyIsLost'
    BY <1>1, <1>3, <1>4, <2>1, <2>2 DEF IInv, NobodyIsLost, HasPlace, Pending, Called, t0
  <2> QED BY <2>3, <2>4, <2>5, <2>6, <2>7, <2>8, <2>9, <2>10 DEF IInv
<1>8. CASE /\ UNCHANGED ready
           /\ callbacks' = [callbacks EXCEPT ![g0] = Append(@, t0)]
           /\ g0 \in Awaitable /\ Pending(g0)
  <2>0. PICK g \in Awaitable : g = g0 /\ Pending(g)
    BY <1>8
  <2>1. /\ callbacks'[g] = Append(callbacks[g], t0)
        /\ \A f \in Awaitable : f # g => callbacks'[f] = callbacks[f]
        /\ callbacks[g] \in Seq(Runnable)
    BY <1>8, <2>0 DEF IInv, TypeOK
  <2>2. /\ callbacks'[g] \in Seq(Runnable)
        /\ \A t : Registered(g, t)' <=> (Registered(g, t) \/ t = t0)
        /\ \A t : Single(callbacks[g], t) /\ (t = t0 => ~Registered(g, t))
                    => Single(callbacks'[g], t)
    BY <1>2, <2>1, AppendHolds DEF Registered
  <2>3. /\ \A f \in Awaitable : \A t : f # g => (Registered(f, t)' <=> Registered(f, t))
        /\ \A t : Queued(t)' <=> Queued(t)
    BY <1>8, <2>1 DEF Registered, Queued
  <2>4. TypeOK'
    BY <1>1, <1>8, <2>0, <2>2 DEF IInv, TypeOK, WorkerLabels, InCallLabels
  <2>5. LockIsHeld'
    BY <1>1, <1>3 DEF IInv, LockIsHeld, InCallLabels
  <2>6. OncePerPlace'
    BY <1>1, <1>5, <2>0, <2>1, <2>2, <1>8 DEF IInv, OncePerPlace
  <2>7. OnePlace'
    BY <1>3, <1>4, <1>5, <2>0, <2>2, <2>3 DEF IInv, OnePlace
  <2>8. SettledIsDone' /\ NothingStranded'
    BY <1>1, <1>3, <2>0, <2>1 DEF IInv, SettledIsDone, NothingStranded, Settling, Pending
  <2>9. WaitsForOne'
    <3>1. \A t \in Tasks, f \in Awaitable : Registered(f, t)' => waitingOn'[t] = f
      BY <1>1, <2>0, <2>2, <2>3 DEF IInv, WaitsForOne, g0
    <3>2. \A t \in Tasks : waitingOn'[t] # None /\ Pending(waitingOn[t])' =>
              /\ ~Queued(t)' /\ ~Pooled(t)'
              /\ \A v \in Workers : wtask'[v] = t => wpc'[v] \notin {"called", "run"}
      BY <1>1, <1>3, <2>3 DEF IInv, WaitsForOne, Pending
    <3>3. \A d \in Callbacks :
         /\ waitingOn'[d] = None
         /\ \A v \in Workers : wtask'[v] = d =>
              /\ wpc'[v] # "yielded"
              /\ wpc'[v] \in {"settle", "leave", "release"} => ~Pending(d)'
      BY <1>1, <1>2, <1>3 DEF IInv, WaitsForOne, Pending, t0
    <3> QED BY <3>1, <3>2, <3>3 DEF WaitsForOne
  <2>10. CountedOnce'
    BY <1>1, <1>2, <1>3, <1>4, <2>2, <2>3 DEF IInv, CountedOnce
  <2>11. NobodyIsLost'
    BY <1>1, <1>3, <1>4, <2>0, <2>2, <2>3 DEF IInv, NobodyIsLost, HasPlace, Pending, Called, t0
  <2> QED BY <2>4, <2>5, <2>6, <2>7, <2>8, <2>9, <2>10, <2>11 DEF IInv
<1> QED BY <1>6, <1>7, <1>8

LEMMA TaskFinishesIInv == ASSUME IInv, NEW w \in Workers, TaskFinishes(w) PROVE IInv'
<1>0. PICK t0 \in Runnable : t0 = wtask[w]
  BY DEF TaskFinishes, IInv, TypeOK
<1>1. /\ UNCHANGED <<callbacks, closed, executing, taskLock, pos, waitingOn, ready, pool, wtask>>
      /\ UNCHANGED <<dropped, xpc, xfut, scheduled, removed>>
      /\ wpc[w] = "run"
      /\ state' = [state EXCEPT ![t0] = "FINISHED"]
      /\ wpc' = [wpc EXCEPT ![w] = "settle"]
  BY <1>0 DEF TaskFinishes, SetDone, Goto, taskVars, queueVars, externalVars
<1>2. /\ \A v \in Workers : v # w => wpc'[v] = wpc[v]
      /\ wpc'[w] = "settle"
      /\ Called(w, t0)
      /\ \A f \in Awaitable \cup Callbacks : state'[f] = IF f = t0 THEN "FINISHED" ELSE state[f]
  BY <1>0, <1>1 DEF IInv, TypeOK, Called
<1>3. /\ \A f \in Awaitable : \A t : Registered(f, t)' <=> Registered(f, t)
      /\ \A t : Queued(t)' <=> Queued(t)
      /\ \A t : Pooled(t)' <=> Pooled(t)
      /\ \A v \in Workers : \A t : Called(v, t)' <=> (v # w /\ Called(v, t))
  BY <1>1, <1>2 DEF Registered, Called, Queued, Pooled
<1>4. t0 \in Awaitable \cup Callbacks
  BY <1>0 DEF Runnable, Awaitable
<1>5. /\ ~Pending(t0)'
      /\ \A f \in Awaitable \cup Callbacks : Pending(f)' => Pending(f)
      /\ \A f \in Awaitable \cup Callbacks : Pending(f) /\ f # t0 => Pending(f)'
  BY <1>2, <1>4 DEF Pending
<1>6. TypeOK'
  BY <1>1 DEF IInv, TypeOK, WorkerLabels, InCallLabels, States
<1>7. LockIsHeld'
  BY <1>1, <1>2 DEF IInv, LockIsHeld, InCallLabels
<1>8. OncePerPlace'
  BY <1>1 DEF IInv, OncePerPlace
<1>9. OnePlace'
  BY <1>3 DEF IInv, OnePlace
<1>10. SettledIsDone'
  <2>1. \A v \in Workers : wpc'[v] = "settle" => ~Pending(wtask[v])'
    <3> SUFFICES ASSUME NEW v \in Workers, wpc'[v] = "settle" PROVE ~Pending(wtask[v])'
      OBVIOUS
    <3>1. CASE v = w
      BY <1>0, <1>1, <1>5, <3>1 DEF Pending
    <3>2. CASE v # w
      <4>1. wtask[v] \in Awaitable \cup Callbacks /\ ~Pending(wtask[v])
        BY <1>2, <3>2 DEF IInv, TypeOK, SettledIsDone, Runnable, Awaitable
      <4> QED BY <1>1, <1>2, <4>1 DEF Pending
    <3> QED BY <3>1, <3>2
  <2>2. \A x \in Externals : xpc'[x] = "settle" => ~Pending(xfut[x])'
    <3> SUFFICES ASSUME NEW x \in Externals, xpc'[x] = "settle" PROVE ~Pending(xfut[x])'
      OBVIOUS
    <3>1. xfut[x] \in Awaitable \cup Callbacks /\ ~Pending(xfut[x])
      BY <1>1 DEF IInv, TypeOK, SettledIsDone
    <3> QED BY <1>1, <1>2, <3>1 DEF Pending
  <2> QED BY <2>1, <2>2 DEF SettledIsDone
<1>11. NothingStranded'
  <2> SUFFICES ASSUME NEW f \in Awaitable, ~Pending(f)', callbacks'[f] # <<>> PROVE Settling(f)'
    BY DEF NothingStranded
  <2>1. CASE f = t0
    BY <1>0, <1>1, <1>2, <2>1 DEF Settling
  <2>2. CASE f # t0
    <3>1. Settling(f)
      BY <1>1, <1>5, <2>2 DEF IInv, NothingStranded
    <3> QED BY <1>1, <1>2, <3>1 DEF Settling
  <2> QED BY <2>1, <2>2
<1>12. WaitsForOne'
  <2>1. \A t \in Tasks :
         /\ \A f \in Awaitable : Registered(f, t)' => waitingOn'[t] = f
         /\ waitingOn'[t] # None /\ Pending(waitingOn[t])' =>
              /\ ~Queued(t)' /\ ~Pooled(t)'
              /\ \A v \in Workers : wtask'[v] = t => wpc'[v] \notin {"called", "run"}
    <3> SUFFICES ASSUME NEW t \in Tasks
                 PROVE  /\ \A f \in Awaitable : Registered(f, t)' => waitingOn'[t] = f
                        /\ waitingOn'[t] # None /\ Pending(waitingOn[t])' =>
                             /\ ~Queued(t)' /\ ~Pooled(t)'
                             /\ \A v \in Workers :
                                  wtask'[v] = t => wpc'[v] \notin {"called", "run"}
      OBVIOUS
    <3>1. waitingOn'[t] # None /\ Pending(waitingOn[t])' => Pending(waitingOn[t])
      BY <1>1, <1>2 DEF IInv, TypeOK, Pending, Runnable
    <3> QED BY <1>1, <1>2, <1>3, <3>1 DEF IInv, WaitsForOne
  <2>2. \A d \in Callbacks :
         /\ waitingOn'[d] = None
         /\ \A v \in Workers : wtask'[v] = d =>
              /\ wpc'[v] # "yielded"
              /\ wpc'[v] \in {"settle", "leave", "release"} => ~Pending(d)'
    BY <1>0, <1>1, <1>2, <1>5 DEF IInv, WaitsForOne
  <2> QED BY <2>1, <2>2 DEF WaitsForOne
<1>13. CountedOnce'
  BY <1>1, <1>3 DEF IInv, CountedOnce
<1>14. NobodyIsLost'
  <2>1. \A t \in Runnable : HasPlace(t) /\ t # t0 => HasPlace(t)'
    BY <1>0, <1>3 DEF HasPlace, Called
  <2> QED BY <1>1, <1>5, <2>1 DEF IInv, NobodyIsLost, Runnable, Awaitable
<1> QED BY <1>6, <1>7, <1>8, <1>9, <1>10, <1>11, <1>12, <1>13, <1>14 DEF IInv

LEMMA CallLeavesIInv == ASSUME IInv, NEW w \in Workers, CallLeaves(w) PROVE IInv'
<1> DEFINE t0 == wtask[w]
<1>1. /\ UNCHANGED <<state, callbacks, closed, taskLock, pos, waitingOn, ready, pool, wtask>>
      /\ UNCHANGED <<dropped, xpc, xfut, scheduled, removed>>
      /\ wpc[w] = "leave"
      /\ executing' = [executing EXCEPT ![t0] = FALSE]
      /\ wpc' = [wpc EXCEPT ![w] = "release"]
  BY DEF CallLeaves, Goto, queueVars, externalVars
<1>2. /\ \A v \in Workers : v # w => wpc'[v] = wpc[v]
      /\ wpc'[w] = "release" /\ t0 \in Runnable
      /\ \A t \in Runnable : executing'[t] <=> (t # t0 /\ executing[t])
  BY <1>1 DEF IInv, TypeOK
<1>3. /\ \A f \in Awaitable : \A t : Registered(f, t)' <=> Registered(f, t)
      /\ \A t : Queued(t)' <=> Queued(t)
      /\ \A t : Pooled(t)' <=> Pooled(t)
      /\ \A v \in Workers : \A t : Called(v, t)' <=> Called(v, t)
  BY <1>1, <1>2 DEF Registered, Called, Queued, Pooled
<1>4. TypeOK'
  BY <1>1 DEF IInv, TypeOK, WorkerLabels, InCallLabels
<1>5. LockIsHeld'
  <2>1. \A v \in Workers : wpc[v] # "idle" => wtask[v] \in Runnable
    BY DEF IInv, TypeOK
  <2> QED BY <1>1, <1>2, <2>1 DEF IInv, LockIsHeld, InCallLabels
<1> HIDE DEF t0
<1>6. OncePerPlace'
  BY <1>1 DEF IInv, OncePerPlace
<1>7. OnePlace'
  BY <1>3 DEF IInv, OnePlace
<1>8. SettledIsDone' /\ NothingStranded'
  BY <1>1, <1>2 DEF IInv, SettledIsDone, NothingStranded, Settling, Pending
<1>9. WaitsForOne'
  BY <1>1, <1>2, <1>3 DEF IInv, WaitsForOne, Pending
<1>10. CountedOnce'
  BY <1>1, <1>3 DEF IInv, CountedOnce
<1>11. NobodyIsLost'
  BY <1>1, <1>3 DEF IInv, NobodyIsLost, HasPlace, Pending
<1> QED BY <1>4, <1>5, <1>6, <1>7, <1>8, <1>9, <1>10, <1>11 DEF IInv

LEMMA CallReleasesIInv == ASSUME IInv, NEW w \in Workers, CallReleases(w) PROVE IInv'
<1> DEFINE t0 == wtask[w]
<1>1. /\ UNCHANGED <<state, callbacks, closed, executing, pos, waitingOn, ready, pool, wtask>>
      /\ UNCHANGED <<dropped, xpc, xfut, scheduled, removed>>
      /\ wpc[w] = "release"
      /\ taskLock' = [taskLock EXCEPT ![t0] = None]
      /\ wpc' = [wpc EXCEPT ![w] = "idle"]
  BY DEF CallReleases, Goto, queueVars, externalVars
<1>2. /\ \A v \in Workers : v # w => wpc'[v] = wpc[v]
      /\ wpc'[w] = "idle" /\ t0 \in Runnable
      /\ \A t \in Runnable : taskLock'[t] = IF t = t0 THEN None ELSE taskLock[t]
  BY <1>1 DEF IInv, TypeOK
<1>3. /\ \A f \in Awaitable : \A t : Registered(f, t)' <=> Registered(f, t)
      /\ \A t : Queued(t)' <=> Queued(t)
      /\ \A t : Pooled(t)' <=> Pooled(t)
      /\ \A v \in Workers : \A t : Called(v, t)' <=> Called(v, t)
  BY <1>1, <1>2 DEF Registered, Called, Queued, Pooled
<1>4. TypeOK'
  BY <1>1 DEF IInv, TypeOK, WorkerLabels
<1>5. LockIsHeld'
  <2>1. taskLock[t0] = w /\ ~executing[t0]
    BY <1>1 DEF IInv, LockIsHeld, InCallLabels
  <2>2. \A v \in Workers : wpc[v] # "idle" => wtask[v] \in Runnable
    BY DEF IInv, TypeOK
  <2>3. \A v \in Workers : v # w /\ wpc[v] \in InCallLabels => wtask[v] # t0
    BY <2>1 DEF IInv, LockIsHeld
  <2>4. \A v \in Workers : v # None /\ "idle" \notin InCallLabels
    BY DEF IInv, ConstantsAssumption, InCallLabels
  <2> HIDE DEF t0
  <2>5. \A v \in Workers : wpc'[v] \in InCallLabels => taskLock'[wtask'[v]] = v
    BY <1>1, <1>2, <2>2, <2>3, <2>4 DEF IInv, LockIsHeld, InCallLabels
  <2>6. \A t \in Runnable, v \in Workers :
           taskLock'[t] = v => wtask'[v] = t /\ wpc'[v] \in InCallLabels
    BY <1>1, <1>2, <2>1, <2>4 DEF IInv, LockIsHeld, t0
  <2>7. \A t \in Runnable : executing'[t] => taskLock'[t] # None
    BY <1>1, <1>2, <2>1 DEF IInv, LockIsHeld
  <2>8. \A v \in Workers : wpc'[v] = "release" => ~executing'[wtask'[v]]
    BY <1>1, <1>2 DEF IInv, LockIsHeld
  <2> QED BY <2>5, <2>6, <2>7, <2>8 DEF LockIsHeld
<1> HIDE DEF t0
<1>6. OncePerPlace'
  BY <1>1 DEF IInv, OncePerPlace
<1>7. OnePlace'
  BY <1>3 DEF IInv, OnePlace
<1>8. SettledIsDone' /\ NothingStranded'
  BY <1>1, <1>2 DEF IInv, SettledIsDone, NothingStranded, Settling, Pending
<1>9. WaitsForOne'
  BY <1>1, <1>2, <1>3 DEF IInv, WaitsForOne, Pending
<1>10. CountedOnce'
  BY <1>1, <1>3 DEF IInv, CountedOnce
<1>11. NobodyIsLost'
  BY <1>1, <1>3 DEF IInv, NobodyIsLost, HasPlace, Pending
<1> QED BY <1>4, <1>5, <1>6, <1>7, <1>8, <1>9, <1>10, <1>11 DEF IInv

(* Taking the list of a future that is done moves every waiter of it to    *)
(* the ready tasks and counts its callbacks; for a callback's own task it  *)
(* does nothing.                                                           *)
LEMMA TakeCallbacksHolds ==
  ASSUME IInv, NEW f \in Runnable \cup Awaitable, TakeCallbacks(f)
  PROVE  /\ callbacks' \in [Awaitable -> Seq(Runnable)]
         /\ ready' \in Seq(Runnable)
         /\ scheduled' \in [Callbacks -> Nat]
         /\ \A g \in Awaitable : callbacks'[g] = IF g = f THEN <<>> ELSE callbacks[g]
         /\ \A g \in Awaitable : \A t : Registered(g, t)' <=> (g # f /\ Registered(g, t))
         /\ \A t : Queued(t)' <=> (Queued(t) \/ (f \in Awaitable /\ Registered(f, t)))
         /\ \A t \in Runnable : Single(ready', t)
         /\ \A t \in Runnable, g \in Awaitable : Single(callbacks'[g], t)
         /\ \A d \in Callbacks : scheduled'[d] =
              scheduled[d] + (IF f \in Awaitable /\ Registered(f, d) THEN 1 ELSE 0)
<1>1. CASE f \in Awaitable
  <2>1. callbacks[f] \in Seq(Runnable) /\ ready \in Seq(Runnable)
    BY <1>1 DEF IInv, TypeOK
  <2>2. /\ callbacks' = [callbacks EXCEPT ![f] = <<>>]
        /\ ready' = ready \o callbacks[f]
        /\ scheduled' = Scheduling(callbacks[f])
    BY <1>1 DEF TakeCallbacks
  <2>3. /\ callbacks' \in [Awaitable -> Seq(Runnable)]
        /\ \A g \in Awaitable : callbacks'[g] = IF g = f THEN <<>> ELSE callbacks[g]
    BY <1>1, <2>2, EmptySeq DEF IInv, TypeOK
  <2>4. \A g \in Awaitable : \A t : Registered(g, t)' <=> (g # f /\ Registered(g, t))
    BY <2>3, EmptyHolds DEF Registered
  <2>5. \A t \in Runnable, g \in Awaitable : Single(callbacks'[g], t)
    BY <2>3, EmptyHolds DEF IInv, OncePerPlace
  <2>6. /\ ready' \in Seq(Runnable)
        /\ \A t : Queued(t)' <=> (Queued(t) \/ Registered(f, t))
        /\ \A t : Single(ready, t) /\ Single(callbacks[f], t) /\ ~(Queued(t) /\ Registered(f, t))
                    => Single(ready', t)
    BY <2>1, <2>2, ConcatHolds DEF Queued, Registered
  <2>7. \A t \in Runnable : Single(ready', t)
    BY <1>1, <2>6 DEF IInv, OncePerPlace, OnePlace
  <2>8. \A d \in Callbacks : Occurrences(callbacks[f], d) = IF Registered(f, d) THEN 1 ELSE 0
    BY <1>1, <2>1, OccurrencesOfSingle DEF IInv, OncePerPlace, Registered, Runnable
  <2>9. \A d \in Callbacks : scheduled'[d] = scheduled[d] + (IF Registered(f, d) THEN 1 ELSE 0)
    BY <2>2, <2>8 DEF Scheduling
  <2>10. scheduled' \in [Callbacks -> Nat]
    <3>1. ASSUME NEW d \in Callbacks PROVE scheduled'[d] \in Nat
      <4>1. scheduled[d] \in Nat
        BY DEF IInv, TypeOK
      <4>2. scheduled'[d] = scheduled[d] \/ scheduled'[d] = scheduled[d] + 1
        BY <2>9, <4>1
      <4> QED BY <4>1, <4>2
    <3>2. scheduled' = [d \in Callbacks |-> scheduled'[d]]
      BY <2>2 DEF Scheduling
    <3> QED BY <3>1, <3>2
  <2> QED BY <1>1, <2>3, <2>4, <2>5, <2>6, <2>7, <2>9, <2>10
<1>2. CASE f \notin Awaitable
  <2>1. UNCHANGED <<callbacks, ready, scheduled>>
    BY <1>2 DEF TakeCallbacks
  <2>2. /\ \A g \in Awaitable : \A t : Registered(g, t)' <=> Registered(g, t)
        /\ \A t : Queued(t)' <=> Queued(t)
    BY <2>1 DEF Registered, Queued
  <2>3. \A d \in Callbacks : scheduled'[d] =
              scheduled[d] + (IF f \in Awaitable /\ Registered(f, d) THEN 1 ELSE 0)
    BY <1>2, <2>1 DEF IInv, TypeOK
  <2> QED BY <1>2, <2>1, <2>2, <2>3 DEF IInv, TypeOK, OncePerPlace
<1> QED BY <1>1, <1>2

LEMMA TaskSettlesIInv == ASSUME IInv, NEW w \in Workers, TaskSettles(w) PROVE IInv'
<1>0. PICK t0 \in Runnable : t0 = wtask[w]
  BY DEF TaskSettles, IInv, TypeOK
<1>1. /\ UNCHANGED <<state, closed, executing, taskLock, pos, waitingOn, pool, wtask>>
      /\ UNCHANGED <<dropped, xpc, xfut, removed>>
      /\ wpc[w] = "settle"
      /\ wpc' = [wpc EXCEPT ![w] = "leave"]
      /\ TakeCallbacks(t0)
  BY <1>0 DEF TaskSettles, Goto, taskVars, externalVars
<1>2. /\ \A v \in Workers : v # w => wpc'[v] = wpc[v]
      /\ wpc'[w] = "leave" /\ ~Pending(t0)
  BY <1>0, <1>1 DEF IInv, TypeOK, SettledIsDone
<1>3. /\ callbacks' \in [Awaitable -> Seq(Runnable)]
      /\ ready' \in Seq(Runnable)
      /\ scheduled' \in [Callbacks -> Nat]
      /\ \A g \in Awaitable : callbacks'[g] = IF g = t0 THEN <<>> ELSE callbacks[g]
      /\ \A g \in Awaitable : \A t : Registered(g, t)' <=> (g # t0 /\ Registered(g, t))
      /\ \A t : Queued(t)' <=> (Queued(t) \/ (t0 \in Awaitable /\ Registered(t0, t)))
      /\ \A t \in Runnable : Single(ready', t)
      /\ \A t \in Runnable, g \in Awaitable : Single(callbacks'[g], t)
      /\ \A d \in Callbacks : scheduled'[d] =
           scheduled[d] + (IF t0 \in Awaitable /\ Registered(t0, d) THEN 1 ELSE 0)
  BY <1>1, TakeCallbacksHolds
<1>4. /\ \A t : Pooled(t)' <=> Pooled(t)
      /\ \A v \in Workers : \A t : Called(v, t)' <=> Called(v, t)
  BY <1>1, <1>2 DEF Called, Pooled
<1>5. TypeOK'
  BY <1>1, <1>3 DEF IInv, TypeOK, WorkerLabels, InCallLabels
<1>6. LockIsHeld'
  BY <1>1, <1>2 DEF IInv, LockIsHeld, InCallLabels
<1>7. OncePerPlace'
  BY <1>1, <1>3 DEF IInv, OncePerPlace
<1>8. OnePlace'
  BY <1>3, <1>4 DEF IInv, OnePlace
<1>9. SettledIsDone'
  BY <1>1, <1>2 DEF IInv, SettledIsDone, Pending
<1>10. NothingStranded'
  <2> SUFFICES ASSUME NEW f \in Awaitable, ~Pending(f)', callbacks'[f] # <<>> PROVE Settling(f)'
    BY DEF NothingStranded
  <2>1. f # t0 /\ Settling(f)
    BY <1>1, <1>3 DEF IInv, NothingStranded, Pending
  <2> QED BY <1>0, <1>1, <1>2, <2>1 DEF Settling
<1>11. WaitsForOne'
  BY <1>0, <1>1, <1>2, <1>3, <1>4 DEF IInv, WaitsForOne, Pending
<1>12. CountedOnce'
  <2> SUFFICES ASSUME NEW d \in Callbacks
               PROVE /\ scheduled'[d] <= 1
                     /\ scheduled'[d] = 1 \/ d \in removed' =>
                          \A f \in Awaitable : ~Registered(f, d)'
                     /\ d \in removed' => scheduled'[d] = 0
                     /\ scheduled'[d] = 0 => /\ ~Queued(d)' /\ ~Pooled(d)'
                                             /\ \A v \in Workers : ~Called(v, d)'
    BY DEF CountedOnce
  <2>0. scheduled[d] \in {0, 1}
    BY DEF IInv, TypeOK, CountedOnce
  <2>1. CASE t0 \in Awaitable /\ Registered(t0, d)
    <3>1. scheduled[d] = 0 /\ d \notin removed /\ scheduled'[d] = 1
      BY <1>3, <2>0, <2>1 DEF IInv, CountedOnce
    <3>2. \A f \in Awaitable : ~Registered(f, d)'
      BY <1>3, <2>1 DEF IInv, OnePlace, Runnable
    <3> QED BY <1>1, <3>1, <3>2
  <2>2. CASE ~(t0 \in Awaitable /\ Registered(t0, d))
    <3>1. scheduled'[d] = scheduled[d]
      BY <1>3, <2>0, <2>2
    <3> QED BY <1>1, <1>3, <1>4, <2>2, <3>1 DEF IInv, CountedOnce
  <2> QED BY <2>1, <2>2
<1>13. NobodyIsLost'
  <2>1. \A t \in Runnable : HasPlace(t) => HasPlace(t)'
    BY <1>3, <1>4 DEF HasPlace
  <2>2. \A d \in Callbacks : scheduled'[d] = 1 => scheduled[d] = 1 \/ HasPlace(d)'
    BY <1>3 DEF IInv, TypeOK, HasPlace
  <2> QED BY <1>1, <2>1, <2>2 DEF IInv, NobodyIsLost, Runnable, Pending
<1> QED BY <1>5, <1>6, <1>7, <1>8, <1>9, <1>10, <1>11, <1>12, <1>13 DEF IInv

LEMMA SettlesIInv == ASSUME IInv, NEW x \in Externals, Settles(x) PROVE IInv'
<1>0. PICK f0 \in Awaitable : f0 = xfut[x]
  BY DEF Settles, IInv, TypeOK
<1>1. /\ UNCHANGED <<state, closed, executing, taskLock, pos, waitingOn, pool, wpc, wtask>>
      /\ UNCHANGED <<dropped, removed>>
      /\ xpc[x] = "settle"
      /\ xpc' = [xpc EXCEPT ![x] = "done"]
      /\ xfut' = [xfut EXCEPT ![x] = f0]
      /\ TakeCallbacks(f0)
  BY <1>0 DEF Settles, XGoto, taskVars, workerVars
<1>2. /\ \A y \in Externals : y # x => xpc'[y] = xpc[y] /\ xfut'[y] = xfut[y]
      /\ xpc'[x] = "done" /\ ~Pending(f0)
  BY <1>0, <1>1 DEF IInv, TypeOK, SettledIsDone
<1>3. /\ callbacks' \in [Awaitable -> Seq(Runnable)]
      /\ ready' \in Seq(Runnable)
      /\ scheduled' \in [Callbacks -> Nat]
      /\ \A g \in Awaitable : callbacks'[g] = IF g = f0 THEN <<>> ELSE callbacks[g]
      /\ \A g \in Awaitable : \A t : Registered(g, t)' <=> (g # f0 /\ Registered(g, t))
      /\ \A t : Queued(t)' <=> (Queued(t) \/ Registered(f0, t))
      /\ \A t \in Runnable : Single(ready', t)
      /\ \A t \in Runnable, g \in Awaitable : Single(callbacks'[g], t)
      /\ \A d \in Callbacks : scheduled'[d] =
           scheduled[d] + (IF Registered(f0, d) THEN 1 ELSE 0)
  BY <1>1, TakeCallbacksHolds
<1>4. /\ \A t : Pooled(t)' <=> Pooled(t)
      /\ \A v \in Workers : \A t : Called(v, t)' <=> Called(v, t)
  BY <1>1 DEF Called, Pooled
<1>5. TypeOK'
  BY <1>1, <1>3 DEF IInv, TypeOK
<1>6. LockIsHeld'
  BY <1>1 DEF IInv, LockIsHeld
<1>7. OncePerPlace'
  BY <1>1, <1>3 DEF IInv, OncePerPlace
<1>8. OnePlace'
  BY <1>3, <1>4 DEF IInv, OnePlace
<1>9. SettledIsDone'
  BY <1>1, <1>2 DEF IInv, SettledIsDone, Pending
<1>10. NothingStranded'
  <2> SUFFICES ASSUME NEW f \in Awaitable, ~Pending(f)', callbacks'[f] # <<>> PROVE Settling(f)'
    BY DEF NothingStranded
  <2>1. f # f0 /\ Settling(f)
    BY <1>1, <1>3 DEF IInv, NothingStranded, Pending
  <2> QED BY <1>0, <1>1, <1>2, <2>1 DEF Settling
<1>11. WaitsForOne'
  BY <1>0, <1>1, <1>2, <1>3, <1>4 DEF IInv, WaitsForOne, Pending
<1>12. CountedOnce'
  <2> SUFFICES ASSUME NEW d \in Callbacks
               PROVE /\ scheduled'[d] <= 1
                     /\ scheduled'[d] = 1 \/ d \in removed' =>
                          \A f \in Awaitable : ~Registered(f, d)'
                     /\ d \in removed' => scheduled'[d] = 0
                     /\ scheduled'[d] = 0 => /\ ~Queued(d)' /\ ~Pooled(d)'
                                             /\ \A v \in Workers : ~Called(v, d)'
    BY DEF CountedOnce
  <2>0. scheduled[d] \in {0, 1}
    BY DEF IInv, TypeOK, CountedOnce
  <2>1. CASE Registered(f0, d)
    <3>1. scheduled[d] = 0 /\ d \notin removed /\ scheduled'[d] = 1
      BY <1>3, <2>0, <2>1 DEF IInv, CountedOnce
    <3>2. \A f \in Awaitable : ~Registered(f, d)'
      BY <1>3, <2>1 DEF IInv, OnePlace, Runnable
    <3> QED BY <1>1, <3>1, <3>2
  <2>2. CASE ~Registered(f0, d)
    <3>1. scheduled'[d] = scheduled[d]
      BY <1>3, <2>0, <2>2
    <3> QED BY <1>1, <1>3, <1>4, <2>2, <3>1 DEF IInv, CountedOnce
  <2> QED BY <2>1, <2>2
<1>13. NobodyIsLost'
  <2>1. \A t \in Runnable : HasPlace(t) => HasPlace(t)'
    BY <1>3, <1>4 DEF HasPlace
  <2>2. \A d \in Callbacks : scheduled'[d] = 1 => scheduled[d] = 1 \/ HasPlace(d)'
    BY <1>3 DEF IInv, TypeOK, HasPlace
  <2> QED BY <1>1, <2>1, <2>2 DEF IInv, NobodyIsLost, Runnable, Pending
<1> QED BY <1>5, <1>6, <1>7, <1>8, <1>9, <1>10, <1>11, <1>12, <1>13 DEF IInv

(* A future that becomes done and whose list its finisher will take: what  *)
(* set_result() and the second half of cancel() share.                     *)
LEMMA FutureDoneIInv ==
  ASSUME IInv, NEW x \in Externals, NEW f0 \in Awaitable, NEW s \in States \ {"PENDING"},
         xpc[x] # "settle",
         UNCHANGED <<callbacks, closed, executing, taskLock, pos, waitingOn, ready, pool>>,
         UNCHANGED <<wpc, wtask, dropped, scheduled, removed>>,
         state' = [state EXCEPT ![f0] = s],
         xpc' = [xpc EXCEPT ![x] = "settle"],
         xfut' = [xfut EXCEPT ![x] = f0]
  PROVE  IInv'
<1>1. /\ \A y \in Externals : y # x => xpc'[y] = xpc[y] /\ xfut'[y] = xfut[y]
      /\ xpc'[x] = "settle" /\ xfut'[x] = f0
      /\ \A f \in Awaitable \cup Callbacks : state'[f] = IF f = f0 THEN s ELSE state[f]
  BY DEF IInv, TypeOK
<1>2. /\ \A f \in Awaitable : \A t : Registered(f, t)' <=> Registered(f, t)
      /\ \A t : Queued(t)' <=> Queued(t)
      /\ \A t : Pooled(t)' <=> Pooled(t)
      /\ \A v \in Workers : \A t : Called(v, t)' <=> Called(v, t)
  BY DEF Registered, Called, Queued, Pooled
<1>3. /\ ~Pending(f0)'
      /\ \A f \in Awaitable \cup Callbacks : Pending(f)' => Pending(f)
      /\ \A f \in Awaitable \cup Callbacks : Pending(f) /\ f # f0 => Pending(f)'
  BY <1>1 DEF Pending
<1>4. TypeOK'
  BY <1>1 DEF IInv, TypeOK
<1>5. LockIsHeld'
  BY DEF IInv, LockIsHeld
<1>6. OncePerPlace'
  BY DEF IInv, OncePerPlace
<1>7. OnePlace'
  BY <1>2 DEF IInv, OnePlace
<1>8. SettledIsDone'
  <2>1. \A v \in Workers : wpc'[v] = "settle" => ~Pending(wtask[v])'
    <3> SUFFICES ASSUME NEW v \in Workers, wpc'[v] = "settle" PROVE ~Pending(wtask[v])'
      OBVIOUS
    <3>1. wtask[v] \in Awaitable \cup Callbacks /\ ~Pending(wtask[v])
      BY DEF IInv, TypeOK, SettledIsDone, Runnable, Awaitable
    <3> QED BY <1>1, <3>1 DEF Pending
  <2>2. \A y \in Externals : xpc'[y] = "settle" => ~Pending(xfut[y])'
    <3> SUFFICES ASSUME NEW y \in Externals, xpc'[y] = "settle" PROVE ~Pending(xfut[y])'
      OBVIOUS
    <3>1. CASE y = x
      BY <1>1, <3>1 DEF Pending
    <3>2. CASE y # x
      <4>1. xfut[y] \in Awaitable \cup Callbacks /\ ~Pending(xfut[y])
        BY <1>1, <3>2 DEF IInv, TypeOK, SettledIsDone
      <4> QED BY <1>1, <3>2, <4>1 DEF Pending
    <3> QED BY <3>1, <3>2
  <2> QED BY <2>1, <2>2 DEF SettledIsDone
<1>9. NothingStranded'
  <2> SUFFICES ASSUME NEW f \in Awaitable, ~Pending(f)', callbacks'[f] # <<>> PROVE Settling(f)'
    BY DEF NothingStranded
  <2>1. CASE f = f0
    BY <1>1, <2>1 DEF Settling
  <2>2. CASE f # f0
    <3>1. Settling(f)
      BY <1>3, <2>2 DEF IInv, NothingStranded
    <3> QED BY <1>1, <3>1 DEF Settling
  <2> QED BY <2>1, <2>2
<1>10. WaitsForOne'
  <2>1. \A t \in Tasks : waitingOn'[t] # None /\ Pending(waitingOn[t])' => Pending(waitingOn[t])
    BY <1>1 DEF IInv, TypeOK, Pending, Runnable
  <2>2. \A d \in Callbacks : Pending(d)' => Pending(d)
    BY <1>3
  <2> QED BY <1>2, <2>1, <2>2 DEF IInv, WaitsForOne
<1>11. CountedOnce'
  BY <1>2 DEF IInv, CountedOnce
<1>12. NobodyIsLost'
  <2>1. \A t \in Runnable : HasPlace(t) => HasPlace(t)'
    BY <1>2 DEF HasPlace
  <2> QED BY <1>3, <2>1 DEF IInv, NobodyIsLost, Runnable, Awaitable
<1> QED BY <1>4, <1>5, <1>6, <1>7, <1>8, <1>9, <1>10, <1>11, <1>12 DEF IInv

LEMMA SetResultIInv ==
  ASSUME IInv, NEW x \in Externals, NEW f \in Futures, SetResult(x, f) PROVE IInv'
<1>1. /\ UNCHANGED <<callbacks, closed, executing, taskLock, pos, waitingOn, ready, pool>>
      /\ UNCHANGED <<wpc, wtask, dropped, scheduled, removed>>
      /\ xpc[x] # "settle" /\ f \in Awaitable /\ "FINISHED" \in States \ {"PENDING"}
      /\ state' = [state EXCEPT ![f] = "FINISHED"]
      /\ xpc' = [xpc EXCEPT ![x] = "settle"]
      /\ xfut' = [xfut EXCEPT ![x] = f]
  BY DEF SetResult, SetDone, XGoto, taskVars, queueVars, workerVars, Awaitable, States
<1> QED BY <1>1, FutureDoneIInv

LEMMA CancelAssignsIInv == ASSUME IInv, NEW x \in Externals, CancelAssigns(x) PROVE IInv'
<1>0. PICK f \in Awaitable : f = xfut[x]
  BY DEF CancelAssigns, IInv, TypeOK
<1>1. /\ UNCHANGED <<callbacks, closed, executing, taskLock, pos, waitingOn, ready, pool>>
      /\ UNCHANGED <<wpc, wtask, dropped, scheduled, removed>>
      /\ xpc[x] # "settle" /\ "CANCELLED" \in States \ {"PENDING"}
      /\ state' = [state EXCEPT ![f] = "CANCELLED"]
      /\ xpc' = [xpc EXCEPT ![x] = "settle"]
      /\ xfut' = [xfut EXCEPT ![x] = f]
  BY <1>0 DEF CancelAssigns, XGoto, taskVars, queueVars, workerVars, States
<1> QED BY <1>1, FutureDoneIInv

(* A thread that goes on to another step than "settle" and changes nothing *)
(* of the futures and the tasks.                                           *)
LEMMA ThreadMovesIInv ==
  ASSUME IInv, NEW x \in Externals, NEW f0 \in Awaitable, NEW l \in {"cancel", "cancelling", "done"},
         xpc[x] # "settle",
         UNCHANGED <<state, callbacks, executing, taskLock, pos, waitingOn, ready, pool>>,
         UNCHANGED <<wpc, wtask, dropped, scheduled, removed>>,
         xpc' = [xpc EXCEPT ![x] = l],
         xfut' = [xfut EXCEPT ![x] = f0]
  PROVE  IInv'
<1>1. /\ \A y \in Externals : y # x => xpc'[y] = xpc[y] /\ xfut'[y] = xfut[y]
      /\ xpc'[x] = l /\ l # "settle"
  BY DEF IInv, TypeOK
<1>2. /\ \A f \in Awaitable : \A t : Registered(f, t)' <=> Registered(f, t)
      /\ \A t : Queued(t)' <=> Queued(t)
      /\ \A t : Pooled(t)' <=> Pooled(t)
      /\ \A v \in Workers : \A t : Called(v, t)' <=> Called(v, t)
  BY DEF Registered, Called, Queued, Pooled
<1>3. TypeOK'
  BY <1>1 DEF IInv, TypeOK
<1>4. LockIsHeld' /\ OncePerPlace'
  BY DEF IInv, LockIsHeld, OncePerPlace
<1>5. OnePlace'
  BY <1>2 DEF IInv, OnePlace
<1>6. SettledIsDone' /\ NothingStranded'
  BY <1>1 DEF IInv, SettledIsDone, NothingStranded, Settling, Pending
<1>7. WaitsForOne'
  BY <1>2 DEF IInv, WaitsForOne, Pending
<1>8. CountedOnce'
  BY <1>2 DEF IInv, CountedOnce
<1>9. NobodyIsLost'
  BY <1>2 DEF IInv, NobodyIsLost, HasPlace, Pending
<1> QED BY <1>3, <1>4, <1>5, <1>6, <1>7, <1>8, <1>9 DEF IInv

LEMMA CloseCoroutineIInv ==
  ASSUME IInv, NEW x \in Externals, NEW t \in Tasks, CloseCoroutine(x, t) PROVE IInv'
<1>1. PICK l \in {"cancel", "cancelling", "done"} :
        xpc' = [xpc EXCEPT ![x] = l] /\ xfut' = [xfut EXCEPT ![x] = t]
  BY DEF CloseCoroutine, XGoto
<1>2. /\ UNCHANGED <<state, callbacks, executing, taskLock, pos, waitingOn, ready, pool>>
      /\ UNCHANGED <<wpc, wtask, dropped, scheduled, removed>>
      /\ xpc[x] # "settle" /\ t \in Awaitable
  BY DEF CloseCoroutine, taskVars, queueVars, workerVars, Awaitable
<1> QED BY <1>1, <1>2, ThreadMovesIInv

LEMMA CancelTestsIInv ==
  ASSUME IInv, NEW x \in Externals, NEW f \in Awaitable, CancelTests(x, f) PROVE IInv'
<1>1. PICK l \in {"cancel", "cancelling", "done"} :
        xpc' = [xpc EXCEPT ![x] = l] /\ xfut' = [xfut EXCEPT ![x] = f]
  BY DEF CancelTests, XGoto
<1>2. /\ UNCHANGED <<state, callbacks, executing, taskLock, pos, waitingOn, ready, pool>>
      /\ UNCHANGED <<wpc, wtask, dropped, scheduled, removed>>
      /\ xpc[x] # "settle"
  BY DEF CancelTests, taskVars, queueVars, workerVars
<1> QED BY <1>1, <1>2, ThreadMovesIInv

LEMMA AddDoneCallbackIInv ==
  ASSUME IInv, NEW x \in Externals, NEW f0 \in Awaitable, NEW d0 \in Callbacks,
         AddDoneCallback(x, f0, d0)
  PROVE  IInv'
<1>1. /\ UNCHANGED <<state, closed, executing, taskLock, pos, waitingOn, pool, wpc, wtask>>
      /\ UNCHANGED <<dropped, removed>>
      /\ xpc[x] = "start" /\ scheduled[d0] = 0 /\ d0 \notin removed
      /\ xpc' = [xpc EXCEPT ![x] = "done"]
      /\ xfut' = [xfut EXCEPT ![x] = f0]
  BY DEF AddDoneCallback, XGoto, taskVars, workerVars
<1>2. /\ \A y \in Externals : y # x => xpc'[y] = xpc[y] /\ xfut'[y] = xfut[y]
      /\ xpc'[x] = "done" /\ d0 \in Runnable /\ d0 \notin Tasks
  BY <1>1 DEF IInv, TypeOK, ConstantsAssumption, Awaitable, Runnable
<1>3. /\ ~Queued(d0) /\ ~Pooled(d0)
      /\ \A f \in Awaitable : ~Registered(f, d0)
      /\ \A w \in Workers : ~Called(w, d0)
  BY <1>1 DEF AddDoneCallback, IInv, CountedOnce, Registered
<1>4. /\ \A t : Pooled(t)' <=> Pooled(t)
      /\ \A w \in Workers : \A t : Called(w, t)' <=> Called(w, t)
  BY <1>1 DEF Called, Pooled
<1>5. LockIsHeld'
  BY <1>1 DEF IInv, LockIsHeld
<1>6. SettledIsDone'
  BY <1>1, <1>2 DEF IInv, SettledIsDone, Pending
<1>7. \A f : Settling(f) => Settling(f)'
  BY <1>1, <1>2 DEF Settling
<1>8. CASE Pending(f0)
  <2>1. /\ callbacks' = [callbacks EXCEPT ![f0] = Append(@, d0)]
        /\ UNCHANGED <<ready, scheduled>>
    BY <1>8 DEF AddDoneCallback
  <2>2. /\ callbacks'[f0] = Append(callbacks[f0], d0) /\ callbacks[f0] \in Seq(Runnable)
        /\ \A f \in Awaitable : f # f0 => callbacks'[f] = callbacks[f]
    BY <2>1 DEF IInv, TypeOK
  <2>3. /\ callbacks'[f0] \in Seq(Runnable)
        /\ \A t : Registered(f0, t)' <=> (Registered(f0, t) \/ t = d0)
        /\ \A t : Single(callbacks[f0], t) /\ (t = d0 => ~Registered(f0, t))
                    => Single(callbacks'[f0], t)
    BY <1>2, <2>2, AppendHolds DEF Registered
  <2>4. /\ \A f \in Awaitable : \A t : f # f0 => (Registered(f, t)' <=> Registered(f, t))
        /\ \A t : Queued(t)' <=> Queued(t)
    BY <2>1, <2>2 DEF Registered, Queued
  <2>5. TypeOK'
    BY <1>1, <2>1, <2>3 DEF IInv, TypeOK
  <2>6. OncePerPlace'
    BY <1>1, <1>3, <2>1, <2>2, <2>3 DEF IInv, OncePerPlace
  <2>7. OnePlace'
    BY <1>3, <1>4, <2>3, <2>4 DEF IInv, OnePlace
  <2>8. NothingStranded'
    BY <1>1, <1>7, <1>8, <2>2 DEF IInv, NothingStranded, Pending
  <2>9. WaitsForOne'
    BY <1>1, <1>2, <1>4, <2>3, <2>4 DEF IInv, WaitsForOne, Pending
  <2>10. CountedOnce'
    BY <1>1, <1>4, <2>1, <2>3, <2>4 DEF IInv, CountedOnce
  <2>11. NobodyIsLost'
    BY <1>1, <1>4, <2>1, <2>3, <2>4 DEF IInv, NobodyIsLost, HasPlace, Pending
  <2> QED BY <1>5, <1>6, <2>5, <2>6, <2>7, <2>8, <2>9, <2>10, <2>11 DEF IInv
<1>9. CASE ~Pending(f0)
  <2>1. /\ ready' = Append(ready, d0)
        /\ scheduled' = Scheduling(<<d0>>)
        /\ UNCHANGED callbacks
    BY <1>9 DEF AddDoneCallback
  <2>2. /\ ready' \in Seq(Runnable)
        /\ \A t : Queued(t)' <=> (Queued(t) \/ t = d0)
        /\ \A t : Single(ready, t) /\ (t = d0 => ~Queued(t)) => Single(ready', t)
    BY <1>2, <2>1, AppendHolds DEF IInv, TypeOK, Queued
  <2>3. \A f \in Awaitable : \A t : Registered(f, t)' <=> Registered(f, t)
    BY <2>1 DEF Registered
  <2>4. \A d \in Callbacks : scheduled'[d] = scheduled[d] + (IF d = d0 THEN 1 ELSE 0)
    <3>1. /\ Append(<<>>, d0) = <<d0>> /\ <<>> \in Seq(Runnable)
          /\ \A t : ~Contains(<<>>, t) /\ Single(<<>>, t)
      BY EmptyHolds, EmptySeq
    <3>2. /\ Append(<<>>, d0) \in Seq(Runnable)
          /\ \A t : Contains(Append(<<>>, d0), t) <=> (Contains(<<>>, t) \/ t = d0)
          /\ \A t : Single(<<>>, t) /\ (t = d0 => ~Contains(<<>>, t)) => Single(Append(<<>>, d0), t)
      BY <1>2, <3>1, AppendHolds
    <3>3. /\ <<d0>> \in Seq(Runnable)
          /\ \A t : Contains(<<d0>>, t) <=> t = d0
          /\ \A t : Single(<<d0>>, t)
      BY <3>1, <3>2, Zenon
    <3>4. \A d : Occurrences(<<d0>>, d) = IF d = d0 THEN 1 ELSE 0
      BY <3>3, OccurrencesOfSingle
    <3> QED BY <2>1, <3>4 DEF Scheduling
  <2>5. \A d \in Callbacks : scheduled'[d] = IF d = d0 THEN 1 ELSE scheduled[d]
    <3> SUFFICES ASSUME NEW d \in Callbacks
                 PROVE  scheduled'[d] = IF d = d0 THEN 1 ELSE scheduled[d]
      OBVIOUS
    <3>1. scheduled[d] \in Nat
      BY DEF IInv, TypeOK
    <3> QED BY <1>1, <2>4, <3>1
  <2>6. scheduled' \in [Callbacks -> Nat]
    <3>1. ASSUME NEW d \in Callbacks PROVE scheduled'[d] \in Nat
      <4>1. scheduled[d] \in Nat
        BY DEF IInv, TypeOK
      <4> QED BY <2>5, <4>1
    <3>2. scheduled' = [d \in Callbacks |-> scheduled'[d]]
      BY <2>1 DEF Scheduling
    <3> QED BY <3>1, <3>2
  <2>7. TypeOK'
    BY <1>1, <2>1, <2>2, <2>6 DEF IInv, TypeOK
  <2>8. OncePerPlace'
    BY <1>1, <1>3, <2>1, <2>2 DEF IInv, OncePerPlace
  <2>9. OnePlace'
    BY <1>3, <1>4, <2>2, <2>3 DEF IInv, OnePlace
  <2>10. NothingStranded'
    BY <1>1, <1>7, <2>1 DEF IInv, NothingStranded, Pending
  <2>11. WaitsForOne'
    BY <1>1, <1>2, <1>4, <2>2, <2>3 DEF IInv, WaitsForOne, Pending
  <2>12. CountedOnce'
    BY <1>1, <1>3, <1>4, <2>2, <2>3, <2>5 DEF IInv, CountedOnce
  <2>13. NobodyIsLost'
    BY <1>1, <1>4, <2>2, <2>3, <2>5 DEF IInv, NobodyIsLost, HasPlace, Pending
  <2> QED BY <1>5, <1>6, <2>7, <2>8, <2>9, <2>10, <2>11, <2>12, <2>13 DEF IInv
<1> QED BY <1>8, <1>9

LEMMA RemoveDoneCallbackIInv ==
  ASSUME IInv, NEW x \in Externals, NEW f0 \in Awaitable, NEW d0 \in Callbacks,
         RemoveDoneCallback(x, f0, d0)
  PROVE  IInv'
<1>1. /\ UNCHANGED <<state, closed, executing, taskLock, pos, waitingOn, ready, pool, wpc>>
      /\ UNCHANGED <<wtask, dropped, scheduled>>
      /\ xpc[x] = "start"
      /\ xpc' = [xpc EXCEPT ![x] = "done"]
      /\ xfut' = [xfut EXCEPT ![x] = f0]
  BY DEF RemoveDoneCallback, XGoto, taskVars, queueVars, workerVars
<1>2. CASE ~Registered(f0, d0)
  <2>1. UNCHANGED <<callbacks, removed>>
    BY <1>2 DEF RemoveDoneCallback, Registered
  <2> QED BY <1>1, <2>1, ThreadMovesIInv
<1>3. CASE Registered(f0, d0)
  <2>1. /\ callbacks' = [callbacks EXCEPT ![f0] = RemoveFirst(@, d0)]
        /\ removed' = removed \cup {d0}
    BY <1>3 DEF RemoveDoneCallback, Registered
  <2>2. /\ callbacks'[f0] = RemoveFirst(callbacks[f0], d0) /\ callbacks[f0] \in Seq(Runnable)
        /\ \A f \in Awaitable : f # f0 => callbacks'[f] = callbacks[f]
        /\ Single(callbacks[f0], d0) /\ d0 \in Runnable /\ d0 \notin Tasks
    BY <2>1 DEF IInv, TypeOK, OncePerPlace, Runnable, ConstantsAssumption, Awaitable
  <2>3. /\ callbacks'[f0] \in Seq(Runnable)
        /\ \A t : Registered(f0, t)' <=> (Registered(f0, t) /\ t # d0)
        /\ \A t : Single(callbacks[f0], t) => Single(callbacks'[f0], t)
    BY <1>3, <2>2, RemoveFirstHolds DEF Registered
  <2>4. /\ \A f \in Awaitable : \A t : f # f0 => (Registered(f, t)' <=> Registered(f, t))
        /\ \A t : Queued(t)' <=> Queued(t)
        /\ \A t : Pooled(t)' <=> Pooled(t)
        /\ \A w \in Workers : \A t : Called(w, t)' <=> Called(w, t)
    BY <1>1, <2>2 DEF Registered, Queued, Pooled, Called
  <2>5. /\ \A y \in Externals : y # x => xpc'[y] = xpc[y] /\ xfut'[y] = xfut[y]
        /\ xpc'[x] = "done"
    BY <1>1 DEF IInv, TypeOK
  <2>6. TypeOK'
    BY <1>1, <2>1, <2>3 DEF IInv, TypeOK
  <2>7. LockIsHeld'
    BY <1>1 DEF IInv, LockIsHeld
  <2>8. OncePerPlace'
    BY <1>1, <2>2, <2>3 DEF IInv, OncePerPlace
  <2>9. OnePlace'
    BY <2>3, <2>4 DEF IInv, OnePlace
  <2>10. SettledIsDone'
    BY <1>1, <2>5 DEF IInv, SettledIsDone, Pending
  <2>11. NothingStranded'
    <3> SUFFICES ASSUME NEW f \in Awaitable, ~Pending(f)', callbacks'[f] # <<>> PROVE Settling(f)'
      BY DEF NothingStranded
    <3>1. callbacks[f] # <<>>
      <4>1. CASE f = f0
        BY <1>3, <4>1, EmptyHolds DEF Registered
      <4>2. CASE f # f0
        BY <2>2, <4>2
      <4> QED BY <4>1, <4>2
    <3>2. Settling(f)
      BY <1>1, <3>1 DEF IInv, NothingStranded, Pending
    <3> QED BY <1>1, <2>5, <3>2 DEF Settling
  <2>12. WaitsForOne'
    BY <1>1, <2>3, <2>4 DEF IInv, WaitsForOne, Pending
  <2>13. CountedOnce'
    <3>1. scheduled[d0] = 0
      BY <1>3 DEF IInv, TypeOK, CountedOnce
    <3>2. \A f \in Awaitable : ~Registered(f, d0)'
      BY <1>3, <2>2, <2>3, <2>4 DEF IInv, OnePlace
    <3> QED BY <1>1, <2>1, <2>3, <2>4, <3>1, <3>2 DEF IInv, CountedOnce
  <2>14. NobodyIsLost'
    <3>1. \A t \in Runnable : HasPlace(t) /\ t # d0 => HasPlace(t)'
      BY <2>3, <2>4 DEF HasPlace
    <3>2. scheduled[d0] # 1
      BY <1>3 DEF IInv, CountedOnce
    <3> QED BY <1>1, <2>2, <3>1, <3>2 DEF IInv, NobodyIsLost, Runnable, Pending
  <2> QED BY <2>6, <2>7, <2>8, <2>9, <2>10, <2>11, <2>12, <2>13, <2>14 DEF IInv
<1> QED BY <1>2, <1>3

LEMMA NextIInv == IInv /\ [Next]_vars => IInv'
<1> SUFFICES ASSUME IInv, [Next]_vars PROVE IInv'
  OBVIOUS
<1>1. CASE SpinnerPops
  BY <1>1, SpinnerPopsIInv
<1>2. CASE \E w \in Workers : Work(w)
  BY <1>2, WorkerTakesIInv, CallReturnsEarlyIInv, CallStartsIInv, AwaitReturnsIInv,
     CoroutineYieldsIInv, TaskSuspendsIInv, TaskFinishesIInv, TaskSettlesIInv, CallLeavesIInv,
     CallReleasesIInv DEF Work
<1>3. CASE \E x \in Externals : Application(x)
  BY <1>3, SetResultIInv, CloseCoroutineIInv, CancelTestsIInv, CancelAssignsIInv, SettlesIInv,
     AddDoneCallbackIInv, RemoveDoneCallbackIInv DEF Application
<1>4. CASE UNCHANGED vars
  <2>1. /\ UNCHANGED <<state, callbacks, executing, taskLock, closed, pos, waitingOn, ready, pool>>
        /\ UNCHANGED <<wpc, wtask, dropped, xpc, xfut, scheduled, removed>>
    BY <1>4 DEF vars, taskVars, queueVars, workerVars, externalVars
  <2> QED BY <2>1 DEF IInv, TypeOK, LockIsHeld, OncePerPlace, OnePlace, SettledIsDone,
                      NothingStranded, Settling, WaitsForOne, CountedOnce, NobodyIsLost, HasPlace,
                      Queued, Pooled, Registered, Called, Pending
<1> QED BY <1>1, <1>2, <1>3, <1>4 DEF Next

-----------------------------------------------------------------------------
(* The inductive invariant holds in every reachable state.                 *)
THEOREM Invariance == ASSUME ConstantsAssumption PROVE Spec => []IInv
<1>1. Init => IInv
  BY InitIInv
<1> QED BY <1>1, NextIInv, PTL DEF Spec

(* A set in which any two members are equal is empty or has one member.    *)
LEMMA AtMostOne ==
  ASSUME NEW S, \A x, y \in S : x = y
  PROVE  Cardinality(S) \in {0, 1} /\ (Cardinality(S) = 0 <=> S = {})
<1>1. CASE S = {}
  BY <1>1, FS_EmptySet
<1>2. CASE S # {}
  <2>1. PICK x \in S : TRUE
    BY <1>2
  <2>2. S = {x}
    BY <2>1
  <2>3. Cardinality(S) = 1
    BY <2>2, FS_Singleton
  <2> QED BY <1>2, <2>3
<1> QED BY <1>1, <1>2

(* No task's __call__() is run by two threads of the executor at once,     *)
(* whatever queues the task twice: the thread inside holds the task's lock.*)
THEOREM TaskRunsAlone == ASSUME ConstantsAssumption PROVE Spec => []OneThreadPerTask
<1>1. IInv => OneThreadPerTask
  <2> SUFFICES ASSUME IInv, NEW t \in Runnable PROVE Cardinality(InCall(t)) <= 1
    BY DEF OneThreadPerTask
  <2>1. \A v, w \in InCall(t) : v = w
    <3> SUFFICES ASSUME NEW v \in InCall(t), NEW w \in InCall(t) PROVE v = w
      OBVIOUS
    <3>1. \A u \in InCall(t) : u \in Workers /\ wtask[u] = t /\ wpc[u] \in InCallLabels
      BY DEF IInv, TypeOK, InCall, WorkerLabels
    <3>2. \A u \in InCall(t) : taskLock[t] = u
      BY <3>1 DEF IInv, LockIsHeld
    <3> QED BY <3>2
  <2>2. Cardinality(InCall(t)) \in {0, 1}
    BY <2>1, AtMostOne
  <2> QED BY <2>2
<1> QED BY <1>1, Invariance, PTL

(* The places of a resumption, counted.                                    *)
LEMMA WakeupsCounted ==
  ASSUME IInv, NEW t \in Runnable
  PROVE  Wakeups(t) = IF HasPlace(t) THEN 1 ELSE 0
<1> DEFINE F == {f \in Awaitable : Contains(callbacks[f], t)}
           W == {w \in Workers : wtask[w] = t /\ wpc[w] \in {"called", "run", "yielded"}}
<1>1. /\ Occurrences(ready, t) = IF Queued(t) THEN 1 ELSE 0
      /\ Occurrences(pool, t) = IF Pooled(t) THEN 1 ELSE 0
  BY OccurrencesOfSingle DEF IInv, TypeOK, OncePerPlace, Queued, Pooled
<1>2. /\ Cardinality(F) = IF \E f \in Awaitable : Registered(f, t) THEN 1 ELSE 0
  <2>1. \A f, g \in F : f = g
    BY DEF IInv, OnePlace, Registered
  <2>2. F = {} <=> ~\E f \in Awaitable : Registered(f, t)
    BY DEF Registered
  <2> HIDE DEF F
  <2>3. Cardinality(F) \in {0, 1} /\ (Cardinality(F) = 0 <=> F = {})
    BY <2>1, AtMostOne
  <2> QED BY <2>2, <2>3
<1>3. /\ Cardinality(W) = IF \E w \in Workers : Called(w, t) THEN 1 ELSE 0
  <2>1. \A v, w \in W : v = w
    BY DEF IInv, OnePlace, Called
  <2>2. W = {} <=> ~\E w \in Workers : Called(w, t)
    BY DEF Called
  <2> HIDE DEF W
  <2>3. Cardinality(W) \in {0, 1} /\ (Cardinality(W) = 0 <=> W = {})
    BY <2>1, AtMostOne
  <2> QED BY <2>2, <2>3
<1>4. Wakeups(t) = Occurrences(ready, t) + Occurrences(pool, t) + Cardinality(F) + Cardinality(W)
  BY DEF Wakeups
<1> HIDE DEF F, W
<1>5. /\ Queued(t) => ~Pooled(t)
      /\ (\E f \in Awaitable : Registered(f, t)) => ~Queued(t) /\ ~Pooled(t)
      /\ (\E w \in Workers : Called(w, t)) =>
           ~Queued(t) /\ ~Pooled(t) /\ ~\E f \in Awaitable : Registered(f, t)
  BY DEF IInv, OnePlace
<1> QED BY <1>1, <1>2, <1>3, <1>4, <1>5 DEF HasPlace

(* However set_result(), cancel(), add_done_callback() and the awaits of   *)
(* the tasks interleave: the resumption of a task is owed to it at most    *)
(* once, and a pending one is forgotten only in the recorded case of a     *)
(* resumption that overtakes the end of the call; nothing is left on a     *)
(* future that is done, no future is awaited a second time, and a done     *)
(* callback is scheduled at most once and not after its removal.           *)
THEOREM ResumptionsAreOwedOnce == ASSUME ConstantsAssumption PROVE Spec => []WokenOnce
<1>1. IInv => OneWakeup
  BY WakeupsCounted DEF OneWakeup, Runnable
<1>2. IInv => NobodyForgotten
  <2> SUFFICES ASSUME IInv PROVE NobodyForgotten
    OBVIOUS
  <2>1. \A t \in Runnable : HasPlace(t) => Wakeups(t) > 0
    BY WakeupsCounted
  <2>2. \A d \in Callbacks : scheduled[d] > 0 => scheduled[d] = 1
    BY DEF IInv, TypeOK, CountedOnce
  <2> QED BY <2>1, <2>2 DEF IInv, NobodyIsLost, NobodyForgotten, Runnable
<1>3. IInv => NothingStranded
  BY DEF IInv
<1>4. IInv => NeverAwaitedTwice
  <2> SUFFICES ASSUME IInv, NEW w \in Workers, wpc[w] = "run" PROVE ~AwaitedTwice(wtask[w])
    BY DEF NeverAwaitedTwice
  <2>1. wtask[w] \in Runnable
    BY DEF IInv, TypeOK
  <2> QED BY <2>1 DEF IInv, WaitsForOne, AwaitedTwice, Runnable
<1>5. IInv => CallbackAtMostOnce
  BY DEF IInv, CountedOnce, CallbackAtMostOnce
<1>6. IInv => WokenOnce
  BY <1>1, <1>2, <1>3, <1>4, <1>5 DEF WokenOnce
<1> QED BY <1>6, Invariance, PTL
=============================================================================
