---------------------------- MODULE NodeParameters ----------------------------
(* The parameters of a node: declare, set, undeclare and describe, the       *)
(* callbacks that may refuse a change, the event that announces it, and the  *)
(* time source, whose callback acts on use_sim_time while the change is      *)
(* still being validated. No lock protects any of it: a call is a sequence   *)
(* of steps and the calls of two threads interleave between them.            *)
EXTENDS Integers, FiniteSets, SequencesExt, FiniteSetsExt, Functions

CONSTANTS Names, SimTime,  \* parameter names; SimTime is use_sim_time
          User, Service,   \* the thread of the user, the executor's with the parameter services
          None,
          Items,           \* what a caller may pass to declare_parameters
          Settings,        \* lists of parameters a caller may pass to a setter
          Overrides,       \* function from some of Names to values
          MaxCalls         \* bound on the calls of a behaviour

Types == {"not_set", "bool", "integer", "double", "string", "byte_array", "bool_array", "integer_array",
          "double_array", "string_array"}
Values == [type : Types, v : Int]
Descriptors == [type : Types, read_only : BOOLEAN, dynamic_typing : BOOLEAN, range : Seq(Int)]

\* What callers pass. Without a bool for use_sim_time there would be no node:
\* its declaration in attach_node() raises.
ParametersAssumption ==
    /\ User # Service
    /\ Settings \subseteq Seq([name : Names, value : Values])
    /\ Items \subseteq Seq([name : Names, value : Values, typed : BOOLEAN, dynamic_typing : BOOLEAN,
                            read_only : BOOLEAN, range : Seq(Int)])
    /\ \A n \in DOMAIN Overrides : Overrides[n] \in Values
    /\ SimTime \in DOMAIN Overrides => Overrides[SimTime].type = "bool"
    /\ SimTime \in Names

VARIABLES params, descriptors, \* _parameters, _descriptors: functions from the declared names
          callbacks,   \* _on_set_parameters_callbacks: "time_source" or "user"
          simActive,   \* _ros_time_is_active of the time source
          op,          \* what each thread is doing
          mirror,      \* the parameters as a reader of /parameter_events knows them
          allowUndeclared, \* _allow_undeclared_parameters, fixed at construction
          quirks,      \* what happened that the properties exempt
          calls

vars == <<params, descriptors, callbacks, simActive, op, mirror, allowUndeclared, quirks, calls>>

Value(type, v) == [type |-> type, v |-> v]
NotSet == Value("not_set", 0)
Parameter(n, value) == [name |-> n, value |-> value]
Without(f, n) == Restrict(f, DOMAIN f \ {n})
With(f, n, x) == [m \in DOMAIN f \cup {n} |-> IF m = n THEN x ELSE f[m]]

DefaultDescriptor == [type |-> "not_set", read_only |-> FALSE, dynamic_typing |-> FALSE, range |-> <<>>]

-------------------------------------------------------------------------------
\* Reading.
has_parameter(n) == n \in DOMAIN params

\* get_parameter: an exception is a value with the type "raises".
get_parameter(n) ==
    IF has_parameter(n)
    THEN IF params[n].type # "not_set" \/ descriptors[n].dynamic_typing THEN params[n] ELSE Value("raises", 0)
    ELSE IF allowUndeclared THEN NotSet ELSE Value("raises", 0)

get_parameter_or(n, alternative) ==
    IF has_parameter(n) /\ params[n].type # "not_set" THEN params[n] ELSE alternative

describe_parameter(n) ==
    IF n \in DOMAIN descriptors THEN descriptors[n]
    ELSE IF allowUndeclared THEN DefaultDescriptor ELSE [DefaultDescriptor EXCEPT !.type = "raises"]

-------------------------------------------------------------------------------
\* Validation. A range is <<from_value, to_value, step>>, or empty.
apply_integer_range(v, range) ==
    LET low == Min({range[1], range[2]})
        high == Max({range[1], range[2]})
    IN  v \in {low, high} \/ (low < v /\ v < high /\ (range[3] # 0 => (v - low) % range[3] = 0))

\* The verdict on a parameter, and the descriptor as the check leaves it: with
\* dynamic typing its type is overwritten even when the change is refused later.
apply_descriptor(parameter, descriptor, checkReadOnly, declared) ==
    LET value == parameter.value
        frozen == checkReadOnly /\ descriptor.read_only
        typed == \/ descriptor.dynamic_typing
                 \/ /\ ~(parameter.name \in declared /\ value.type = "not_set")
                    /\ value.type \in {"not_set", descriptor.type}
        ranged == value.type = "integer" /\ descriptor.range # <<>>
                    => apply_integer_range(value.v, descriptor.range)
    IN  [ok |-> ~frozen /\ typed /\ ranged,
         descriptor |-> IF ~frozen /\ descriptor.dynamic_typing
                        THEN [descriptor EXCEPT !.type = value.type] ELSE descriptor]

\* Mutant: the first parameter of a list speaks for the others.
apply_first_descriptor(list, descs, checkReadOnly) ==
    IF list = <<>> \/ list[1].name \notin DOMAIN descs THEN [ok |-> TRUE, descs |-> descs]
    ELSE LET r == apply_descriptor(list[1], descs[list[1].name], checkReadOnly, DOMAIN params)
         IN  [ok |-> r.ok, descs |-> [descs EXCEPT ![list[1].name] = r.descriptor]]

\* One more parameter of a list: skipped after a refusal or without a descriptor.
apply_next(acc, parameter, checkReadOnly) ==
    LET n == parameter.name
        r == apply_descriptor(parameter, acc.descs[n], checkReadOnly, DOMAIN params)
    IN  IF ~acc.ok \/ n \notin DOMAIN acc.descs THEN acc
        ELSE [ok |-> r.ok, descs |-> [acc.descs EXCEPT ![n] = r.descriptor]]

\* The parameters of a list in turn, up to the first refusal.
apply_descriptors(list, descs, checkReadOnly) ==
    LET after[k \in 0..Len(list)] ==
            IF k = 0 THEN [ok |-> TRUE, descs |-> descs] ELSE apply_next(after[k - 1], list[k], checkReadOnly)
    IN  after[Len(list)]

-------------------------------------------------------------------------------
CallingThreads == {User, Service}
Idle == [pc |-> "idle", kind |-> "none"]
Busy(t) == op[t].pc # "idle"
Quiet == \A t \in CallingThreads : ~Busy(t)

\* Calls overlap. Setters may, with each other and with a registration; a call
\* that brings or takes descriptors is not made while another one is at work.
Overlapped(t) == {op[u].kind : u \in {u \in CallingThreads \ {t} : Busy(u)}}
Raced(t) == IF Overlapped(t) = {} THEN {} ELSE {"raced"}
MayStart(t, kind) ==
    /\ ~Busy(t) /\ calls < MaxCalls
    /\ Overlapped(t) = {} \/ Overlapped(t) \cup {kind} \subseteq {"set", "service", "register"}

\* An atomic list that names use_sim_time twice: the time source acts on the
\* first value, the last one is stored.
NamesTwice(list) == \E j, k \in DOMAIN list : j # k /\ list[j].name = SimTime /\ list[k].name = SimTime

\* A thread enters a call: the lists, one at least, it will set one after the other.
Enter(t, kind, queue, descs) ==
    /\ MayStart(t, kind) /\ queue # <<>>
    /\ calls' = calls + 1
    /\ quirks' = quirks \cup Raced(t) \cup (IF \E j \in DOMAIN queue : NamesTwice(queue[j]) THEN {"twice"} ELSE {})
    /\ op' = [op EXCEPT ![t] = [pc |-> "check", kind |-> kind, queue |-> queue, descs |-> descs, i |-> 1, event |-> <<>>]]
    /\ UNCHANGED <<params, descriptors, callbacks, simActive, mirror>>

\* declare_parameters refuses an item that has no usable type; an item names
\* a type (typed) or a default value.
ItemIsRefused(item) ==
    IF item.typed THEN item.value.type = "not_set" \/ item.dynamic_typing
    ELSE ~item.dynamic_typing /\ item.value.type = "not_set"

ItemDescriptor(item) == [type |-> IF item.dynamic_typing THEN "not_set" ELSE item.value.type,
                         read_only |-> item.read_only, dynamic_typing |-> item.dynamic_typing,
                         range |-> item.range]

ItemValue(item, ignoreOverride) ==
    IF ~ignoreOverride /\ item.name \in DOMAIN Overrides THEN Overrides[item.name]
    ELSE IF item.typed THEN NotSet ELSE item.value

\* declare_parameters: all items are examined, then they are set one by one.
declare_parameters(t) == MayStart(t, "declare") /\ \E items \in Items, ignoreOverride \in BOOLEAN :
    /\ \A k \in DOMAIN items : ~ItemIsRefused(items[k]) /\ ~has_parameter(items[k].name)
    /\ Enter(t, "declare",
             [k \in DOMAIN items |-> <<Parameter(items[k].name, ItemValue(items[k], ignoreOverride))>>],
             [n \in {items[k].name : k \in DOMAIN items} |->
                ItemDescriptor(items[Max({k \in DOMAIN items : items[k].name = n})])])

\* set_parameters and the set_parameters service set one parameter at a time,
\* set_parameters_atomically the whole list. An undeclared name ends the
\* former; the service answers it and goes on.
KindOf(t) == IF t = Service THEN "service" ELSE "set"
set_parameters(t) == \E list \in Settings : Enter(t, KindOf(t), [k \in DOMAIN list |-> <<list[k]>>], None)
set_parameters_atomically(t) == \E list \in Settings : Enter(t, KindOf(t), <<list>>, None)

\* The list is done, one way or the other: on to the next one.
NextList(o) == IF Len(o.queue) = 1 THEN Idle ELSE [o EXCEPT !.pc = "check", !.queue = Tail(@), !.i = 1, !.event = <<>>]

\* A refused list: declaring raises an exception, setting reports it and goes on.
Refused(o) == IF o.kind = "declare" THEN Idle ELSE NextList(o)

IsUndeclared(list) == ~allowUndeclared /\ \E k \in DOMAIN list : ~has_parameter(list[k].name)

\* What the pre-set callbacks, when there are any, make of a list: the
\* concatenation of what each returns, which may be nothing.
PreSet(o) == IF o.kind = "declare" THEN {Head(o.queue)} ELSE {Head(o.queue), <<>>}

\* Pre-set callbacks, the test for undeclared names, and the descriptors: the
\* new ones without the read-only check, or the node's own with it.
CheckList(t, list) ==
    LET o == [op[t] EXCEPT !.queue = <<list>> \o Tail(@)]
        declaring == o.kind = "declare"
        verdict == apply_descriptors(list, IF declaring THEN o.descs ELSE descriptors, ~declaring)
        unknown == ~declaring /\ IsUndeclared(list)
        reached == list # <<>> /\ ~unknown
    IN  /\ op' = [op EXCEPT ![t] =
              IF list = <<>> THEN NextList(o)
              ELSE IF unknown THEN IF o.kind = "service" THEN NextList(o) ELSE Idle
              ELSE IF ~verdict.ok THEN Refused(o)
              ELSE [o EXCEPT !.pc = "callbacks", !.descs = IF declaring THEN verdict.descs ELSE None]]
        /\ descriptors' = IF reached /\ ~declaring THEN verdict.descs ELSE descriptors
        /\ UNCHANGED <<params, callbacks, simActive, mirror, quirks, calls>>
Check(t) == op[t].pc = "check" /\ \E list \in PreSet(op[t]) : CheckList(t, list)

\* _on_parameter_event of the time source: the first use_sim_time of the list
\* takes effect at once when it is a bool, and is refused otherwise.
on_parameter_event(list) ==
    LET first == SelectInSeq(list, LAMBDA parameter : parameter.name = SimTime)
    IN  IF first = 0 THEN [ok |-> TRUE, active |-> simActive]
        ELSE IF list[first].value.type = "bool" THEN [ok |-> TRUE, active |-> list[first].value.v = 1]
        ELSE [ok |-> FALSE, active |-> simActive]

\* The next on-set callback, by its index in the list as it is now.
CallBack(t) ==
    LET o == op[t]
        verdict == on_parameter_event(Head(o.queue))
    IN  /\ o.pc = "callbacks" /\ o.i <= Len(callbacks)
        /\ \/ /\ callbacks[o.i] = "time_source"
              /\ simActive' = verdict.active
              /\ op' = [op EXCEPT ![t] = IF verdict.ok THEN [o EXCEPT !.i = @ + 1] ELSE Refused(o)]
           \/ /\ callbacks[o.i] = "user"
              /\ simActive' = simActive
              /\ op' \in {[op EXCEPT ![t] = [o EXCEPT !.i = @ + 1]], [op EXCEPT ![t] = Refused(o)]}
        /\ UNCHANGED <<params, descriptors, callbacks, mirror, quirks, calls>>

Accepted(t) ==
    /\ op[t].pc = "callbacks" /\ op[t].i > Len(callbacks)
    /\ op' = [op EXCEPT ![t] = [@ EXCEPT !.pc = "store", !.i = 1]]
    /\ UNCHANGED <<params, descriptors, callbacks, simActive, mirror, quirks, calls>>

\* One parameter of an accepted list: without a value it is deleted (not when
\* declaring), otherwise stored with the new descriptor, the one it has, or a
\* dynamically typed one. The event sorts it by whether it had a value.
Store(t) ==
    LET o == op[t]
        parameter == Head(o.queue)[o.i]
        n == parameter.name
        deleted == o.kind # "declare" /\ parameter.value.type = "not_set"
        implicit == [DefaultDescriptor EXCEPT !.dynamic_typing = TRUE]
        filed == IF deleted THEN "deleted"
                 ELSE IF get_parameter_or(n, NotSet) = NotSet THEN "new" ELSE "changed"
        stored == [o EXCEPT !.event = Append(@, [in |-> filed, name |-> n, value |-> parameter.value])]
    IN  /\ o.pc = "store"
        /\ IF deleted
           THEN params' = Without(params, n) /\ descriptors' = Without(descriptors, n)
           ELSE /\ params' = With(params, n, parameter.value)
                /\ descriptors' = IF o.kind = "declare" THEN With(descriptors, n, o.descs[n])
                                  ELSE IF n \in DOMAIN descriptors THEN descriptors
                                  ELSE With(descriptors, n, implicit)
        /\ op' = [op EXCEPT ![t] = IF o.i < Len(Head(o.queue)) THEN [stored EXCEPT !.i = @ + 1]
                                   ELSE [stored EXCEPT !.pc = "announce"]]
        /\ UNCHANGED <<callbacks, simActive, mirror, quirks, calls>>

\* The event of the list is published, and the post-set callbacks run. A reader
\* replays it: an entry is misfiled if it calls new what the reader knows, or
\* changed what it does not know.
Misfiled(known, entry) ==
    \/ entry.in = "new" /\ entry.name \in DOMAIN known
    \/ entry.in = "changed" /\ entry.name \notin DOMAIN known

Hear(known, entry) ==
    IF entry.value.type = "not_set" THEN Without(known, entry.name) ELSE With(known, entry.name, entry.value)

Announce(t) ==
    LET event == op[t].event
        known[k \in 0..Len(event)] == IF k = 0 THEN mirror ELSE Hear(known[k - 1], event[k])
        misfiled == \E k \in DOMAIN event : Misfiled(known[k - 1], event[k])
    IN  /\ op[t].pc = "announce"
        /\ mirror' = known[Len(event)]
        /\ quirks' = quirks \cup (IF misfiled /\ quirks \subseteq {"twice"} THEN {"misfiled"} ELSE {})
        /\ op' = [op EXCEPT ![t] = NextList(op[t])]
        /\ UNCHANGED <<params, descriptors, callbacks, simActive, calls>>

-------------------------------------------------------------------------------
\* Calls that finish in one step: nothing of the user runs inside them.
OneStep(t, kind) ==
    /\ MayStart(t, kind)
    /\ calls' = calls + 1
    /\ UNCHANGED <<op, mirror, simActive>>

undeclare_parameter(t) == \E n \in DOMAIN params :
    /\ ~descriptors[n].read_only
    /\ params' = Without(params, n) /\ descriptors' = Without(descriptors, n)
    /\ quirks' = quirks \cup Raced(t) \cup {"undeclared"}
    /\ OneStep(t, "describe") /\ UNCHANGED callbacks

\* set_descriptor keeps the value if the new descriptor allows it, or else
\* takes the alternative; no callback is asked and nothing is published.
set_descriptor(t) == OneStep(t, "describe") /\ UNCHANGED callbacks /\
  \E n \in DOMAIN params, descriptor \in {ItemDescriptor(items[1]) : items \in Items \ {<<>>}} :
    LET current == get_parameter(n)
        verdict(value) == apply_descriptor(Parameter(n, value), descriptor, FALSE, DOMAIN params)
        Alternatives == IF verdict(current).ok THEN {current} ELSE {list[1].value : list \in Settings \ {<<>>}}
    IN  \E chosen \in Alternatives :
        /\ ~describe_parameter(n).read_only /\ current.type # "raises"
        /\ verdict(chosen).ok
        /\ params' = [params EXCEPT ![n] = chosen]
        /\ descriptors' = [descriptors EXCEPT ![n] = verdict(chosen).descriptor]
        /\ quirks' = quirks \cup Raced(t) \cup (IF chosen = current THEN {} ELSE {"swapped"})

\* Mutant: new callbacks go behind the time source's.
append_on_set_parameters_callback(t) ==
    /\ Len(callbacks) < 2
    /\ callbacks' = Append(callbacks, "user")
    /\ quirks' = quirks \cup Raced(t)
    /\ OneStep(t, "register") /\ UNCHANGED <<params, descriptors>>

\* add_ and remove_on_set_parameters_callback: new callbacks go in front.
add_on_set_parameters_callback(t) ==
    /\ Len(callbacks) < 2
    /\ callbacks' = <<"user">> \o callbacks
    /\ quirks' = quirks \cup Raced(t)
    /\ OneStep(t, "register") /\ UNCHANGED <<params, descriptors>>
remove_on_set_parameters_callback(t) ==
    /\ "user" \in ToSet(callbacks)
    /\ callbacks' = RemoveFirst(callbacks, "user")
    /\ quirks' = quirks \cup Raced(t)
    /\ OneStep(t, "register") /\ UNCHANGED <<params, descriptors>>

\* attach_node at the construction of the node: use_sim_time is declared, from
\* an override if there is one, applied, and the callback registered.
Init ==
    LET sim == IF SimTime \in DOMAIN Overrides THEN Overrides[SimTime] ELSE Value("bool", 0)
    IN  /\ params = [n \in {SimTime} |-> sim] /\ mirror = params
        /\ descriptors = [n \in {SimTime} |-> [DefaultDescriptor EXCEPT !.type = "bool"]]
        /\ simActive = (sim.v = 1)
        /\ callbacks = <<"time_source">>
        /\ op = [t \in CallingThreads |-> Idle]
        /\ allowUndeclared \in BOOLEAN /\ quirks = {} /\ calls = 0

Declare == declare_parameters(User)
Set == \E t \in CallingThreads : set_parameters(t) \/ set_parameters_atomically(t)
Run == \E t \in CallingThreads : Check(t) \/ CallBack(t) \/ Accepted(t) \/ Store(t) \/ Announce(t)
Describe == undeclare_parameter(User) \/ set_descriptor(User)
Register == add_on_set_parameters_callback(User) \/ remove_on_set_parameters_callback(User)

Next == (Declare \/ Set \/ Run \/ Describe \/ Register) /\ UNCHANGED allowUndeclared
Spec == Init /\ [][Next]_vars

-------------------------------------------------------------------------------
Sequential == "raced" \notin quirks

\* Every stored parameter has a descriptor, obeys its range, and has its type
\* when it is statically typed, whichever call put the value or the descriptor
\* there, however the setters of two threads overlap.
StoreMeetsDescriptors ==
    /\ DOMAIN params = DOMAIN descriptors
    /\ \A n \in DOMAIN params : apply_descriptor(Parameter(n, params[n]), descriptors[n], FALSE, {}).ok

\* As long as calls do not overlap, no atomic list names use_sim_time twice and
\* set_descriptor() does not swap its value, the time source has acted on
\* exactly the changes of use_sim_time that were stored: a change refused by a
\* callback, a descriptor or a later parameter of the same atomic list never
\* reaches it.
TimeSourceFollows ==
    (Sequential /\ Quiet /\ quirks \cap {"twice", "swapped"} = {} /\ has_parameter(SimTime))
        => (params[SimTime].type = "bool" => simActive = (params[SimTime].v = 1))

\* As long as calls do not overlap, a reader that replays the events of
\* /parameter_events knows every value and finds every change filed rightly,
\* except for the calls that publish nothing (undeclare_parameter, a value
\* swapped by set_descriptor).
EventsTellTheStore ==
    Sequential /\ quirks \cap {"undeclared", "swapped"} = {} =>
        /\ "misfiled" \notin quirks
        /\ Quiet => mirror = Restrict(params, {n \in DOMAIN params : params[n].type # "not_set"})

\* Whoever follows the parameters agrees with the store once no call is at
\* work: the time source, and the readers of /parameter_events.
ListenersFollowTheStore == TimeSourceFollows /\ EventsTellTheStore
=============================================================================
