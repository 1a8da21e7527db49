-------------------------- MODULE MCWaitSetExecutor --------------------------
(* Two sources in a mutually exclusive group and a third entity, a source  *)
(* or a guard condition, in a reentrant one.                               *)
EXTENDS WaitSetExecutor, TLC

CONSTANTS s1, s2, e3, exclusive, reentrant

MCGroups == {exclusive, reentrant}
MCExclusive == {exclusive}
MCGroupOf == [e \in Entities |-> IF e = e3 THEN reentrant ELSE exclusive]

\* The identities of handlers are interchangeable.
Symmetry == Permutations(Handlers)
=============================================================================
