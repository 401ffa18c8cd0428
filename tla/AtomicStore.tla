------------------------------ MODULE AtomicStore ------------------------------
(***************************************************************************)
(* What the envelope files promise to the commands: the value of a project  *)
(* is replaced in one step; a power failure brings back a value that was    *)
(* replaced only if no answer was given for the new one; a frozen project   *)
(* keeps its content for ever.                                              *)
(***************************************************************************)
EXTENDS Naturals

CONSTANTS Projects, Envelope, NoValue, NoPackage

VARIABLES value,    \* what readers see
          durable,  \* the values a power failure may leave
          answered  \* the last revision a caller was told of

vars == <<value, durable, answered>>

Init ==
    /\ value = [p \in Projects |-> NoValue]
    /\ durable = [p \in Projects |-> {NoValue}]
    /\ answered = [p \in Projects |-> 0]

\* The next revision, or the same one with one more recorded failure.
Succeeds(v, old) ==
    IF old = NoValue THEN v.revision = 1
    ELSE \/ v.revision = old.revision + 1 /\ old.package = NoPackage
         \/ v = [old EXCEPT !.failed = @ + 1]

Replace(p) ==
    /\ value'[p] \in Envelope /\ Succeeds(value'[p], value[p])
    /\ value' = [value EXCEPT ![p] = value'[p]]
    /\ durable' = [durable EXCEPT ![p] = @ \cup {value'[p]}]
    /\ UNCHANGED answered

Settle ==
    /\ durable' = [p \in Projects |-> {value[p]}]
    /\ UNCHANGED <<value, answered>>

Answer(p) ==
    /\ value[p] # NoValue /\ durable[p] = {value[p]}
    /\ answered' = [answered EXCEPT ![p] = value[p].revision]
    /\ UNCHANGED <<value, durable>>

PowerFailure ==
    /\ \A p \in Projects : value'[p] \in durable[p]
    /\ value' = [p \in Projects |-> value'[p]]
    /\ durable' = [p \in Projects |-> {value'[p]}]
    /\ UNCHANGED answered

Next ==
    \/ \E p \in Projects : Replace(p) \/ Answer(p)
    \/ Settle \/ PowerFailure

Spec == Init /\ [][Next]_vars
=============================================================================
