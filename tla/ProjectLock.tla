------------------------------ MODULE ProjectLock ------------------------------
(***************************************************************************)
(* What internal/application relies on when a command calls Lock: one       *)
(* mutex per project that exists for ever.  At most one command holds a     *)
(* project, nobody who waits for it waits for ever, and commands on          *)
(* different projects have nothing to do with each other.                   *)
(***************************************************************************)
CONSTANTS Commands,   \* running invocations of a mutation
          Projects,   \* project ids
          NoCommand

VARIABLES waiting,    \* per project, the commands that called Lock
          holder      \* per project, the command Lock returned to

lockVars == <<waiting, holder>>

Involved == (UNION {waiting[p] : p \in Projects}) \cup {holder[p] : p \in Projects}

Init ==
    /\ waiting = [p \in Projects |-> {}]
    /\ holder = [p \in Projects |-> NoCommand]

Request(c, p) ==
    /\ c \notin Involved
    /\ waiting' = [waiting EXCEPT ![p] = @ \cup {c}]
    /\ UNCHANGED holder

Grant(c, p) ==
    /\ c \in waiting[p]
    /\ holder[p] = NoCommand
    /\ waiting' = [waiting EXCEPT ![p] = @ \ {c}]
    /\ holder' = [holder EXCEPT ![p] = c]

Free(c, p) ==
    /\ holder[p] = c
    /\ holder' = [holder EXCEPT ![p] = NoCommand]
    /\ UNCHANGED waiting

Next == \E c \in Commands, p \in Projects : Request(c, p) \/ Grant(c, p) \/ Free(c, p)

\* A mutex is granted fairly and a command is over at some time.
Fairness ==
    \A c \in Commands, p \in Projects : SF_lockVars(Grant(c, p)) /\ WF_lockVars(Free(c, p))

Safe == Init /\ [][Next]_lockVars
Spec == Safe /\ Fairness
=============================================================================
