------------------------------ MODULE Coordinator ------------------------------
(***************************************************************************)
(* internal/application/coordinator.go: the table of per-project locks that *)
(* serialises the commands on one project.  An entry of the table exists    *)
(* only while a command uses it; a reference count says when it may go.     *)
(*                                                                         *)
(* locks and refs are only touched between c.mu.Lock and c.mu.Unlock, and   *)
(* no such section blocks, so each is one step.  Waiting for the mutex of    *)
(* an entry happens outside of them, between Enter and Acquire; a mutex is   *)
(* freed before its reference is given back, between Release and Leave.     *)
(***************************************************************************)
EXTENDS Naturals, FiniteSets

CONSTANTS Commands,          \* running invocations of a mutation
          Projects,          \* project ids
          Entries,           \* addresses of lockEntry values
          NoCommand, NoEntry, NoProject

ASSUME CommandsFinite == IsFiniteSet(Commands)
ASSUME SentinelAssumption ==
    NoCommand \notin Commands /\ NoEntry \notin Entries /\ NoProject \notin Projects

VARIABLES
    locks,    \* Coordinator.locks, NoEntry where the map has no entry
    refs,     \* lockEntry.refs
    mu,       \* lockEntry.mu: the command it is locked for
    pc,       \* where a command is
    id,       \* the project a command asked for
    e         \* the entry a command uses, the variable the closure captures

vars == <<locks, refs, mu, pc, id, e>>

InUse(x) == \E c \in Commands : e[c] = x

Init ==
    /\ locks = [p \in Projects |-> NoEntry]
    /\ refs = [x \in Entries |-> 0]
    /\ mu = [x \in Entries |-> NoCommand]
    /\ pc = [c \in Commands |-> "idle"]
    /\ id = [c \in Commands |-> NoProject]
    /\ e = [c \in Commands |-> NoEntry]

\* Mutation: Lock makes a new entry without a look at the table.
EnterFresh(c, p, x) ==
    /\ pc[c] = "idle"
    /\ ~InUse(x) /\ \A q \in Projects : locks[q] # x
    /\ locks' = [locks EXCEPT ![p] = x]
    /\ refs' = [refs EXCEPT ![x] = 1]
    /\ mu' = [mu EXCEPT ![x] = NoCommand]
    /\ pc' = [pc EXCEPT ![c] = "waiting"]
    /\ id' = [id EXCEPT ![c] = p]
    /\ e' = [e EXCEPT ![c] = x]

\* Mutation: only the command that makes an entry is counted.
EnterUncounted(c, p, x) ==
    /\ pc[c] = "idle"
    /\ IF locks[p] = NoEntry
       THEN /\ ~InUse(x) /\ \A q \in Projects : locks[q] # x
            /\ locks' = [locks EXCEPT ![p] = x]
            /\ refs' = [refs EXCEPT ![x] = 1]
            /\ mu' = [mu EXCEPT ![x] = NoCommand]
       ELSE x = locks[p] /\ UNCHANGED <<locks, refs, mu>>
    /\ pc' = [pc EXCEPT ![c] = "waiting"]
    /\ id' = [id EXCEPT ![c] = p]
    /\ e' = [e EXCEPT ![c] = x]

\* Lock up to c.mu.Unlock, with the entry of the table or a new one at an
\* address nobody uses.
Enter(c, p, x) ==
    /\ pc[c] = "idle"
    /\ IF locks[p] = NoEntry
       THEN /\ ~InUse(x)
            /\ \A q \in Projects : locks[q] # x
            /\ locks' = [locks EXCEPT ![p] = x]
            /\ refs' = [refs EXCEPT ![x] = 1]
            /\ mu' = [mu EXCEPT ![x] = NoCommand]
       ELSE /\ x = locks[p]
            /\ refs' = [refs EXCEPT ![x] = @ + 1]
            /\ UNCHANGED <<locks, mu>>
    /\ pc' = [pc EXCEPT ![c] = "waiting"]
    /\ id' = [id EXCEPT ![c] = p]
    /\ e' = [e EXCEPT ![c] = x]

\* e.mu.Lock returns and so does Lock.
Acquire(c) ==
    /\ pc[c] = "waiting"
    /\ mu[e[c]] = NoCommand
    /\ mu' = [mu EXCEPT ![e[c]] = c]
    /\ pc' = [pc EXCEPT ![c] = "holding"]
    /\ UNCHANGED <<locks, refs, id, e>>

\* Mutation: the deferred unlock gives the reference back and no more.
ReleaseLocked(c) ==
    /\ pc[c] = "holding"
    /\ pc' = [pc EXCEPT ![c] = "leaving"]
    /\ UNCHANGED <<locks, refs, mu, id, e>>

\* The deferred unlock, up to e.mu.Unlock.
Release(c) ==
    /\ pc[c] = "holding"
    /\ mu' = [mu EXCEPT ![e[c]] = NoCommand]
    /\ pc' = [pc EXCEPT ![c] = "leaving"]
    /\ UNCHANGED <<locks, refs, id, e>>

\* Mutation: whoever leaves deletes the entry.
LeaveDeleting(c) ==
    /\ pc[c] = "leaving"
    /\ refs' = [refs EXCEPT ![e[c]] = @ - 1]
    /\ locks' = [locks EXCEPT ![id[c]] = NoEntry]
    /\ pc' = [pc EXCEPT ![c] = "idle"]
    /\ id' = [id EXCEPT ![c] = NoProject]
    /\ e' = [e EXCEPT ![c] = NoEntry]
    /\ UNCHANGED mu

\* Mutation: nobody deletes it.
LeaveKeeping(c) ==
    /\ pc[c] = "leaving"
    /\ refs' = [refs EXCEPT ![e[c]] = @ - 1]
    /\ pc' = [pc EXCEPT ![c] = "idle"]
    /\ id' = [id EXCEPT ![c] = NoProject]
    /\ e' = [e EXCEPT ![c] = NoEntry]
    /\ UNCHANGED <<locks, mu>>

\* The rest of it: the reference goes, and with the last one the entry.
Leave(c) ==
    /\ pc[c] = "leaving"
    /\ refs' = [refs EXCEPT ![e[c]] = @ - 1]
    /\ locks' = IF refs'[e[c]] = 0 THEN [locks EXCEPT ![id[c]] = NoEntry] ELSE locks
    /\ pc' = [pc EXCEPT ![c] = "idle"]
    /\ id' = [id EXCEPT ![c] = NoProject]
    /\ e' = [e EXCEPT ![c] = NoEntry]
    /\ UNCHANGED mu

Next ==
    \E c \in Commands :
        \/ \E p \in Projects, x \in Entries : Enter(c, p, x)
        \/ Acquire(c)
        \/ Release(c)
        \/ Leave(c)

\* sync.Mutex hands a mutex that is freed again and again to every waiter at
\* some time; every mutation returns and the deferred unlock runs.
Fairness ==
    \A c \in Commands : SF_vars(Acquire(c)) /\ WF_vars(Release(c)) /\ WF_vars(Leave(c))

Safe == Init /\ [][Next]_vars
Spec == Safe /\ Fairness

-----------------------------------------------------------------------------
(* Properties. *)

\* Every variable has its type; a reference count never goes below zero, although
\* Leave subtracts without a check (coordinator.go:5-14, 28).
TypeOK ==
    /\ locks \in [Projects -> Entries \cup {NoEntry}]
    /\ refs \in [Entries -> Nat]
    /\ mu \in [Entries -> Commands \cup {NoCommand}]
    /\ pc \in [Commands -> {"idle", "waiting", "holding", "leaving"}]
    /\ id \in [Commands -> Projects \cup {NoProject}]
    /\ e \in [Commands -> Entries \cup {NoEntry}]

Users(x) == {c \in Commands : e[c] = x}

\* The table of locks, across the interleavings of commands that come while the
\* last one leaves: whoever uses an entry finds it in the table under his
\* project, two projects never share one, the count is the number of users,
\* and the entries left are those somebody uses, so that Active drops to 0
\* (coordinator.go:15-35).
TableMatchesUsers ==
    /\ \A c \in Commands : pc[c] # "idle" => /\ id[c] \in Projects
                                             /\ e[c] \in Entries
                                             /\ locks[id[c]] = e[c]
    /\ \A p, q \in Projects : locks[p] = locks[q] /\ locks[p] # NoEntry => p = q
    /\ \A p \in Projects : locks[p] # NoEntry => InUse(locks[p])
    /\ \A c \in Commands : pc[c] = "idle" => e[c] = NoEntry
    /\ \A x \in Entries : refs[x] = Cardinality(Users(x))

\* Two commands that run at the same time are on different projects, although
\* the mutexes come and go (coordinator.go:15-34, used by service.go:61).
MutualExclusion ==
    \A c, d \in Commands : pc[c] = "holding" /\ pc[d] = "holding" /\ c # d => id[c] # id[d]

\* Nobody waits for someone who waits too or is gone: a command waits while
\* another one works on the same project, and only then (coordinator.go:24-33).
WaitsForWorker ==
    \A c \in Commands : pc[c] = "waiting" /\ mu[e[c]] # NoCommand =>
        pc[mu[e[c]]] = "holding" /\ id[mu[e[c]]] = id[c]

\* A command that waits for a project gets it, however many others come and
\* however often the entry it waits on is released (coordinator.go:24-33).
EveryWaiterRuns == \A c \in Commands : pc[c] = "waiting" ~> pc[c] = "holding"

\* The coordinator is one lasting mutex per project (coordinator.go:15-34).
LockOf == INSTANCE ProjectLock WITH
    waiting <- [p \in Projects |-> {c \in Commands : pc[c] = "waiting" /\ id[c] = p}],
    holder  <- [p \in Projects |-> IF locks[p] = NoEntry THEN NoCommand ELSE mu[locks[p]]]
IsProjectLock == LockOf!Spec
=============================================================================
