--------------------------- MODULE CoordinatorProofs ---------------------------
(***************************************************************************)
(* Theorems about Coordinator, for every finite set of commands.            *)
(***************************************************************************)
EXTENDS Coordinator, FiniteSetTheorems, TLAPS

\* A locked mutex belongs to a command that holds it, and conversely.
MutexInv ==
    /\ \A c \in Commands : pc[c] = "holding" => mu[e[c]] = c
    /\ \A x \in Entries : InUse(x) /\ mu[x] # NoCommand =>
          pc[mu[x]] = "holding" /\ e[mu[x]] = x

IInv == TypeOK /\ TableMatchesUsers /\ MutexInv

\* An entry has finitely many users.
LEMMA UsersFinite == \A x : IsFiniteSet(Users(x)) /\ Cardinality(Users(x)) \in Nat
<1> TAKE x
<1>1. IsFiniteSet(Users(x))
  BY CommandsFinite, FS_Subset DEF Users
<1> QED BY <1>1, FS_CardinalityType

\* A command that comes or goes changes the users of its entry by itself.
LEMMA UsersChange ==
    ASSUME TypeOK, NEW c \in Commands, NEW y, e' = [e EXCEPT ![c] = y]
    PROVE  \A x : Users(x)' = IF x = y THEN Users(x) \cup {c} ELSE Users(x) \ {c}
<1>1. e \in [Commands -> Entries \cup {NoEntry}]
  BY DEF TypeOK
<1> QED BY <1>1 DEF Users

\* The empty table satisfies the invariant.
LEMMA InitIInv == Init => IInv
<1> SUFFICES ASSUME Init PROVE IInv
  OBVIOUS
<1>1. TypeOK
  BY DEF Init, TypeOK
<1>2. \A x \in Entries : Users(x) = {}
  BY SentinelAssumption DEF Init, Users
<1>3. TableMatchesUsers
  BY <1>2, FS_EmptySet DEF Init, TableMatchesUsers
<1>4. MutexInv
  BY <1>2 DEF Init, MutexInv, InUse, Users
<1> QED BY <1>1, <1>3, <1>4 DEF IInv

\* Looking up or making an entry keeps the invariant (coordinator.go:15-23).
LEMMA EnterIInv ==
    ASSUME IInv, NEW c \in Commands, NEW p \in Projects, NEW x \in Entries, Enter(c, p, x)
    PROVE  IInv'
<1>1. /\ TypeOK /\ TableMatchesUsers /\ MutexInv
      /\ pc[c] = "idle" /\ e[c] = NoEntry
      /\ e' = [e EXCEPT ![c] = x] /\ id' = [id EXCEPT ![c] = p]
      /\ pc' = [pc EXCEPT ![c] = "waiting"]
  BY DEF IInv, Enter, TableMatchesUsers
<1>2. TypeOK'
  BY <1>1 DEF TypeOK, Enter
<1>3. \A z : Users(z)' = IF z = x THEN Users(z) \cup {c} ELSE Users(z) \ {c}
  BY <1>1, UsersChange
<1>4. \A z \in Entries : c \notin Users(z)
  BY <1>1, SentinelAssumption DEF Users
<1>5. Cardinality(Users(x)') = Cardinality(Users(x)) + 1
  BY <1>3, <1>4, UsersFinite, FS_AddElement
<1>6. \A z \in Entries : z # x => Users(z)' = Users(z)
  BY <1>3, <1>4
<1>7. refs[x] = Cardinality(Users(x)) /\ refs \in [Entries -> Nat]
  BY <1>1 DEF TypeOK, TableMatchesUsers
<1>8. \A z \in Entries : refs'[z] = Cardinality(Users(z))'
  <2>1. CASE locks[p] = NoEntry
    <3>1. Users(x) = {}
      BY <2>1 DEF Enter, Users, InUse
    <3>2. Cardinality(Users(x)) = 0
      BY <3>1, FS_EmptySet
    <3> QED BY <1>1, <1>5, <1>6, <1>7, <2>1, <3>2 DEF Enter, TableMatchesUsers
  <2>2. CASE locks[p] # NoEntry
    BY <1>1, <1>5, <1>6, <1>7, <2>2 DEF Enter, TableMatchesUsers
  <2> QED BY <2>1, <2>2
<1>9. /\ locks'[p] = x
      /\ \A q \in Projects : q # p => locks'[q] = locks[q] /\ locks[q] # x
  BY <1>1, SentinelAssumption DEF Enter, TypeOK, TableMatchesUsers
<1>10. \A d \in Commands : d # c => pc'[d] = pc[d] /\ id'[d] = id[d] /\ e'[d] = e[d]
  BY <1>1 DEF TypeOK
<1>11. pc'[c] = "waiting" /\ id'[c] = p /\ e'[c] = x
  BY <1>1 DEF TypeOK
<1>12. \A d \in Commands : d # c /\ pc[d] # "idle" => locks'[id[d]] = locks[id[d]]
  <2> SUFFICES ASSUME NEW d \in Commands, pc[d] # "idle", id[d] = p
               PROVE  locks'[p] = locks[p]
    BY <1>1, <1>9 DEF TableMatchesUsers
  <2>1. locks[p] = e[d] /\ e[d] \in Entries
    BY <1>1 DEF TableMatchesUsers
  <2> QED BY <2>1, SentinelAssumption DEF Enter
<1>13. TableMatchesUsers'
  <2>1. \A d \in Commands : pc'[d] # "idle" => /\ id'[d] \in Projects
                                               /\ e'[d] \in Entries
                                               /\ locks'[id'[d]] = e'[d]
    BY <1>1, <1>9, <1>10, <1>11, <1>12 DEF TableMatchesUsers
  <2>2. \A q, r \in Projects : locks'[q] = locks'[r] /\ locks'[q] # NoEntry => q = r
    BY <1>1, <1>9 DEF TableMatchesUsers
  <2>3. \A q \in Projects : locks'[q] # NoEntry => InUse(locks[q])'
    <3> SUFFICES ASSUME NEW q \in Projects, locks'[q] # NoEntry
                 PROVE  \E d \in Commands : e'[d] = locks'[q]
      BY DEF InUse
    <3>1. CASE q = p
      BY <1>9, <1>11, <3>1
    <3>2. CASE q # p
      <4>1. PICK d \in Commands : e[d] = locks[q]
        BY <1>1, <1>9, <3>2 DEF TableMatchesUsers, InUse
      <4>2. d # c
        BY <1>1, <1>9, <3>2, <4>1
      <4> QED BY <1>9, <1>10, <3>2, <4>1, <4>2
    <3> QED BY <3>1, <3>2
  <2>4. \A d \in Commands : pc'[d] = "idle" => e'[d] = NoEntry
    BY <1>1, <1>10, <1>11 DEF TableMatchesUsers
  <2> QED BY <1>8, <2>1, <2>2, <2>3, <2>4 DEF TableMatchesUsers
<1>14. MutexInv'
  <2>1. \A d \in Commands : pc'[d] = "holding" => mu'[e'[d]] = d
    <3> SUFFICES ASSUME NEW d \in Commands, d # c, pc[d] = "holding"
                 PROVE  mu'[e[d]] = d
      BY <1>10, <1>11
    <3>1. mu[e[d]] = d /\ e[d] \in Entries
      BY <1>1 DEF MutexInv, TableMatchesUsers
    <3>2. locks[p] = NoEntry => e[d] # x
      BY DEF Enter, InUse
    <3> QED BY <1>1, <3>1, <3>2 DEF Enter, TypeOK
  <2>2. ASSUME NEW z \in Entries, InUse(z)', mu'[z] # NoCommand
        PROVE  pc'[mu'[z]] = "holding" /\ e'[mu'[z]] = z
    <3>1. CASE locks[p] = NoEntry
      <4>1. z # x /\ mu'[z] = mu[z]
        BY <1>1, <2>2, <3>1 DEF Enter, TypeOK
      <4>2. InUse(z)
        BY <1>1, <1>10, <1>11, <2>2, <4>1 DEF InUse
      <4>3. pc[mu[z]] = "holding" /\ e[mu[z]] = z /\ mu[z] \in Commands
        BY <1>1, <2>2, <4>1, <4>2 DEF MutexInv, TypeOK
      <4> QED BY <1>1, <1>10, <4>1, <4>3
    <3>2. CASE locks[p] # NoEntry
      <4>1. mu' = mu /\ x = locks[p]
        BY <3>2 DEF Enter
      <4>2. InUse(z)
        <5>1. InUse(x)
          BY <1>1, <3>2, <4>1 DEF TableMatchesUsers
        <5> QED BY <1>10, <1>11, <2>2, <5>1 DEF InUse
      <4>3. pc[mu[z]] = "holding" /\ e[mu[z]] = z /\ mu[z] \in Commands
        BY <1>1, <2>2, <4>1, <4>2 DEF MutexInv, TypeOK
      <4> QED BY <1>1, <1>10, <4>1, <4>3
    <3> QED BY <3>1, <3>2
  <2> QED BY <2>1, <2>2 DEF MutexInv
<1> QED BY <1>2, <1>13, <1>14 DEF IInv

\* Locking the mutex of an entry keeps the invariant (coordinator.go:24).
LEMMA AcquireIInv ==
    ASSUME IInv, NEW c \in Commands, Acquire(c)
    PROVE  IInv'
<1>1. /\ TypeOK /\ TableMatchesUsers /\ MutexInv
      /\ e[c] \in Entries /\ mu[e[c]] = NoCommand /\ pc[c] = "waiting"
      /\ UNCHANGED <<locks, refs, id, e>>
      /\ mu' = [mu EXCEPT ![e[c]] = c] /\ pc' = [pc EXCEPT ![c] = "holding"]
  BY DEF IInv, Acquire, TableMatchesUsers
<1>2. TypeOK'
  BY <1>1 DEF TypeOK
<1>3. \A d \in Commands : d # c => pc'[d] = pc[d]
  BY <1>1 DEF TypeOK
<1>4. pc'[c] = "holding" /\ mu'[e[c]] = c
  BY <1>1 DEF TypeOK
<1>5. TableMatchesUsers'
  BY <1>1, <1>3, <1>4 DEF TableMatchesUsers, InUse, Users
<1>6. \A d \in Commands : pc'[d] = "holding" => mu'[e'[d]] = d
  <2> SUFFICES ASSUME NEW d \in Commands, d # c, pc[d] = "holding"
               PROVE  mu'[e[d]] = d
    BY <1>1, <1>3, <1>4
  <2>1. mu[e[d]] = d /\ d # NoCommand /\ e[d] \in Entries
    BY <1>1, SentinelAssumption DEF MutexInv, TableMatchesUsers
  <2> QED BY <1>1, <2>1 DEF TypeOK
<1>7. \A x \in Entries : InUse(x)' /\ mu'[x] # NoCommand =>
         pc'[mu'[x]] = "holding" /\ e'[mu'[x]] = x
  <2> SUFFICES ASSUME NEW x \in Entries, InUse(x), mu'[x] # NoCommand
               PROVE  pc'[mu'[x]] = "holding" /\ e[mu'[x]] = x
    BY <1>1 DEF InUse
  <2>1. CASE x = e[c]
    BY <1>4, <2>1
  <2>2. CASE x # e[c]
    <3>1. mu'[x] = mu[x]
      BY <1>1, <2>2 DEF TypeOK
    <3>2. pc[mu[x]] = "holding" /\ e[mu[x]] = x /\ mu[x] \in Commands
      BY <1>1, <3>1 DEF MutexInv, TypeOK
    <3> QED BY <1>3, <1>4, <3>1, <3>2
  <2> QED BY <2>1, <2>2
<1> QED BY <1>2, <1>5, <1>6, <1>7 DEF IInv, MutexInv

\* Unlocking it keeps the invariant (coordinator.go:26).
LEMMA ReleaseIInv ==
    ASSUME IInv, NEW c \in Commands, Release(c)
    PROVE  IInv'
<1>1. /\ TypeOK /\ TableMatchesUsers /\ MutexInv
      /\ e[c] \in Entries /\ mu[e[c]] = c /\ pc[c] = "holding"
      /\ UNCHANGED <<locks, refs, id, e>>
      /\ mu' = [mu EXCEPT ![e[c]] = NoCommand] /\ pc' = [pc EXCEPT ![c] = "leaving"]
  BY DEF IInv, Release, TableMatchesUsers, MutexInv
<1>2. TypeOK'
  BY <1>1 DEF TypeOK
<1>3. \A d \in Commands : d # c => pc'[d] = pc[d]
  BY <1>1 DEF TypeOK
<1>4. pc'[c] = "leaving" /\ mu'[e[c]] = NoCommand
  BY <1>1 DEF TypeOK
<1>5. TableMatchesUsers'
  BY <1>1, <1>3, <1>4 DEF TableMatchesUsers, InUse, Users
<1>6. \A d \in Commands : pc'[d] = "holding" => mu'[e'[d]] = d
  <2> SUFFICES ASSUME NEW d \in Commands, d # c, pc[d] = "holding"
               PROVE  mu'[e[d]] = d
    BY <1>1, <1>3, <1>4
  <2>1. mu[e[d]] = d /\ e[d] \in Entries
    BY <1>1 DEF MutexInv, TableMatchesUsers
  <2> QED BY <1>1, <2>1 DEF TypeOK
<1>7. \A x \in Entries : InUse(x)' /\ mu'[x] # NoCommand =>
         pc'[mu'[x]] = "holding" /\ e'[mu'[x]] = x
  <2> SUFFICES ASSUME NEW x \in Entries, InUse(x), mu'[x] # NoCommand
               PROVE  pc'[mu'[x]] = "holding" /\ e[mu'[x]] = x
    BY <1>1 DEF InUse
  <2>1. x # e[c] /\ mu'[x] = mu[x]
    BY <1>1, <1>4 DEF TypeOK
  <2>2. pc[mu[x]] = "holding" /\ e[mu[x]] = x /\ mu[x] \in Commands
    BY <1>1, <2>1 DEF MutexInv, TypeOK
  <2> QED BY <1>3, <2>1, <2>2
<1> QED BY <1>2, <1>5, <1>6, <1>7 DEF IInv, MutexInv

\* Giving the reference back keeps the invariant: the entry goes with its last
\* user and no earlier (coordinator.go:27-33).
LEMMA LeaveIInv ==
    ASSUME IInv, NEW c \in Commands, Leave(c)
    PROVE  IInv'
<1>0. PICK x \in Entries, p \in Projects : x = e[c] /\ p = id[c]
  BY DEF IInv, Leave, TableMatchesUsers
<1>1. /\ TypeOK /\ TableMatchesUsers /\ MutexInv
      /\ x \in Entries /\ p \in Projects /\ locks[p] = x /\ pc[c] = "leaving"
      /\ e' = [e EXCEPT ![c] = NoEntry] /\ id' = [id EXCEPT ![c] = NoProject]
      /\ pc' = [pc EXCEPT ![c] = "idle"] /\ mu' = mu
      /\ refs' = [refs EXCEPT ![x] = refs[x] - 1]
  BY <1>0 DEF IInv, Leave, TableMatchesUsers
<1>2. \A z : Users(z)' = IF z = NoEntry THEN Users(z) \cup {c} ELSE Users(z) \ {c}
  BY <1>1, UsersChange
<1>3. c \in Users(x) /\ x # NoEntry
  BY <1>0, <1>1, SentinelAssumption DEF Users
<1>4. Cardinality(Users(x)') = Cardinality(Users(x)) - 1
  BY <1>2, <1>3, UsersFinite, FS_RemoveElement
<1>5. refs[x] = Cardinality(Users(x)) /\ Cardinality(Users(x)) \in Nat
  BY <1>1, UsersFinite DEF TableMatchesUsers
<1>6. Cardinality(Users(x)) # 0
  BY <1>3, UsersFinite, FS_EmptySet
<1>7. refs'[x] = Cardinality(Users(x)') /\ refs'[x] \in Nat
  <2>1. refs'[x] = refs[x] - 1
    BY <1>1 DEF TypeOK
  <2> QED BY <1>4, <1>5, <1>6, <2>1
<1>8. TypeOK'
  <2>1. refs' \in [Entries -> Nat]
    <3>1. refs[x] - 1 \in Nat
      BY <1>5, <1>6
    <3> QED BY <1>1, <3>1 DEF TypeOK
  <2>2. locks' \in [Projects -> Entries \cup {NoEntry}]
    BY <1>1 DEF TypeOK, Leave
  <2> QED BY <1>1, <2>1, <2>2 DEF TypeOK
<1>9. \A z \in Entries : refs'[z] = Cardinality(Users(z))'
  <2> SUFFICES ASSUME NEW z \in Entries, z # x
               PROVE  refs'[z] = Cardinality(Users(z)')
    BY <1>7
  <2>1. Users(z)' = Users(z)
    BY <1>0, <1>2, SentinelAssumption DEF Users
  <2> QED BY <1>1, <2>1 DEF TypeOK, TableMatchesUsers
<1>10. \A d \in Commands : d # c => pc'[d] = pc[d] /\ id'[d] = id[d] /\ e'[d] = e[d]
  BY <1>1 DEF TypeOK
<1>11. pc'[c] = "idle" /\ e'[c] = NoEntry
  BY <1>1 DEF TypeOK
<1>12. locks' = IF refs'[x] = 0 THEN [locks EXCEPT ![p] = NoEntry] ELSE locks
  BY <1>0 DEF Leave
<1>13. \A q \in Projects : q # p => locks'[q] = locks[q] /\ (locks[q] # NoEntry => locks[q] # x)
  BY <1>1, <1>12 DEF TypeOK, TableMatchesUsers
<1>14. refs'[x] = 0 => \A d \in Commands : d # c => e[d] # x
  <2> HAVE refs'[x] = 0
  <2>1. Users(x) \ {c} = {}
    <3>1. /\ IsFiniteSet(Users(x) \ {c})
          /\ Cardinality(Users(x) \ {c}) = Cardinality(Users(x)) - 1
      BY <1>3, UsersFinite, FS_RemoveElement
    <3>2. Cardinality(Users(x) \ {c}) = 0
      BY <1>5, <1>1, <3>1 DEF TypeOK
    <3> QED BY <3>1, <3>2, FS_EmptySet
  <2> QED BY <2>1 DEF Users
<1>15. locks'[p] \in {NoEntry, x}
  BY <1>1, <1>12 DEF TypeOK
<1>16. TableMatchesUsers'
  <2>1. ASSUME NEW d \in Commands, pc'[d] # "idle"
        PROVE  id'[d] \in Projects /\ e'[d] \in Entries /\ locks'[id'[d]] = e'[d]
    <3>1. d # c /\ pc[d] # "idle" /\ id'[d] = id[d] /\ e'[d] = e[d]
      BY <1>10, <1>11, <2>1
    <3>2. id[d] \in Projects /\ e[d] \in Entries /\ locks[id[d]] = e[d]
      BY <1>1, <3>1 DEF TableMatchesUsers
    <3>3. CASE id[d] = p
      BY <1>1, <1>12, <1>14, <3>1, <3>2, <3>3
    <3>4. CASE id[d] # p
      BY <1>13, <3>1, <3>2, <3>4
    <3> QED BY <3>3, <3>4
  <2>2. \A q, r \in Projects : locks'[q] = locks'[r] /\ locks'[q] # NoEntry => q = r
    BY <1>1, <1>13, <1>15 DEF TableMatchesUsers
  <2>3. ASSUME NEW q \in Projects, locks'[q] # NoEntry
        PROVE  InUse(locks[q])'
    <3>1. CASE q = p
      <4>1. refs'[x] # 0 /\ locks'[q] = x
        BY <1>1, <1>12, <2>3, <3>1 DEF TypeOK
      <4>2. PICK d \in Users(x)' : TRUE
        BY <1>7, <4>1, FS_EmptySet
      <4>3. d \in Commands /\ e'[d] = x
        BY <4>2 DEF Users
      <4> QED BY <4>1, <4>3 DEF InUse
    <3>2. CASE q # p
      <4>1. PICK d \in Commands : e[d] = locks[q]
        BY <1>1, <1>13, <2>3, <3>2 DEF TableMatchesUsers, InUse
      <4>2. d # c
        BY <1>0, <1>13, <2>3, <3>2, <4>1
      <4> QED BY <1>10, <1>13, <3>2, <4>1, <4>2 DEF InUse
    <3> QED BY <3>1, <3>2
  <2>4. \A d \in Commands : pc'[d] = "idle" => e'[d] = NoEntry
    BY <1>1, <1>10, <1>11 DEF TableMatchesUsers
  <2> QED BY <1>9, <2>1, <2>2, <2>3, <2>4 DEF TableMatchesUsers
<1>17. MutexInv'
  <2>1. \A d \in Commands : pc'[d] = "holding" => mu'[e'[d]] = d
    BY <1>1, <1>10, <1>11 DEF MutexInv
  <2>2. ASSUME NEW z \in Entries, InUse(z)', mu'[z] # NoCommand
        PROVE  pc'[mu'[z]] = "holding" /\ e'[mu'[z]] = z
    <3>1. InUse(z)
      BY <1>10, <1>11, <2>2, SentinelAssumption DEF InUse
    <3>2. pc[mu[z]] = "holding" /\ e[mu[z]] = z /\ mu[z] \in Commands
      BY <1>1, <2>2, <3>1 DEF MutexInv, TypeOK
    <3> QED BY <1>1, <1>10, <3>2
  <2> QED BY <2>1, <2>2 DEF MutexInv
<1> QED BY <1>8, <1>16, <1>17 DEF IInv

\* Every step keeps the invariant.
LEMMA IInvStep == IInv /\ [Next]_vars => IInv'
<1> SUFFICES ASSUME IInv, [Next]_vars PROVE IInv'
  OBVIOUS
<1>1. CASE UNCHANGED vars
  BY <1>1 DEF vars, IInv, TypeOK, TableMatchesUsers, MutexInv, InUse, Users
<1> QED BY <1>1, EnterIInv, AcquireIInv, ReleaseIInv, LeaveIInv DEF Next

\* The invariant holds of every reachable state.
LEMMA IInvAlways == Spec => []IInv
BY InitIInv, IInvStep, PTL DEF Spec, Safe

\* The table of locks keeps its type: no count goes below zero (coordinator.go:28).
THEOREM TypeCorrect == Spec => []TypeOK
<1>1. IInv => TypeOK
  BY DEF IInv
<1> QED BY <1>1, IInvAlways, PTL

\* The table holds exactly the entries in use, each with the number of its users
\* (coordinator.go:15-33).
THEOREM TableExact == Spec => []TableMatchesUsers
<1>1. IInv => TableMatchesUsers
  BY DEF IInv
<1> QED BY <1>1, IInvAlways, PTL

\* Lock never returns to two commands on one project at a time, for every finite
\* set of commands (coordinator.go:15-34).
THEOREM CommandsExclude == Spec => []MutualExclusion
<1>1. IInv => MutualExclusion
  <2> SUFFICES ASSUME IInv, NEW c \in Commands, NEW d \in Commands,
                      pc[c] = "holding", pc[d] = "holding", id[c] = id[d]
               PROVE  c = d
    BY DEF MutualExclusion
  <2>1. e[c] = e[d]
    BY DEF IInv, TableMatchesUsers
  <2> QED BY <2>1 DEF IInv, MutexInv
<1> QED BY <1>1, IInvAlways, PTL

-----------------------------------------------------------------------------
(* The coordinator implements one lasting mutex per project. *)

Waiting(p) == {c \in Commands : pc[c] = "waiting" /\ id[c] = p}
Holder(p) == IF locks[p] = NoEntry THEN NoCommand ELSE mu[locks[p]]
W == [p \in Projects |-> Waiting(p)]
H == [p \in Projects |-> Holder(p)]

\* Whoever the mutex of a project is locked for holds that project.
LEMMA HolderHolds ==
    ASSUME IInv, NEW p \in Projects, Holder(p) # NoCommand
    PROVE  /\ Holder(p) \in Commands /\ pc[Holder(p)] = "holding" /\ id[Holder(p)] = p
           /\ locks[p] # NoEntry
<1>1. /\ locks[p] \in Entries /\ InUse(locks[p]) /\ mu[locks[p]] # NoCommand
      /\ Holder(p) = mu[locks[p]] /\ Holder(p) \in Commands
  BY DEF IInv, TypeOK, TableMatchesUsers, Holder
<1>2. pc[Holder(p)] = "holding" /\ e[Holder(p)] = locks[p]
  BY <1>1 DEF IInv, MutexInv
<1>3. /\ id[Holder(p)] \in Projects
      /\ locks[id[Holder(p)]] = locks[p]
  BY <1>1, <1>2 DEF IInv, TableMatchesUsers
<1> QED BY <1>1, <1>2, <1>3, SentinelAssumption DEF IInv, TableMatchesUsers

\* The holder of the project of a busy command is whoever locked its entry.
LEMMA HolderOf ==
    ASSUME IInv, NEW c \in Commands, pc[c] # "idle"
    PROVE  id[c] \in Projects /\ e[c] \in Entries /\ Holder(id[c]) = mu[e[c]]
BY SentinelAssumption DEF IInv, TableMatchesUsers, Holder

\* Every step of the table is a step of the abstract lock or a stutter: Enter is
\* Request, Acquire is Grant, Release is Free, Leave changes nothing.
LEMMA LockStep ==
    IInv /\ IInv' /\ [Next]_vars => [LockOf!Next]_(LockOf!lockVars)
<1> SUFFICES ASSUME IInv, IInv', [Next]_vars
             PROVE  LockOf!Next \/ UNCHANGED <<W, H>>
  BY DEF LockOf!lockVars, W, H, Waiting, Holder
<1>1. ASSUME NEW c \in Commands, NEW p \in Projects, NEW x \in Entries, Enter(c, p, x)
      PROVE  LockOf!Request(c, p)
  <2>1. /\ pc[c] = "idle" /\ pc' = [pc EXCEPT ![c] = "waiting"] /\ id' = [id EXCEPT ![c] = p]
        /\ pc \in [Commands -> {"idle", "waiting", "holding", "leaving"}]
        /\ id \in [Commands -> Projects \cup {NoProject}]
    BY <1>1 DEF Enter, IInv, TypeOK
  <2>2. \A q \in Projects : c \notin Waiting(q) /\ Holder(q) # c
    BY <2>1, HolderHolds, SentinelAssumption DEF Waiting
  <2>3. \A q \in Projects : Waiting(q)' = IF q = p THEN Waiting(q) \cup {c} ELSE Waiting(q)
    BY <2>1 DEF Waiting
  <2>4. ASSUME NEW q \in Projects
        PROVE  Holder(q)' = Holder(q)
    <3>1. CASE locks[p] = NoEntry
      <4>1. /\ locks' = [locks EXCEPT ![p] = x] /\ mu' = [mu EXCEPT ![x] = NoCommand]
            /\ locks[q] # x
        BY <1>1, <3>1 DEF Enter
      <4> QED BY <3>1, <4>1, SentinelAssumption DEF Holder, IInv, TypeOK
    <3>2. CASE locks[p] # NoEntry
      BY <1>1, <3>2 DEF Enter, Holder
    <3> QED BY <3>1, <3>2
  <2>5. c \notin (UNION {W[q] : q \in Projects}) \cup {H[q] : q \in Projects}
    <3>1. \A q \in Projects : c \notin W[q] /\ H[q] # c
      BY <2>2 DEF W, H
    <3>2. \A S \in {W[q] : q \in Projects} : c \notin S
      BY <3>1
    <3>3. c \notin {H[q] : q \in Projects}
      BY <3>1
    <3> QED BY <3>2, <3>3
  <2>6. W' = [W EXCEPT ![p] = @ \cup {c}]
    BY <2>3 DEF W
  <2>7. H' = H
    BY <2>4 DEF H
  <2> QED BY <2>5, <2>6, <2>7 DEF LockOf!Request, LockOf!Involved, W, H, Waiting, Holder
<1>2. ASSUME NEW c \in Commands, Acquire(c)
      PROVE  \E p \in Projects : LockOf!Grant(c, p)
  <2>0. PICK p \in Projects : p = id[c]
    BY <1>2, HolderOf DEF Acquire
  <2>1. /\ pc[c] = "waiting" /\ Holder(p) = NoCommand /\ e[c] \in Entries
        /\ locks[p] = e[c] /\ locks[p] # NoEntry
    BY <1>2, <2>0, HolderOf, SentinelAssumption DEF Acquire, IInv, TableMatchesUsers
  <2>2. /\ c \in Waiting(p)
        /\ \A q \in Projects : q # p => c \notin Waiting(q)
    BY <2>0, <2>1 DEF Waiting
  <2>3. \A q \in Projects : Waiting(q)' = Waiting(q) \ {c}
    BY <1>2 DEF Acquire, Waiting, IInv, TypeOK
  <2>4. Holder(p)' = c
    BY <1>2, <2>1 DEF Acquire, Holder, IInv, TypeOK
  <2>5. ASSUME NEW q \in Projects, q # p
        PROVE  Holder(q)' = Holder(q)
    <3>1. locks[q] # NoEntry => locks[q] # e[c]
      BY <2>1, <2>5 DEF IInv, TableMatchesUsers
    <3> QED BY <1>2, <3>1 DEF Acquire, Holder, IInv, TypeOK
  <2>6. W' = [W EXCEPT ![p] = @ \ {c}]
    BY <2>2, <2>3 DEF W
  <2>7. H' = [H EXCEPT ![p] = c]
    BY <2>4, <2>5 DEF H
  <2>8. c \in W[p] /\ H[p] = NoCommand
    BY <2>1, <2>2 DEF W, H
  <2>9. LockOf!Grant(c, p)
    BY <2>6, <2>7, <2>8 DEF LockOf!Grant, W, H, Waiting, Holder
  <2> QED BY <2>9
<1>3. ASSUME NEW c \in Commands, Release(c)
      PROVE  \E p \in Projects : LockOf!Free(c, p)
  <2>0. PICK p \in Projects : p = id[c]
    BY <1>3, HolderOf DEF Release
  <2>1. /\ Holder(p) = c /\ e[c] \in Entries /\ locks[p] = e[c] /\ locks[p] # NoEntry
    BY <1>3, <2>0, HolderOf, SentinelAssumption DEF Release, IInv, TableMatchesUsers, MutexInv
  <2>2. \A q \in Projects : Waiting(q)' = Waiting(q)
    BY <1>3 DEF Release, Waiting, IInv, TypeOK
  <2>3. Holder(p)' = NoCommand
    BY <1>3, <2>1 DEF Release, Holder, IInv, TypeOK
  <2>4. ASSUME NEW q \in Projects, q # p
        PROVE  Holder(q)' = Holder(q)
    <3>1. locks[q] # NoEntry => locks[q] # e[c]
      BY <2>1, <2>4 DEF IInv, TableMatchesUsers
    <3> QED BY <1>3, <3>1 DEF Release, Holder, IInv, TypeOK
  <2>5. W' = W
    BY <2>2 DEF W
  <2>6. H' = [H EXCEPT ![p] = NoCommand]
    BY <2>3, <2>4 DEF H
  <2>7. H[p] = c
    BY <2>1 DEF H
  <2>8. LockOf!Free(c, p)
    BY <2>5, <2>6, <2>7 DEF LockOf!Free, W, H, Waiting, Holder
  <2> QED BY <2>8
<1>4. ASSUME NEW c \in Commands, Leave(c)
      PROVE  W' = W /\ H' = H
  <2>1. /\ pc[c] = "leaving" /\ pc' = [pc EXCEPT ![c] = "idle"] /\ mu' = mu
        /\ id' = [id EXCEPT ![c] = NoProject] /\ e[c] \in Entries
        /\ locks' = locks \/ locks' = [locks EXCEPT ![id[c]] = NoEntry]
    BY <1>4, HolderOf DEF Leave
  <2>2. \A q \in Projects : Waiting(q)' = Waiting(q)
    BY <2>1, SentinelAssumption DEF Waiting, IInv, TypeOK
  <2>3. ASSUME NEW q \in Projects
        PROVE  Holder(q)' = Holder(q)
    <3>1. CASE locks'[q] = locks[q]
      BY <2>1, <3>1 DEF Holder
    <3>2. CASE locks'[q] # locks[q]
      <4>1. locks'[q] = NoEntry /\ Holder(q)' = NoCommand
        BY <2>1, <3>2 DEF IInv, TypeOK, Holder
      <4>2. SUFFICES ASSUME Holder(q) # NoCommand PROVE FALSE
        BY <4>1
      <4>3. PICK d \in Commands : d = Holder(q) /\ pc[d] = "holding" /\ id[d] = q
        BY <4>2, HolderHolds
      <4>4. d # c /\ pc'[d] = "holding" /\ id'[d] = q
        BY <2>1, <4>3 DEF IInv, TypeOK
      <4>5. locks'[q] = e'[d] /\ e'[d] \in Entries
        BY <4>4 DEF IInv, TableMatchesUsers
      <4> QED BY <4>1, <4>5, SentinelAssumption
    <3> QED BY <3>1, <3>2
  <2> QED BY <2>2, <2>3 DEF W, H
<1>5. CASE UNCHANGED vars
  BY <1>5 DEF vars, W, H, Waiting, Holder
<1>6. ASSUME NEW c \in Commands, NEW p \in Projects,
             LockOf!Request(c, p) \/ LockOf!Grant(c, p) \/ LockOf!Free(c, p)
      PROVE  LockOf!Next
  BY <1>6 DEF LockOf!Next
<1>7. ASSUME NEW c \in Commands,
             (\E p \in Projects, x \in Entries : Enter(c, p, x)) \/ Acquire(c) \/ Release(c)
      PROVE  LockOf!Next
  <2>1. CASE \E p \in Projects, x \in Entries : Enter(c, p, x)
    <3>1. PICK p \in Projects, x \in Entries : Enter(c, p, x)
      BY <2>1
    <3>2. LockOf!Request(c, p)
      BY <1>1, <3>1
    <3> QED BY <1>6, <3>2
  <2>2. CASE Acquire(c)
    BY <1>2, <1>6, <2>2
  <2>3. CASE Release(c)
    BY <1>3, <1>6, <2>3
  <2> QED BY <1>7, <2>1, <2>2, <2>3
<1> QED BY <1>4, <1>5, <1>7 DEF Next

\* Waiting commands wait for a command at work, so that no commands wait for each
\* other (coordinator.go:24-33).
THEOREM NoCircularWait == Spec => []WaitsForWorker
<1>1. IInv => WaitsForWorker
  <2> SUFFICES ASSUME IInv, NEW c \in Commands, pc[c] = "waiting", mu[e[c]] # NoCommand
               PROVE  pc[mu[e[c]]] = "holding" /\ id[mu[e[c]]] = id[c]
    BY DEF WaitsForWorker
  <2> DEFINE d == mu[e[c]]
  <2>1. /\ e[c] \in Entries /\ InUse(e[c]) /\ id[c] \in Projects /\ locks[id[c]] = e[c]
    BY DEF IInv, TableMatchesUsers, InUse
  <2>2. d \in Commands /\ pc[d] = "holding" /\ e[d] = e[c]
    BY <2>1 DEF IInv, TypeOK, MutexInv
  <2>3. id[d] \in Projects /\ locks[id[d]] = e[d]
    BY <2>2 DEF IInv, TableMatchesUsers
  <2>4. locks[id[c]] # NoEntry
    BY <2>1, SentinelAssumption
  <2>5. id[d] = id[c]
    BY <2>1, <2>2, <2>3, <2>4 DEF IInv, TableMatchesUsers
  <2> QED BY <2>2, <2>5
<1> QED BY <1>1, IInvAlways, PTL

\* Every behaviour of the coordinator is one of a lasting mutex per project, which
\* is what execute takes it for (service.go:61).
THEOREM ImplementsProjectLock == Spec => LockOf!Safe
<1>1. Init => LockOf!Init
  BY DEF Init, LockOf!Init
<1> QED BY <1>1, LockStep, IInvAlways, PTL DEF Spec, Safe, LockOf!Safe
=============================================================================
