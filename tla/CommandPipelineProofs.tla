------------------------- MODULE CommandPipelineProofs -------------------------
(***************************************************************************)
(* Theorems about CommandPipeline, for every set of handlers, requests and *)
(* commands, and for every number of failures.                             *)
(***************************************************************************)
EXTENDS CommandPipeline, TLAPS

Steps == {"idle", "locking", "replaying", "creating", "loading", "mutating",
          "recording", "committing", "appending", "answering"}

-----------------------------------------------------------------------------
(* Types. *)

\* Answers have their type.
LEMMA AnswerTypes ==
    /\ \A o \in {"ok", "revision_conflict", "refused", "idempotency_conflict", "not_found",
                 "error"} : Answer(o) \in Answers
    /\ \A n \in Nat : Accepted(n) \in Answers
BY DEF Answer, Accepted, Answers

\* What the mutation leaves of a command is a command.
LEMMA MutatedCommand ==
    ASSUME TypeOK, NEW h \in Handlers, pc[h] # "idle"
    PROVE  AfterMutation(h) \in Command
<1>1. command[h] \in Command
  BY DEF TypeOK
<1>2. Normal[command[h].body] \in Bodies
  BY <1>1, NormalAssumption DEF Command
<1> QED BY <1>1, <1>2 DEF AfterMutation, Command

\* A changed copy is a project again.
LEMMA ChangedTypes ==
    ASSUME TypeOK, NEW h \in Handlers, pc[h] = "mutating",
           NEW s \in {"draft", "working", "frozen"}, NEW m \in Nat, Changed(h, s, m)
    PROVE  /\ command' \in [Handlers -> Command \cup {NoCommand}]
           /\ command'[h] \in Command
           /\ copy' \in [Handlers -> Project \cup {NoProject}]
           /\ copy'[h] \in Project
           /\ pc' = [pc EXCEPT ![h] = "committing"]
<1>1. AfterMutation(h) \in Command
  BY MutatedCommand
<1>2. command' = [command EXCEPT ![h] = AfterMutation(h)] /\ command'[h] = AfterMutation(h)
  BY DEF Changed, TypeOK
<1>3. copy[h] \in Project
  BY DEF TypeOK
<1>4. [revision |-> copy[h].revision + 1, status |-> s,
       content |-> Append(copy[h].content, command'[h]), frozenAt |-> m] \in Project
  BY <1>1, <1>2, <1>3 DEF Project
<1>5. copy' = [copy EXCEPT ![h] =
         [revision |-> copy[h].revision + 1, status |-> s,
          content |-> Append(copy[h].content, command'[h]), frozenAt |-> m]]
  BY DEF Changed
<1> QED BY <1>1, <1>2, <1>4, <1>5 DEF Changed, Goto, TypeOK

\* Saving a record keeps the type of the records.
LEMMA SaveTypes ==
    ASSUME TypeOK, NEW h \in Handlers, pc[h] # "idle", NEW a \in Answers, Save(h, a)
    PROVE  records' \in [Requests -> Record \cup {NoRecord}]
<1>1. command[h] \in Command /\ command[h].request \in Requests
  BY DEF TypeOK, Command
<1>2. [fingerprint |-> command[h], answer |-> a] \in Record
  BY <1>1 DEF Record
<1> QED BY <1>1, <1>2 DEF Save, TypeOK

\* Every step keeps the types.
LEMMA TypeStep == TypeOK /\ [Next]_vars => TypeOK'
<1> SUFFICES ASSUME TypeOK, [Next]_vars PROVE TypeOK'
  OBVIOUS
<1> USE FailureAssumption
<1>1. ASSUME NEW h \in Handlers, NEW c \in Commands, Receive(h, c) PROVE TypeOK'
  BY <1>1, CommandAssumption DEF Receive, TypeOK, Goto, stored
<1>2. ASSUME NEW h \in Handlers, Acquire(h) PROVE TypeOK'
  BY <1>2 DEF Acquire, TypeOK, Goto, stored, local
<1>3. ASSUME NEW h \in Handlers, Replay(h) PROVE TypeOK'
  <2>1. failures' \in 0..MaxFailures
    BY <1>3 DEF Replay, TypeOK, CallFails, CallWorks
  <2>2. Known(h) => Found(h).answer \in Answers
    <3>1. command[h].request \in Requests
      BY <1>3 DEF Replay, TypeOK, Command
    <3> QED BY <3>1 DEF Known, Found, Record, TypeOK
  <2>3. answer' \in [Handlers -> Answers]
    BY <1>3, <2>2, AnswerTypes DEF Replay, Reply, TypeOK
  <2>4. pc' = [pc EXCEPT ![h] = "answering"] \/ pc' = [pc EXCEPT ![h] = "creating"]
          \/ pc' = [pc EXCEPT ![h] = "loading"]
    BY <1>3 DEF Replay, Reply, Goto
  <2> QED BY <1>3, <2>1, <2>3, <2>4 DEF Replay, TypeOK, stored, local
<1>4. ASSUME NEW h \in Handlers, Create(h) PROVE TypeOK'
  <2>1. failures' \in 0..MaxFailures
    BY <1>4 DEF Create, TypeOK, CallFails, CallWorks
  <2>2. answer' \in [Handlers -> Answers]
    BY <1>4, AnswerTypes DEF Create, Reply, TypeOK
  <2>3. command[h] \in Command
    BY <1>4 DEF Create, TypeOK
  <2> DEFINE new == [revision |-> 1, status |-> "draft", content |-> <<command[h]>>, frozenAt |-> 0]
  <2>4. new \in Project
    BY <2>3 DEF Project
  <2>5. \/ pc' = [pc EXCEPT ![h] = "answering"] /\ copy' = copy
        \/ pc' = [pc EXCEPT ![h] = "committing"] /\ copy' = [copy EXCEPT ![h] = new]
    BY <1>4, Zenon DEF Create, Reply, Goto
  <2> HIDE DEF new
  <2>6. copy \in [Handlers -> Project \cup {NoProject}]
    BY DEF TypeOK
  <2>7. \/ pc' = [pc EXCEPT ![h] = "answering"] /\ copy' = copy
        \/ /\ pc' = [pc EXCEPT ![h] = "committing"]
           /\ copy' \in [Handlers -> Project \cup {NoProject}] /\ copy'[h] \in Project
           /\ \A k \in Handlers : k # h => copy'[k] = copy[k]
    BY <2>4, <2>5, <2>6
  <2>8. UNCHANGED <<stored, moments, holder, command, cancelled, told>>
    BY <1>4, Zenon DEF Create
  <2> QED BY <2>1, <2>2, <2>3, <2>7, <2>8 DEF TypeOK, stored
<1>5. ASSUME NEW h \in Handlers, Load(h) PROVE TypeOK'
  <2>1. failures' \in 0..MaxFailures
    BY <1>5 DEF Load, TypeOK, CallFails, CallWorks
  <2>2. answer' \in [Handlers -> Answers]
    BY <1>5, AnswerTypes DEF Load, Reply, TypeOK
  <2>3. \/ /\ copy' = copy
           /\ pc' = [pc EXCEPT ![h] = "answering"] \/ pc' = [pc EXCEPT ![h] = "recording"]
        \/ /\ pc' = [pc EXCEPT ![h] = "mutating"] /\ project \in Project
           /\ copy' = [copy EXCEPT ![h] = project]
    BY <1>5 DEF Load, Reply, Goto, TypeOK
  <2> QED BY <1>5, <2>1, <2>2, <2>3, ZenonT(30) DEF Load, TypeOK, stored
<1>6. ASSUME NEW h \in Handlers, Refuse(h) PROVE TypeOK'
  <2>1. AfterMutation(h) \in Command
    BY <1>6, MutatedCommand DEF Refuse
  <2> QED BY <1>6, <2>1, AnswerTypes DEF Refuse, Goto, TypeOK, stored
<1>7. ASSUME NEW h \in Handlers, Mutate(h) PROVE TypeOK'
  <2>1. Changed(h, "working", 0) /\ pc[h] = "mutating"
    BY <1>7 DEF Mutate
  <2>2. /\ command' \in [Handlers -> Command \cup {NoCommand}] /\ command'[h] \in Command
        /\ copy' \in [Handlers -> Project \cup {NoProject}] /\ copy'[h] \in Project
        /\ pc' = [pc EXCEPT ![h] = "committing"]
    BY <2>1, ChangedTypes
  <2>3. \A k \in Handlers : k # h => command'[k] = command[k] /\ copy'[k] = copy[k]
    BY <2>1 DEF Changed, TypeOK
  <2> QED BY <1>7, <2>2, <2>3 DEF Mutate, TypeOK, stored
<1>8. ASSUME NEW h \in Handlers, FreezePackage(h) PROVE TypeOK'
  <2>1. failures' \in 0..MaxFailures
    BY <1>8 DEF FreezePackage, TypeOK, CallFails, CallWorks
  <2>2. CASE Goto(h, "recording") /\ answer' = [answer EXCEPT ![h] = Answer("refused")]
             /\ UNCHANGED <<packages, moments, command, copy>>
    BY <1>8, <2>1, <2>2, AnswerTypes DEF FreezePackage, Goto, TypeOK
  <2>3. CASE /\ moments' = moments + 1
             /\ SavePackage([content |-> copy[h].content, frozenAt |-> moments'])
             /\ Changed(h, "frozen", moments')
             /\ UNCHANGED answer
    <3>1. pc[h] = "mutating" /\ moments' \in Nat /\ copy[h] \in Project
      BY <1>8, <2>3 DEF FreezePackage, TypeOK
    <3>2. /\ command' \in [Handlers -> Command \cup {NoCommand}] /\ command'[h] \in Command
          /\ copy' \in [Handlers -> Project \cup {NoProject}] /\ copy'[h] \in Project
          /\ pc' = [pc EXCEPT ![h] = "committing"]
      BY <2>3, <3>1, ChangedTypes
    <3>3. \A k \in Handlers : k # h => command'[k] = command[k] /\ copy'[k] = copy[k]
      BY <2>3 DEF Changed, TypeOK
    <3>4. packages' \subseteq Package
      BY <2>3, <3>1 DEF SavePackage, Package, Project, TypeOK
    <3> QED BY <1>8, <2>1, <2>3, <3>1, <3>2, <3>3, <3>4 DEF FreezePackage, TypeOK
  <2> QED BY <1>8, <2>2, <2>3 DEF FreezePackage
<1>9. ASSUME NEW h \in Handlers, PersistFailure(h) PROVE TypeOK'
  <2>1. failures' \in 0..MaxFailures
    BY <1>9 DEF PersistFailure, TypeOK, CallFails, CallWorks
  <2>2. records' \in [Requests -> Record \cup {NoRecord}]
    <3>1. pc[h] # "idle" /\ answer[h] \in Answers
      BY <1>9 DEF PersistFailure, TypeOK
    <3> QED BY <1>9, <3>1, SaveTypes DEF PersistFailure, TypeOK
  <2> QED BY <1>9, <2>1, <2>2 DEF PersistFailure, Goto, TypeOK, local
<1>10. ASSUME NEW h \in Handlers, Commit(h) PROVE TypeOK'
  <2>1. failures' \in 0..MaxFailures
    BY <1>10 DEF Commit, TypeOK, CallFails, CallWorks
  <2>2. copy[h] \in Project /\ copy[h].revision \in Nat /\ pc[h] = "committing"
    BY <1>10 DEF Commit, TypeOK, Project
  <2>3. records' \in [Requests -> Record \cup {NoRecord}]
    BY <1>10, <2>2, SaveTypes, AnswerTypes DEF Commit, TypeOK
  <2>4. answer' \in [Handlers -> Answers]
    BY <1>10, AnswerTypes DEF Commit, Reply, TypeOK
  <2>5. project' \in Project \cup {NoProject}
    BY <1>10, <2>2 DEF Commit, TypeOK
  <2>6. pc' = [pc EXCEPT ![h] = "answering"] \/ pc' = [pc EXCEPT ![h] = "appending"]
    BY <1>10 DEF Commit, Reply, Goto
  <2> QED BY <1>10, <2>1, <2>2, <2>3, <2>4, <2>5, <2>6 DEF Commit, TypeOK, local
<1>11. ASSUME NEW h \in Handlers, AppendEvent(h) PROVE TypeOK'
  <2>1. copy[h].revision \in Nat
    BY <1>11 DEF AppendEvent, TypeOK, Project
  <2>2. events' \in Seq(Nat)
    <3>1. events \in Seq(Nat) /\ Append(events, copy[h].revision) \in Seq(Nat)
      BY <2>1 DEF TypeOK
    <3> QED BY <1>11, <3>1 DEF AppendEvent
  <2>3. answer' \in [Handlers -> Answers] /\ failures' \in 0..MaxFailures
    BY <1>11, <2>1, AnswerTypes DEF AppendEvent, Reply, TypeOK
  <2> QED BY <1>11, <2>2, <2>3 DEF AppendEvent, Reply, Goto, TypeOK, local
<1>12. ASSUME NEW h \in Handlers, Respond(h) PROVE TypeOK'
  <2>1. told' \subseteq [request : Requests, revision : Nat]
    <3>1. command[h].request \in Requests /\ answer[h].revision \in Nat
      BY <1>12 DEF Respond, TypeOK, Command, Answers
    <3> QED BY <1>12, <3>1 DEF Respond, TypeOK
  <2> QED BY <1>12, <2>1, AnswerTypes DEF Respond, Goto, TypeOK, stored
<1>13. ASSUME NEW h \in Handlers, Cancel(h) PROVE TypeOK'
  BY <1>13 DEF Cancel, TypeOK, stored, local
<1>14. CASE Crash
  BY <1>14, AnswerTypes DEF Crash, TypeOK, stored
<1>15. CASE UNCHANGED vars
  BY <1>15 DEF vars, TypeOK
<1> QED BY <1>1, <1>2, <1>3, <1>4, <1>5, <1>6, <1>7, <1>8, <1>9, <1>10, <1>11, <1>12, <1>13,
           <1>14, <1>15 DEF Next

\* What is stored is of the form the program reads back, and a handler at work has
\* a command, and a copy when it needs one (service.go:57-105).
THEOREM TypeCorrect == Spec => []TypeOK
<1>1. Init => TypeOK
  BY FailureAssumption, AnswerTypes DEF Init, TypeOK
<1> QED BY <1>1, TypeStep, PTL DEF Spec, Safe

-----------------------------------------------------------------------------
(* The lock. *)

\* The lock is with the one handler that works on the project: none works without
\* it, and none that is done keeps it, whichever of the early returns, errors,
\* cancellations and crashes ended its work (service.go:57-105, 36-55).
LockIsWorkers ==
    \A h \in Handlers : holder = h <=> pc[h] \notin {"idle", "locking"}

\* Every step keeps the lock exact.
LEMMA LockStep == TypeOK /\ LockIsWorkers /\ [Next]_vars => LockIsWorkers'
<1> SUFFICES ASSUME TypeOK, LockIsWorkers, [Next]_vars PROVE LockIsWorkers'
  OBVIOUS
<1>1. pc \in [Handlers -> Steps]
  BY DEF TypeOK, Steps
<1>2. ASSUME NEW h \in Handlers, NEW c \in Commands, Receive(h, c) PROVE LockIsWorkers'
  BY <1>1, <1>2 DEF Receive, Goto, LockIsWorkers
<1>3. ASSUME NEW h \in Handlers, Acquire(h) PROVE LockIsWorkers'
  BY <1>1, <1>3, HandlerAssumption DEF Acquire, Goto, LockIsWorkers
<1>4. ASSUME NEW h \in Handlers, NEW l \in Steps \ {"idle", "locking"},
             pc[h] \notin {"idle", "locking"}, Goto(h, l), holder' = holder
      PROVE  LockIsWorkers'
  BY <1>1, <1>4 DEF Goto, LockIsWorkers
<1>5. ASSUME NEW h \in Handlers, Run(h), ~Respond(h) PROVE LockIsWorkers'
  <2>1. \E l \in Steps \ {"idle", "locking"} : Goto(h, l)
    BY <1>5 DEF Run, Replay, Create, Load, Refuse, Mutate, FreezePackage, PersistFailure,
                Commit, AppendEvent, Reply, Changed, Steps
  <2>2. pc[h] \notin {"idle", "locking"} /\ holder' = holder
    BY <1>5 DEF Run, Replay, Create, Load, Refuse, Mutate, FreezePackage, PersistFailure,
                Commit, AppendEvent
  <2> QED BY <1>4, <2>1, <2>2
<1>6. ASSUME NEW h \in Handlers, Respond(h) PROVE LockIsWorkers'
  BY <1>1, <1>6, HandlerAssumption DEF Respond, Goto, LockIsWorkers
<1>7. ASSUME NEW h \in Handlers, Cancel(h) PROVE LockIsWorkers'
  BY <1>7 DEF Cancel, LockIsWorkers
<1>8. CASE Crash
  BY <1>8, HandlerAssumption DEF Crash, LockIsWorkers
<1>9. CASE UNCHANGED vars
  BY <1>9 DEF vars, LockIsWorkers
<1> QED BY <1>2, <1>3, <1>5, <1>6, <1>7, <1>8, <1>9 DEF Next, Run

\* No return of execute or CreateProject keeps the lock, and nobody works without
\* it (service.go:36-117).
THEOREM LockExact == Spec => []LockIsWorkers
<1>1. Init => LockIsWorkers
  BY HandlerAssumption DEF Init, LockIsWorkers
<1> QED BY <1>1, LockStep, TypeCorrect, PTL DEF Spec, Safe

-----------------------------------------------------------------------------
(* Requests and revisions. *)

\* Request r made revision n of the project.
Made(n, r) == n \in 1..Revision /\ Content[n].request = r

\* A handler between the replay and the commit works on a request without a record.
FreshAt(h) ==
    pc[h] \in {"creating", "loading", "mutating", "recording", "committing"} => ~Known(h)
Fresh == \A h \in Handlers : FreshAt(h)

\* What made the project has a record, and what is recorded as accepted made it.
RecordsTrue ==
    /\ \A i \in 1..Revision : records[Content[i].request] # NoRecord
    /\ \A r \in Requests : records[r] # NoRecord /\ records[r].answer.outcome = "ok"
            => Made(records[r].answer.revision, r)

\* What a handler is about to tell, record or store is true of the project.
WorkAt(h) ==
    /\ pc[h] = "answering" /\ answer[h].outcome = "ok"
          => Made(answer[h].revision, command[h].request)
    /\ pc[h] = "recording" => answer[h] \in Ledger!Refusals
    /\ pc[h] = "mutating" =>
          project # NoProject /\ copy[h] = project /\ command[h].expected = Revision
    /\ pc[h] = "committing" =>
          /\ copy[h].revision = Revision + 1
          /\ copy[h].content = Append(Content, command[h])
          /\ command[h].expected = Revision
    /\ pc[h] = "appending" => Made(copy[h].revision, command[h].request)
WorkInv == \A h \in Handlers : WorkAt(h)

IInv == /\ TypeOK /\ LockIsWorkers
        /\ AppliedOnce /\ AcceptedIsStored
        /\ Fresh /\ RecordsTrue /\ WorkInv

\* Revision and Content have their types before and after the creation.
LEMMA ContentTypes ==
    ASSUME TypeOK
    PROVE  Revision \in Nat /\ Content \in Seq(Command)
BY DEF TypeOK, Revision, Content, Project

\* The content consists of commands, one for each revision.
LEMMA ContentCommands ==
    ASSUME TypeOK, AppliedOnce
    PROVE  \A i \in 1..Revision : Content[i] \in Command /\ Content[i].request \in Requests
<1>1. Content \in Seq(Command) /\ Len(Content) = Revision
  BY ContentTypes DEF AppliedOnce
<1>2. ASSUME NEW i \in 1..Revision PROVE Content[i] \in Command
  BY <1>1
<1> QED BY <1>2 DEF Command

\* A store without the project satisfies the invariant.
LEMMA InitIInv == Init => IInv
<1> SUFFICES ASSUME Init PROVE IInv
  OBVIOUS
<1>1. TypeOK
  BY FailureAssumption, AnswerTypes DEF Init, TypeOK
<1>2. LockIsWorkers
  BY HandlerAssumption DEF Init, LockIsWorkers
<1>3. Revision = 0 /\ Content = <<>>
  BY DEF Init, Revision, Content
<1>4. AppliedOnce /\ AcceptedIsStored
  BY <1>3 DEF Init, AppliedOnce, AcceptedIsStored
<1>5. Fresh /\ WorkInv
  BY DEF Init, Fresh, FreshAt, WorkInv, WorkAt
<1>6. RecordsTrue
  BY <1>3 DEF Init, RecordsTrue
<1> QED BY <1>1, <1>2, <1>4, <1>5, <1>6 DEF IInv

\* A step that changes neither project nor records keeps what is true of them.
LEMMA SameStored ==
    ASSUME IInv, project' = project, records' = records
    PROVE  /\ Revision' = Revision /\ Content' = Content
           /\ \A n, r : Made(n, r)' <=> Made(n, r)
           /\ AppliedOnce' /\ RecordsTrue'
           /\ told' = told => AcceptedIsStored'
<1>1. Revision' = Revision /\ Content' = Content
  BY DEF Revision, Content
<1>2. \A n, r : Made(n, r)' <=> Made(n, r)
  BY <1>1 DEF Made
<1>3. AppliedOnce'
  BY <1>1 DEF IInv, AppliedOnce
<1>4. RecordsTrue'
  BY <1>1, <1>2 DEF IInv, RecordsTrue
<1>5. told' = told => AcceptedIsStored'
  BY <1>1 DEF IInv, AcceptedIsStored
<1> QED BY <1>1, <1>2, <1>3, <1>4, <1>5

\* The steps up to the lock, and those of the client, touch nothing that matters.
LEMMA OutsideStep ==
    ASSUME IInv, NEW h \in Handlers,
           (\E c \in Commands : Receive(h, c)) \/ Acquire(h) \/ Cancel(h)
    PROVE  Fresh' /\ WorkInv' /\ AppliedOnce' /\ AcceptedIsStored' /\ RecordsTrue'
<1>1. /\ project' = project /\ records' = records /\ told' = told
      /\ copy' = copy /\ answer' = answer
  BY DEF Receive, Acquire, Cancel, stored, local
<1>2. /\ AppliedOnce' /\ AcceptedIsStored' /\ RecordsTrue'
      /\ Revision' = Revision /\ Content' = Content
      /\ \A n, r : Made(n, r)' <=> Made(n, r)
  BY <1>1, SameStored
<1>3. \A k \in Handlers : \/ pc'[k] \in {"locking", "replaying"}
                          \/ pc'[k] = pc[k] /\ command'[k] = command[k]
  BY DEF Receive, Acquire, Cancel, Goto, local, IInv, TypeOK
<1>4. Fresh'
  BY <1>1, <1>3 DEF IInv, Fresh, FreshAt, Known
<1>5. WorkInv'
  BY <1>1, <1>2, <1>3 DEF IInv, WorkInv, WorkAt
<1> QED BY <1>2, <1>4, <1>5

\* The steps of a handler that stores nothing leave the others as they are.
LEMMA OnlyWorker ==
    ASSUME IInv, NEW h \in Handlers,
           project' = project, records' = records, told' = told,
           \A k \in Handlers \ {h} : /\ pc'[k] = pc[k] /\ command'[k] = command[k]
                                     /\ copy'[k] = copy[k] /\ answer'[k] = answer[k],
           FreshAt(h)', WorkAt(h)'
    PROVE  Fresh' /\ WorkInv' /\ AppliedOnce' /\ AcceptedIsStored' /\ RecordsTrue'
<1>1. /\ AppliedOnce' /\ AcceptedIsStored' /\ RecordsTrue'
      /\ Revision' = Revision /\ Content' = Content
      /\ \A n, r : Made(n, r)' <=> Made(n, r)
  BY SameStored
<1>2. ASSUME NEW k \in Handlers \ {h} PROVE FreshAt(k)' /\ WorkAt(k)'
  <2>1. FreshAt(k) /\ WorkAt(k)
    BY DEF IInv, Fresh, WorkInv
  <2>2. FreshAt(k)'
    BY <2>1 DEF FreshAt, Known
  <2>3. WorkAt(k)'
    BY <1>1, <2>1 DEF WorkAt
  <2> QED BY <2>2, <2>3
<1> QED BY <1>1, <1>2 DEF Fresh, WorkInv

\* Replay, and the steps that lead to a commit or a refusal.
LEMMA InnerStep ==
    ASSUME IInv, NEW h \in Handlers,
           Replay(h) \/ Create(h) \/ Load(h) \/ Refuse(h) \/ Mutate(h) \/ FreezePackage(h)
             \/ AppendEvent(h)
    PROVE  Fresh' /\ WorkInv' /\ AppliedOnce' /\ AcceptedIsStored' /\ RecordsTrue'
<1>1. /\ project' = project /\ records' = records /\ told' = told
      /\ \A k \in Handlers \ {h} : /\ pc'[k] = pc[k] /\ command'[k] = command[k]
                                   /\ copy'[k] = copy[k] /\ answer'[k] = answer[k]
  BY DEF Replay, Create, Load, Refuse, Mutate, FreezePackage, AppendEvent, Changed, Reply, Goto,
         stored, local, IInv, TypeOK
<1>2. /\ TypeOK /\ FreshAt(h) /\ WorkAt(h) /\ RecordsTrue
      /\ Revision' = Revision /\ Content' = Content
      /\ \A n, r : Made(n, r)' <=> Made(n, r)
  BY <1>1, SameStored DEF IInv, Fresh, WorkInv
<1>3. /\ pc \in [Handlers -> Steps] /\ answer \in [Handlers -> Answers]
      /\ command \in [Handlers -> Command \cup {NoCommand}]
      /\ copy \in [Handlers -> Project \cup {NoProject}]
  BY <1>2 DEF TypeOK, Steps
<1>4. Revision \in Nat /\ Content \in Seq(Command)
  BY <1>2, ContentTypes
<1>5. CASE Replay(h)
  <2>1. command'[h] = command[h] /\ command[h].request \in Requests
    BY <1>2, <1>5 DEF Replay, local, TypeOK, Command
  <2>2. \/ pc'[h] = "answering" /\ answer'[h] \in {Answer("error"), Answer("idempotency_conflict")}
        \/ pc'[h] = "answering" /\ answer'[h] = Found(h).answer /\ Known(h)
        \/ pc'[h] \in {"creating", "loading"} /\ ~Known(h)
    BY <1>3, <1>5 DEF Replay, Reply, Goto
  <2>3. FreshAt(h)'
    BY <1>1, <2>1, <2>2 DEF FreshAt, Known
  <2>4. WorkAt(h)'
    BY <1>2, <2>1, <2>2 DEF WorkAt, RecordsTrue, Known, Found, Answer
  <2> QED BY <1>1, <2>3, <2>4, OnlyWorker
<1>6. CASE Create(h)
  <2>1. command'[h] = command[h] /\ ~Known(h)
    BY <1>2, <1>6 DEF Create, FreshAt
  <2>2. CASE pc'[h] = "answering" /\ answer'[h].outcome # "ok"
    BY <1>1, <2>2, OnlyWorker DEF FreshAt, WorkAt
  <2>3. CASE /\ pc'[h] = "committing" /\ command[h].expected = 0 /\ project = NoProject
             /\ copy'[h] = [revision |-> 1, status |-> "draft",
                            content |-> <<command[h]>>, frozenAt |-> 0]
    <3>1. Revision = 0 /\ Content = <<>> /\ <<command[h]>> = Append(<<>>, command[h])
      BY <2>3 DEF Revision, Content
    <3>2. WorkAt(h)'
      BY <1>2, <2>1, <2>3, <3>1 DEF WorkAt
    <3>3. FreshAt(h)'
      BY <1>1, <2>1 DEF FreshAt, Known
    <3> QED BY <1>1, <3>2, <3>3, OnlyWorker
  <2> QED BY <1>3, <1>6, <2>2, <2>3 DEF Create, Reply, Goto, Answer
<1>7. CASE Load(h)
  <2>1. command'[h] = command[h] /\ ~Known(h)
    BY <1>2, <1>7 DEF Load, FreshAt
  <2>2. FreshAt(h)'
    BY <1>1, <2>1 DEF FreshAt, Known
  <2>3. \/ pc'[h] = "answering" /\ answer'[h].outcome # "ok"
        \/ pc'[h] = "recording" /\ answer'[h] \in Ledger!Refusals
        \/ /\ pc'[h] = "mutating" /\ project # NoProject /\ copy'[h] = project
           /\ command[h].expected = project.revision
    BY <1>3, <1>7 DEF Load, Reply, Goto, Answer, Ledger!Refusals
  <2>4. WorkAt(h)'
    BY <1>1, <1>2, <2>1, <2>3 DEF WorkAt, Revision
  <2> QED BY <1>1, <2>2, <2>4, OnlyWorker
<1>8. CASE Refuse(h)
  <2>1. pc[h] = "mutating" /\ command[h] \in Command
    BY <1>2, <1>8 DEF Refuse, TypeOK
  <2>2. /\ pc'[h] = "recording" /\ answer'[h] \in Ledger!Refusals
        /\ command'[h].request = command[h].request
    BY <1>3, <1>8, <2>1 DEF Refuse, Goto, Answer, Ledger!Refusals, AfterMutation, Command
  <2>3. FreshAt(h)'
    BY <1>1, <1>2, <2>1, <2>2 DEF FreshAt, Known
  <2>4. WorkAt(h)'
    BY <2>2 DEF WorkAt
  <2> QED BY <1>1, <2>3, <2>4, OnlyWorker
<1>9. ASSUME NEW s, NEW m, Changed(h, s, m), pc[h] = "mutating"
      PROVE  FreshAt(h)' /\ WorkAt(h)'
  <2>1. /\ command[h] \in Command /\ copy[h] = project /\ project # NoProject
        /\ command[h].expected = Revision /\ ~Known(h)
    BY <1>2, <1>9 DEF TypeOK, FreshAt, WorkAt
  <2>2. command'[h].request = command[h].request /\ command'[h].expected = command[h].expected
    BY <1>3, <1>9, <2>1 DEF Changed, AfterMutation, Command
  <2>3. /\ pc'[h] = "committing" /\ copy'[h].revision = Revision + 1
        /\ copy'[h].content = Append(Content, command'[h])
    BY <1>3, <1>9, <2>1 DEF Changed, Goto, Revision, Content
  <2>4. FreshAt(h)'
    BY <1>1, <2>1, <2>2 DEF FreshAt, Known
  <2>5. WorkAt(h)'
    BY <1>2, <2>1, <2>2, <2>3 DEF WorkAt
  <2> QED BY <2>4, <2>5
<1>10. CASE Mutate(h)
  BY <1>1, <1>9, <1>10, OnlyWorker DEF Mutate
<1>11. CASE FreezePackage(h)
  <2>1. pc[h] = "mutating"
    BY <1>11 DEF FreezePackage
  <2>2. CASE Changed(h, "frozen", moments')
    BY <1>1, <1>9, <2>1, <2>2, OnlyWorker
  <2>3. CASE /\ Goto(h, "recording") /\ answer' = [answer EXCEPT ![h] = Answer("refused")]
             /\ command' = command
    <3>1. pc'[h] = "recording" /\ answer'[h] \in Ledger!Refusals
      BY <1>3, <2>3 DEF Goto, Answer, Ledger!Refusals
    <3>2. FreshAt(h)'
      BY <1>1, <1>2, <2>1, <2>3 DEF FreshAt, Known
    <3>3. WorkAt(h)'
      BY <3>1 DEF WorkAt
    <3> QED BY <1>1, <3>2, <3>3, OnlyWorker
  <2> QED BY <1>11, <2>2, <2>3 DEF FreezePackage
<1>12. CASE AppendEvent(h)
  <2>1. Made(copy[h].revision, command[h].request) /\ command'[h] = command[h]
    BY <1>2, <1>12 DEF AppendEvent, WorkAt, local
  <2>2. /\ pc'[h] = "answering"
        /\ answer'[h].outcome # "ok" \/ answer'[h].revision = copy[h].revision
    BY <1>3, <1>12 DEF AppendEvent, Reply, Goto, Answer, Accepted
  <2>3. FreshAt(h)' /\ WorkAt(h)'
    BY <1>2, <2>1, <2>2 DEF FreshAt, WorkAt
  <2> QED BY <1>1, <2>3, OnlyWorker
<1> QED BY <1>5, <1>6, <1>7, <1>8, <1>10, <1>11, <1>12

\* While h is past the lock, the others wait for it or have nothing to do.
LEMMA OthersWait ==
    ASSUME LockIsWorkers, NEW h \in Handlers, pc[h] \notin {"idle", "locking"}
    PROVE  \A k \in Handlers \ {h} : pc[k] \in {"idle", "locking"}
BY DEF LockIsWorkers

\* Recording a failure (service.go:73-86).
LEMMA PersistFailureStep ==
    ASSUME IInv, NEW h \in Handlers, PersistFailure(h)
    PROVE  Fresh' /\ WorkInv' /\ AppliedOnce' /\ AcceptedIsStored' /\ RecordsTrue'
<1>1. /\ pc[h] = "recording" /\ pc' = [pc EXCEPT ![h] = "answering"]
      /\ project' = project /\ told' = told /\ command' = command /\ answer' = answer
  BY DEF PersistFailure, Goto, local
<1>2. TypeOK /\ LockIsWorkers /\ AppliedOnce /\ AcceptedIsStored /\ RecordsTrue /\ WorkAt(h)
  BY DEF IInv, WorkInv
<1>3. answer[h].outcome # "ok" /\ command[h].request \in Requests
  BY <1>1, <1>2 DEF WorkAt, Ledger!Refusals, TypeOK, Command
<1>4. /\ Revision' = Revision /\ Content' = Content
      /\ \A n, r : Made(n, r)' <=> Made(n, r)
  BY <1>1 DEF Revision, Content, Made
<1>5. AppliedOnce' /\ AcceptedIsStored'
  BY <1>1, <1>2, <1>4 DEF AppliedOnce, AcceptedIsStored
<1>6. \A k \in Handlers : pc'[k] \in {"idle", "locking", "answering"}
  BY <1>1, <1>2, OthersWait DEF TypeOK
<1>7. Fresh'
  BY <1>6 DEF Fresh, FreshAt
<1>8. \A k \in Handlers : pc'[k] = "answering" => k = h
  BY <1>1, <1>2, OthersWait DEF TypeOK
<1>9. WorkInv'
  BY <1>1, <1>3, <1>6, <1>8 DEF WorkInv, WorkAt
<1>10. RecordsTrue'
  <2>1. CASE records' = records
    BY <1>2, <1>4, <2>1 DEF RecordsTrue
  <2>2. CASE Save(h, answer[h])
    <3> DEFINE rec == [fingerprint |-> command[h], answer |-> answer[h]]
    <3>1. rec \in Record
      BY <1>1, <1>2 DEF TypeOK, Record
    <3>2. records' = [records EXCEPT ![command[h].request] = rec] /\ rec # NoRecord
      BY <2>2, <3>1, SentinelAssumption DEF Save
    <3>3. records \in [Requests -> Record \cup {NoRecord}]
      BY <1>2 DEF TypeOK
    <3>4. \A r : records'[r] = NoRecord => records[r] = NoRecord \/ r \notin Requests
      BY <3>2, <3>3
    <3>5. \A i \in 1..Revision : Content[i].request \in Requests
      BY <1>2, ContentCommands
    <3>6. \A i \in 1..Revision : records'[Content[i].request] # NoRecord
      BY <1>2, <3>4, <3>5 DEF RecordsTrue
    <3>7. \A r \in Requests : records'[r] = records[r] \/ records'[r].answer.outcome # "ok"
      BY <1>3, <3>2, <3>3
    <3> QED BY <1>2, <1>4, <3>6, <3>7 DEF RecordsTrue
  <2> QED BY <2>1, <2>2 DEF PersistFailure
<1> QED BY <1>5, <1>7, <1>9, <1>10

\* Answering and unlocking (service.go:62).
LEMMA RespondStep ==
    ASSUME IInv, NEW h \in Handlers, Respond(h)
    PROVE  Fresh' /\ WorkInv' /\ AppliedOnce' /\ AcceptedIsStored' /\ RecordsTrue'
<1>1. /\ pc[h] = "answering" /\ pc' = [pc EXCEPT ![h] = "idle"]
      /\ project' = project /\ records' = records
  BY DEF Respond, Goto, stored
<1>2. TypeOK /\ LockIsWorkers /\ AcceptedIsStored /\ WorkAt(h)
  BY DEF IInv, WorkInv
<1>3. AppliedOnce' /\ RecordsTrue' /\ Revision' = Revision /\ Content' = Content
  BY <1>1, SameStored
<1>4. AcceptedIsStored'
  <2>1. \/ told' = told
        \/ /\ answer[h].outcome = "ok"
           /\ told' = told \cup {[request |-> command[h].request, revision |-> answer[h].revision]}
    BY DEF Respond
  <2>2. answer[h].outcome = "ok" => Made(answer[h].revision, command[h].request)
    BY <1>1, <1>2 DEF WorkAt
  <2> QED BY <1>2, <1>3, <2>1, <2>2 DEF AcceptedIsStored, Made
<1>5. \A k \in Handlers : pc'[k] \in {"idle", "locking"}
  BY <1>1, <1>2, OthersWait DEF TypeOK
<1> QED BY <1>3, <1>4, <1>5 DEF Fresh, FreshAt, WorkInv, WorkAt

\* A commit that stores adds one command to the project.
LEMMA CommitAdds ==
    ASSUME IInv, NEW h \in Handlers, pc[h] = "committing", project' = copy[h]
    PROVE  /\ Revision' = Revision + 1 /\ Content' = Append(Content, command[h])
           /\ \A i \in 1..Revision : Content'[i] = Content[i]
           /\ Content'[Revision + 1] = command[h]
           /\ \A n, r : Made(n, r) => Made(n, r)'
<1>1. TypeOK /\ AppliedOnce /\ WorkAt(h) /\ Revision \in Nat /\ Content \in Seq(Command)
  BY ContentTypes DEF IInv, WorkInv
<1>2. copy[h] \in Project /\ command[h] \in Command
  BY <1>1 DEF TypeOK
<1>3. Revision' = copy[h].revision /\ Content' = copy[h].content
  BY <1>2, SentinelAssumption DEF Revision, Content
<1>4. Revision' = Revision + 1 /\ Content' = Append(Content, command[h])
  BY <1>1, <1>3 DEF WorkAt
<1>5. Len(Content) = Revision
  BY <1>1 DEF AppliedOnce
<1>6. \A i \in 1..Revision : Content'[i] = Content[i]
  BY <1>1, <1>2, <1>4, <1>5
<1>7. Content'[Revision + 1] = command[h]
  BY <1>1, <1>2, <1>4, <1>5
<1>8. ASSUME NEW n, NEW r, Made(n, r) PROVE Made(n, r)'
  <2>1. n \in 1..Revision /\ Content'[n].request = r
    BY <1>6, <1>8 DEF Made
  <2>2. n \in 1..Revision'
    BY <1>1, <1>4, <2>1
  <2> QED BY <2>1, <2>2 DEF Made
<1> QED BY <1>4, <1>6, <1>7, <1>8

\* Commit (projects.go:105-132).
LEMMA CommitStep ==
    ASSUME IInv, NEW h \in Handlers, Commit(h)
    PROVE  Fresh' /\ WorkInv' /\ AppliedOnce' /\ AcceptedIsStored' /\ RecordsTrue'
<1>1. /\ pc[h] = "committing" /\ told' = told /\ command' = command /\ copy' = copy
      /\ \A k \in Handlers \ {h} : pc'[k] = pc[k]
  BY DEF Commit, Reply, Goto, local, IInv, TypeOK
<1>2. /\ TypeOK /\ LockIsWorkers /\ AppliedOnce /\ AcceptedIsStored /\ RecordsTrue
      /\ FreshAt(h) /\ WorkAt(h)
  BY DEF IInv, Fresh, WorkInv
<1>3. \A k \in Handlers \ {h} : pc'[k] \in {"idle", "locking"}
  BY <1>1, <1>2, OthersWait
<1>4. ~Known(h) /\ ~Clash(h) /\ command[h] \in Command /\ command[h].request \in Requests
  BY <1>1, <1>2 DEF FreshAt, Clash, TypeOK, Command
<1>5. CASE project' = project /\ records' = records
  <2>1. pc'[h] = "answering" /\ answer'[h].outcome # "ok"
    <3>1. pc \in [Handlers -> Steps] /\ answer \in [Handlers -> Answers]
      BY <1>2 DEF TypeOK, Steps
    <3>2. CASE Reply(h, Answer("error"))
      BY <3>1, <3>2 DEF Reply, Goto, Answer
    <3>3. CASE project' = copy[h]
      <4>1. Revision' = Revision + 1 /\ Revision' = Revision
        BY <1>1, <1>5, <3>3, CommitAdds, SameStored
      <4> QED BY <1>2, <4>1, ContentTypes
    <3> QED BY <1>4, <3>2, <3>3 DEF Commit
  <2>2. FreshAt(h)' /\ WorkAt(h)'
    BY <2>1 DEF FreshAt, WorkAt
  <2>3. \A k \in Handlers \ {h} : FreshAt(k)' /\ WorkAt(k)'
    BY <1>3 DEF FreshAt, WorkAt
  <2>4. AppliedOnce' /\ AcceptedIsStored' /\ RecordsTrue'
    BY <1>1, <1>5, SameStored
  <2> QED BY <2>2, <2>3, <2>4 DEF Fresh, WorkInv
<1>6. CASE project' = copy[h] /\ Save(h, Accepted(copy[h].revision))
  <2> DEFINE rec == [fingerprint |-> command[h], answer |-> Accepted(copy[h].revision)]
  <2>1. /\ Revision' = Revision + 1 /\ Content' = Append(Content, command[h])
        /\ \A i \in 1..Revision : Content'[i] = Content[i]
        /\ Content'[Revision + 1] = command[h]
        /\ \A n, r : Made(n, r) => Made(n, r)'
    BY <1>1, <1>6, CommitAdds
  <2>2. /\ Revision \in Nat /\ Content \in Seq(Command) /\ Len(Content) = Revision
        /\ copy[h].revision = Revision + 1 /\ command[h].expected = Revision
    BY <1>1, <1>2, ContentTypes DEF AppliedOnce, WorkAt
  <2>3. rec \in Record /\ rec # NoRecord
    BY <1>4, <2>2, AnswerTypes, SentinelAssumption DEF Record
  <2>4. /\ records' = [records EXCEPT ![command[h].request] = rec]
        /\ records \in [Requests -> Record \cup {NoRecord}]
    BY <1>2, <1>6 DEF Save, TypeOK
  <2>5. \A i \in 1..Revision : /\ Content[i].request # command[h].request
                               /\ Content[i].request \in Requests
    BY <1>2, <1>4, ContentCommands DEF RecordsTrue, Known
  <2>6. AppliedOnce'
    <3>1. Len(Content') = Revision'
      BY <1>4, <2>1, <2>2
    <3>2. \A i \in 1..Revision' : Content'[i].expected = i - 1
      <4>1. \A i \in 1..Revision : Content'[i].expected = i - 1
        BY <1>2, <2>1 DEF AppliedOnce
      <4> QED BY <2>1, <2>2, <4>1
    <3>3. \A i, j \in 1..Revision' : Content'[i].request = Content'[j].request => i = j
      <4>1. \A i, j \in 1..Revision : Content'[i].request = Content'[j].request => i = j
        BY <1>2, <2>1 DEF AppliedOnce
      <4>2. \A i \in 1..Revision : Content'[i].request # Content'[Revision + 1].request
        BY <2>1, <2>5
      <4> QED BY <2>1, <2>2, <4>1, <4>2
    <3> QED BY <3>1, <3>2, <3>3 DEF AppliedOnce
  <2>7. /\ Revision + 1 \in 1..Revision'
        /\ Content'[Revision + 1].request = command[h].request
    BY <2>1, <2>2
  <2>8. AcceptedIsStored'
    BY <1>1, <1>2, <2>1 DEF AcceptedIsStored, Made
  <2>9. RecordsTrue'
    <3>1. \A i \in 1..Revision : records'[Content'[i].request] # NoRecord
      BY <1>2, <2>1, <2>3, <2>4, <2>5 DEF RecordsTrue
    <3>2. records'[Content'[Revision + 1].request] # NoRecord
      BY <1>4, <2>1, <2>3, <2>4
    <3>3. \A i \in 1..Revision' : records'[Content'[i].request] # NoRecord
      BY <2>1, <2>2, <3>1, <3>2
    <3>4. ASSUME NEW r \in Requests, records'[r] # NoRecord, records'[r].answer.outcome = "ok"
          PROVE  Made(records[r].answer.revision, r)'
      <4>1. CASE r = command[h].request
        <5>1. records'[r].answer.revision = Revision + 1
          BY <2>2, <2>4, <4>1 DEF Accepted
        <5> QED BY <2>7, <4>1, <5>1 DEF Made
      <4>2. CASE r # command[h].request
        <5>1. records'[r] = records[r]
          BY <2>4, <4>2
        <5>2. Made(records[r].answer.revision, r)
          BY <1>2, <3>4, <5>1 DEF RecordsTrue
        <5>3. Made(records[r].answer.revision, r)' <=>
                 /\ records'[r].answer.revision \in 1..Revision'
                 /\ Content'[records'[r].answer.revision].request = r
          BY DEF Made
        <5>4. PICK n : n = records[r].answer.revision
          OBVIOUS
        <5>5. Made(n, r)'
          BY <2>1, <5>2, <5>4
        <5> QED BY <5>1, <5>3, <5>4, <5>5 DEF Made
      <4> QED BY <4>1, <4>2
    <3> QED BY <3>3, <3>4 DEF RecordsTrue
  <2>10. FreshAt(h)' /\ WorkAt(h)'
    <3>1. pc \in [Handlers -> Steps] /\ answer \in [Handlers -> Answers]
      BY <1>2 DEF TypeOK, Steps
    <3>2. \/ pc'[h] = "appending"
          \/ pc'[h] = "answering" /\ answer'[h].outcome # "ok"
      BY <1>4, <3>1 DEF Commit, Reply, Goto, Answer
    <3>3. Made(copy[h].revision, command[h].request)'
      BY <1>1, <2>2, <2>7 DEF Made
    <3> QED BY <3>2, <3>3 DEF FreshAt, WorkAt
  <2>11. \A k \in Handlers \ {h} : FreshAt(k)' /\ WorkAt(k)'
    BY <1>3 DEF FreshAt, WorkAt
  <2> QED BY <2>6, <2>8, <2>9, <2>10, <2>11 DEF Fresh, WorkInv
<1> QED BY <1>5, <1>6 DEF Commit

\* Every step keeps the invariant.
LEMMA IInvStep == IInv /\ [Next]_vars => IInv'
<1> SUFFICES ASSUME IInv, [Next]_vars PROVE IInv'
  OBVIOUS
<1>1. TypeOK' /\ LockIsWorkers'
  BY TypeStep, LockStep DEF IInv
<1>2. CASE Crash
  <2>1. /\ project' = project /\ records' = records /\ told' = told
        /\ \A k \in Handlers : pc'[k] = "idle"
    BY <1>2 DEF Crash, stored
  <2> QED BY <1>1, <2>1, SameStored DEF IInv, Fresh, FreshAt, WorkInv, WorkAt
<1>3. CASE UNCHANGED vars
  <2>1. /\ project' = project /\ records' = records /\ told' = told
        /\ pc' = pc /\ command' = command /\ copy' = copy /\ answer' = answer
    BY <1>3 DEF vars
  <2>2. Revision' = Revision /\ Content' = Content /\ (\A n, r : Made(n, r)' <=> Made(n, r))
        /\ AppliedOnce' /\ RecordsTrue' /\ AcceptedIsStored'
    BY <2>1, SameStored
  <2>3. Fresh'
    BY <2>1 DEF IInv, Fresh, FreshAt, Known
  <2>4. WorkInv'
    BY <2>1, <2>2 DEF IInv, WorkInv, WorkAt
  <2> QED BY <1>1, <2>2, <2>3, <2>4 DEF IInv
<1>4. ASSUME NEW h \in Handlers, Run(h) \/ (\E c \in Commands : Receive(h, c))
                                     \/ Acquire(h) \/ Cancel(h)
      PROVE  IInv'
  BY <1>1, <1>4, OutsideStep, InnerStep, PersistFailureStep, RespondStep, CommitStep DEF Run, IInv
<1> QED BY <1>2, <1>3, <1>4 DEF Next, Run

\* The invariant holds in every reachable state.
LEMMA IInvAlways == Spec => []IInv
BY InitIInv, IInvStep, PTL DEF Spec, Safe

\* Retries, lost answers, failing calls and crashes never apply a request twice
\* or to a revision it was not sent for (service.go:57-105).
THEOREM RequestsApplyOnce == Spec => []AppliedOnce
<1>1. IInv => AppliedOnce
  BY DEF IInv
<1> QED BY <1>1, IInvAlways, PTL

\* What a client was told is in the project for good (service.go:82-105,
\* projects.go:105-135).
THEOREM AcceptancesStay == Spec => []AcceptedIsStored
<1>1. IInv => AcceptedIsStored
  BY DEF IInv
<1> QED BY <1>1, IInvAlways, PTL

-----------------------------------------------------------------------------
(* The ledger. *)

Entry(r) == IF records[r] = NoRecord THEN NoRecord ELSE records[r].answer
Entries == [r \in Requests |-> Entry(r)]

\* A saved record is an entry of the ledger.
LEMMA SaveEntry ==
    ASSUME TypeOK, NEW h \in Handlers, command[h] \in Command, ~Known(h),
           NEW a \in Answers, Save(h, a)
    PROVE  /\ command[h].request \in Requests
           /\ Entries[command[h].request] = NoRecord
           /\ Entries' = [Entries EXCEPT ![command[h].request] = a]
<1> DEFINE q == command[h].request
           rec == [fingerprint |-> command[h], answer |-> a]
<1>1. q \in Requests /\ rec \in Record
  BY DEF Command, Record
<1>2. Entries[q] = NoRecord
  BY <1>1 DEF Entries, Entry, Known
<1>3. rec # NoRecord /\ records' = [records EXCEPT ![q] = rec]
      /\ records \in [Requests -> Record \cup {NoRecord}]
  BY <1>1, SentinelAssumption DEF Save, TypeOK
<1>4. \A r \in Requests : Entry(r)' = IF r = q THEN a ELSE Entry(r)
  BY <1>1, <1>3 DEF Entry
<1> QED BY <1>1, <1>2, <1>4 DEF Entries

\* Every step is one of the ledger, or leaves it alone.
LEMMA LedgerStep == IInv /\ [Next]_vars => [Ledger!Next]_(Ledger!ledgerVars)
<1> SUFFICES ASSUME IInv, [Next]_vars PROVE [Ledger!Next]_(Ledger!ledgerVars)
  OBVIOUS
<1>1. /\ Entries = [r \in Requests |->
                     IF records[r] = NoRecord THEN NoRecord ELSE records[r].answer]
      /\ Entries' = [r \in Requests |->
                     IF records[r] = NoRecord THEN NoRecord ELSE records[r].answer]'
  BY DEF Entries, Entry
<1>2. ASSUME project' = project, records' = records
      PROVE  UNCHANGED Ledger!ledgerVars
  BY <1>2 DEF Ledger!ledgerVars, Revision
<1>3. ASSUME NEW r \in Requests, Ledger!Accept(r) \/ Ledger!Refuse(r)
      PROVE  Ledger!Next
  BY <1>3 DEF Ledger!Next
<1>4. ASSUME NEW h \in Handlers, PersistFailure(h)
      PROVE  Ledger!Next \/ UNCHANGED Ledger!ledgerVars
  <2>1. CASE Save(h, answer[h])
    <3>1. /\ TypeOK /\ command[h] \in Command /\ ~Known(h)
          /\ answer[h] \in Ledger!Refusals /\ answer[h] \in Answers /\ Revision' = Revision
      BY <1>4 DEF PersistFailure, IInv, TypeOK, Fresh, FreshAt, WorkInv, WorkAt, Revision
    <3>2. /\ command[h].request \in Requests
          /\ Entries[command[h].request] = NoRecord
          /\ Entries' = [Entries EXCEPT ![command[h].request] = answer[h]]
      BY <2>1, <3>1, SaveEntry
    <3>3. PICK r \in Requests : r = command[h].request
      BY <3>2
    <3>4. Ledger!Refuse(r)
      BY <1>1, <3>1, <3>2, <3>3 DEF Ledger!Refuse
    <3> QED BY <1>3, <3>4
  <2> QED BY <1>2, <1>4, <2>1 DEF PersistFailure
<1>5. ASSUME NEW h \in Handlers, Commit(h)
      PROVE  Ledger!Next \/ UNCHANGED Ledger!ledgerVars
  <2>1. CASE project' = copy[h] /\ Save(h, Accepted(copy[h].revision))
    <3>1. /\ TypeOK /\ command[h] \in Command /\ ~Known(h) /\ pc[h] = "committing"
          /\ copy[h].revision = Revision + 1
      BY <1>5 DEF Commit, IInv, TypeOK, Fresh, FreshAt, WorkInv, WorkAt
    <3>2. Revision' = Revision + 1 /\ Accepted(copy[h].revision) \in Answers
      BY <2>1, <3>1, CommitAdds, ContentTypes, AnswerTypes
    <3>3. /\ command[h].request \in Requests
          /\ Entries[command[h].request] = NoRecord
          /\ Entries' = [Entries EXCEPT ![command[h].request] = Accepted(Revision')]
      BY <2>1, <3>1, <3>2, SaveEntry
    <3>4. PICK r \in Requests : r = command[h].request
      BY <3>3
    <3>5. Ledger!Accept(r)
      BY <1>1, <3>2, <3>3, <3>4 DEF Ledger!Accept, Ledger!Accepted, Accepted
    <3> QED BY <1>3, <3>5
  <2> QED BY <1>2, <1>5, <2>1 DEF Commit
<1>6. CASE ~\E h \in Handlers : PersistFailure(h) \/ Commit(h)
  <2>1. project' = project /\ records' = records
    BY <1>6 DEF Next, Receive, Acquire, Replay, Create, Load, Refuse, Mutate, FreezePackage,
                AppendEvent, Respond, Cancel, Crash, stored, local, vars
  <2> QED BY <1>2, <2>1
<1> QED BY <1>4, <1>5, <1>6

\* Every behaviour of the pipeline is one of a ledger with one lasting answer for
\* each request (service.go:36-117).
THEOREM ImplementsLedger == Spec => IsLedger
<1>1. Init => Ledger!Init
  BY DEF Init, Ledger!Init, Revision
<1> QED BY <1>1, LedgerStep, IInvAlways, PTL DEF Spec, Safe, IsLedger, Ledger!Spec

-----------------------------------------------------------------------------
(* Events. *)

Appending == \E h \in Handlers : pc[h] = "appending"

\* While a handler appends, the last revision has no event yet.
EventsInv ==
    /\ \A i \in DOMAIN events :
          /\ events[i] \in 1..Revision
          /\ \A j \in DOMAIN events : i < j => events[i] < events[j]
    /\ \A h \in Handlers : pc[h] = "appending" =>
          copy[h].revision = Revision /\ \A i \in DOMAIN events : events[i] < Revision
    /\ failures = 0 => /\ \A h \in Handlers : ~cancelled[h]
                       /\ Len(events) = IF Appending THEN Revision - 1 ELSE Revision

\* A call that fails without a cancellation counts as a failure.
LEMMA FailureCounts ==
    ASSUME TypeOK, NEW h \in Handlers, failures = 0 => ~cancelled[h],
           CallFails(h) \/ CallWorks(h)
    PROVE  /\ failures' = 0 => failures = 0
           /\ CallFails(h) => failures' # 0
BY FailureAssumption DEF CallFails, CallWorks, TypeOK

\* The steps that store neither a project nor an event.
LEMMA OtherEventsStep ==
    ASSUME IInv, EventsInv, project' = project, events' = events,
           \A h \in Handlers : pc'[h] = "appending" => copy'[h] = copy[h] /\ pc[h] = "appending",
           failures' = 0 => /\ failures = 0 /\ (Appending' <=> Appending)
                            /\ \A h \in Handlers : cancelled'[h] => cancelled[h]
    PROVE  EventsInv'
<1>1. Revision' = Revision
  BY DEF Revision
<1>2. \A h \in Handlers : pc'[h] = "appending" =>
         copy'[h].revision = Revision' /\ \A i \in DOMAIN events' : events'[i] < Revision'
  BY <1>1 DEF EventsInv
<1>3. failures' = 0 => /\ \A h \in Handlers : ~cancelled'[h]
                       /\ Len(events') = IF Appending' THEN Revision' - 1 ELSE Revision'
  BY <1>1 DEF EventsInv
<1> QED BY <1>1, <1>2, <1>3 DEF EventsInv

\* Every step keeps the events in line with the revisions.
LEMMA EventsStep == IInv /\ EventsInv /\ [Next]_vars => EventsInv'
<1> SUFFICES ASSUME IInv, EventsInv, [Next]_vars PROVE EventsInv'
  OBVIOUS
<1>1. /\ TypeOK /\ LockIsWorkers /\ AppliedOnce
      /\ pc \in [Handlers -> Steps] /\ Revision \in Nat /\ failures \in Nat
      /\ copy \in [Handlers -> Project \cup {NoProject}]
      /\ cancelled \in [Handlers -> BOOLEAN] /\ events \in Seq(Nat)
  BY ContentTypes, FailureAssumption DEF IInv, TypeOK, Steps
<1>2. ASSUME NEW h \in Handlers,
             Replay(h) \/ Create(h) \/ Load(h) \/ Refuse(h) \/ Mutate(h) \/ FreezePackage(h)
               \/ PersistFailure(h) \/ Respond(h) \/ Acquire(h) \/ Cancel(h)
               \/ (\E c \in Commands : Receive(h, c))
      PROVE  EventsInv'
  <2>1. project' = project /\ events' = events
    BY <1>2 DEF Replay, Create, Load, Refuse, Mutate, FreezePackage, PersistFailure, Respond,
                Acquire, Cancel, Receive, stored
  <2>2. \A k \in Handlers : /\ pc'[k] = "appending" <=> pc[k] = "appending"
                            /\ pc'[k] = "appending" => copy'[k] = copy[k]
    BY <1>1, <1>2 DEF Replay, Create, Load, Refuse, Mutate, FreezePackage, PersistFailure,
                      Respond, Acquire, Cancel, Receive, Changed, Reply, Goto, local
  <2>3. failures' = 0 => failures = 0 /\ ~Cancel(h)
    <3>1. failures' = failures \/ failures' = failures + 1
      BY <1>2 DEF Replay, Create, Load, Refuse, Mutate, FreezePackage, PersistFailure, Respond,
                  Acquire, Cancel, Receive, CallFails, CallWorks
    <3>2. Cancel(h) => failures' = failures + 1
      BY DEF Cancel
    <3> QED BY <1>1, <3>1, <3>2
  <2>4. failures' = 0 => \A k \in Handlers : cancelled'[k] => cancelled[k]
    BY <1>1, <1>2, <2>3 DEF Replay, Create, Load, Refuse, Mutate, FreezePackage, PersistFailure,
                      Respond, Acquire, Receive
  <2>5. Appending' <=> Appending
    BY <2>2, Zenon DEF Appending
  <2> QED BY <2>1, <2>2, <2>3, <2>4, <2>5, OtherEventsStep
<1>3. ASSUME NEW h \in Handlers, Commit(h) PROVE EventsInv'
  <2>1. /\ events' = events /\ copy' = copy /\ cancelled' = cancelled /\ pc[h] = "committing"
        /\ ~Clash(h)
    BY <1>3 DEF Commit, IInv, Fresh, FreshAt, Clash, local
  <2>2. \A k \in Handlers \ {h} : pc'[k] = pc[k] /\ pc[k] # "appending"
    BY <1>1, <1>3, <2>1, OthersWait DEF Commit, Reply, Goto
  <2>3. ~Appending
    BY <2>1, <2>2 DEF Appending
  <2>4. CASE project' = project /\ CallFails(h) /\ Reply(h, Answer("error"))
    <3>1. failures' # 0
      BY <1>1, <2>4, FailureCounts DEF EventsInv
    <3>2. \A k \in Handlers : pc'[k] # "appending"
      BY <1>1, <2>2, <2>4 DEF Reply, Goto
    <3> QED BY <2>1, <2>4, <3>1, <3>2, OtherEventsStep
  <2>5. CASE /\ project' = copy[h]
             /\ \/ Goto(h, "appending") /\ failures' = failures
                \/ failures' = failures + 1 /\ Reply(h, Answer("error"))
    <3>1. Revision' = Revision + 1 /\ copy[h].revision = Revision + 1
      BY <2>1, <2>5, CommitAdds DEF IInv, WorkInv, WorkAt
    <3>2. \A i \in DOMAIN events : events[i] \in 1..Revision' /\ events[i] < Revision'
      BY <1>1, <3>1 DEF EventsInv
    <3>3. \A k \in Handlers : pc'[k] = "appending" => k = h
      BY <1>1, <2>2, <2>5
    <3>4. failures' = 0 => failures = 0 /\ Appending'
      BY <1>1, <2>5 DEF Goto, Appending
    <3>5. failures' = 0 => /\ \A k \in Handlers : ~cancelled'[k]
                           /\ Len(events') = IF Appending' THEN Revision' - 1 ELSE Revision'
      BY <1>1, <2>1, <2>3, <3>1, <3>4 DEF EventsInv
    <3>6. \A k \in Handlers : pc'[k] = "appending" =>
            copy'[k].revision = Revision' /\ \A i \in DOMAIN events' : events'[i] < Revision'
      BY <2>1, <3>1, <3>2, <3>3
    <3>7. \A i \in DOMAIN events' :
            /\ events'[i] \in 1..Revision'
            /\ \A j \in DOMAIN events' : i < j => events'[i] < events'[j]
      BY <2>1, <3>2 DEF EventsInv
    <3> QED BY <3>5, <3>6, <3>7 DEF EventsInv
  <2> QED BY <1>3, <2>1, <2>4, <2>5 DEF Commit, CallWorks
<1>4. ASSUME NEW h \in Handlers, AppendEvent(h) PROVE EventsInv'
  <2>1. /\ project' = project /\ cancelled' = cancelled /\ pc[h] = "appending"
        /\ pc' = [pc EXCEPT ![h] = "answering"]
    BY <1>4 DEF AppendEvent, Reply, Goto
  <2>2. /\ \A k \in Handlers : pc'[k] # "appending"
        /\ ~Appending' /\ Appending
    BY <1>1, <2>1, OthersWait DEF Appending
  <2>3. Revision' = Revision /\ copy[h].revision = Revision
    BY <2>1 DEF Revision, EventsInv
  <2>4. CASE events' = events /\ failures' = failures + 1
    <3>1. failures' # 0
      BY <1>1, <2>4
    <3> QED BY <2>1, <2>2, <2>4, <3>1, OtherEventsStep
  <2>5. CASE events' = Append(events, copy[h].revision) /\ failures' \in {failures, failures + 1}
    <3>1. /\ DOMAIN events' = 1..(Len(events) + 1) /\ DOMAIN events = 1..Len(events)
          /\ Len(events') = Len(events) + 1 /\ Len(events) \in Nat
          /\ events'[Len(events) + 1] = Revision
          /\ \A i \in 1..Len(events) : events'[i] = events[i]
      BY <1>1, <2>3, <2>5
    <3>2. Revision \in 1..Revision
      <4>1. Made(copy[h].revision, command[h].request)
        BY <2>1 DEF IInv, WorkInv, WorkAt
      <4> QED BY <2>3, <4>1 DEF Made
    <3>3. \A i \in 1..Len(events) : events[i] \in 1..Revision /\ events[i] < Revision
      BY <2>1, <3>1 DEF EventsInv
    <3>4. \A i \in DOMAIN events' : events'[i] \in 1..Revision'
      BY <2>3, <3>1, <3>2, <3>3
    <3>5. \A i, j \in DOMAIN events' : i < j => events'[i] < events'[j]
      <4>1. \A i, j \in 1..Len(events) : i < j => events'[i] < events'[j]
        BY <3>1 DEF EventsInv
      <4>2. \A i \in 1..Len(events) : events'[i] < events'[Len(events) + 1]
        BY <3>1, <3>3
      <4> QED BY <3>1, <4>1, <4>2
    <3>6. failures' = 0 => /\ \A k \in Handlers : ~cancelled'[k]
                           /\ Len(events') = IF Appending' THEN Revision' - 1 ELSE Revision'
      <4>1. failures' = 0 => failures = 0
        BY <1>1, <2>5
      <4> QED BY <1>1, <2>1, <2>2, <2>3, <2>5, <3>1, <4>1 DEF EventsInv
    <3> QED BY <2>2, <3>4, <3>5, <3>6 DEF EventsInv
  <2> QED BY <1>4, <2>4, <2>5 DEF AppendEvent
<1>5. CASE Crash
  <2>1. /\ project' = project /\ events' = events /\ failures' = failures + 1
        /\ \A k \in Handlers : pc'[k] = "idle"
    BY <1>5 DEF Crash, stored
  <2> QED BY <1>1, <2>1, OtherEventsStep
<1>6. CASE UNCHANGED vars
  BY <1>6, OtherEventsStep DEF vars, Appending
<1> QED BY <1>2, <1>3, <1>4, <1>5, <1>6 DEF Next

\* The event file never runs ahead of the project, and without a failure it is
\* complete when Commit returns (projects.go:105-137).
THEOREM EventsAgree == Spec => []EventsFollowProject
<1>1. Init => EventsInv
  BY DEF Init, EventsInv, Revision, Appending
<1>2. EventsInv => EventsFollowProject
  BY DEF EventsInv, EventsFollowProject, Appending
<1> QED BY <1>1, <1>2, EventsStep, IInvAlways, PTL DEF Spec, Safe

-----------------------------------------------------------------------------
(* Packages. *)

\* A package is written before the project that points to it is stored.
PackageInv ==
    /\ PackageBehindFrozen
    /\ \A h \in Handlers : pc[h] = "committing" /\ copy[h].status = "frozen" =>
          \E p \in packages : p.content = Content

\* Every step keeps the package ahead of the project.
LEMMA PackageStep == IInv /\ PackageInv /\ [Next]_vars => PackageInv'
<1> SUFFICES ASSUME IInv, PackageInv, [Next]_vars PROVE PackageInv'
  OBVIOUS
<1>1. /\ TypeOK /\ LockIsWorkers /\ AppliedOnce /\ pc \in [Handlers -> Steps]
      /\ copy \in [Handlers -> Project \cup {NoProject}]
      /\ Revision \in Nat /\ Content \in Seq(Command) /\ Len(Content) = Revision
  BY ContentTypes DEF IInv, TypeOK, Steps, AppliedOnce
<1>2. ASSUME project' = project, packages \subseteq packages',
             \A h \in Handlers : pc'[h] = "committing" /\ copy'[h].status = "frozen" =>
               \/ pc[h] = "committing" /\ copy[h].status = "frozen"
               \/ \E p \in packages' : p.content = Content
      PROVE  PackageInv'
  <2>1. Revision' = Revision /\ Content' = Content
    BY <1>2 DEF Revision, Content
  <2> QED BY <1>2, <2>1 DEF PackageInv, PackageBehindFrozen
<1>3. ASSUME NEW h \in Handlers, FreezePackage(h) PROVE PackageInv'
  <2>1. /\ pc[h] = "mutating" /\ project' = project /\ copy[h].content = Content
        /\ \A k \in Handlers \ {h} : pc'[k] = pc[k] /\ copy'[k] = copy[k]
    BY <1>1, <1>3 DEF FreezePackage, Changed, Goto, IInv, WorkInv, WorkAt, Content
  <2>2. CASE packages' = packages /\ Goto(h, "recording") /\ copy' = copy
    BY <1>1, <1>2, <2>1, <2>2 DEF Goto
  <2>3. CASE SavePackage([content |-> copy[h].content, frozenAt |-> moments'])
    <3> DEFINE new == [content |-> copy[h].content, frozenAt |-> moments']
    <3>1. new.content = Content
      BY <2>1
    <3>2. \/ packages' = packages /\ \E q \in packages : q.content = Content
          \/ packages' = packages \cup {new}
      BY <2>3, <3>1 DEF SavePackage
    <3>3. packages \subseteq packages' /\ \E p \in packages' : p.content = Content
      <4> HIDE DEF new
      <4> QED BY <3>1, <3>2
    <3> QED BY <1>2, <2>1, <3>3
  <2> QED BY <1>3, <2>2, <2>3 DEF FreezePackage
<1>4. ASSUME NEW h \in Handlers, Commit(h) PROVE PackageInv'
  <2>1. /\ packages' = packages /\ copy' = copy /\ pc[h] = "committing"
        /\ \A k \in Handlers : pc'[k] # "committing"
    <3>1. /\ packages' = packages /\ copy' = copy /\ pc[h] = "committing"
          /\ pc' = [pc EXCEPT ![h] = "appending"] \/ pc' = [pc EXCEPT ![h] = "answering"]
      BY <1>4 DEF Commit, Reply, Goto, local
    <3> QED BY <1>1, <3>1, OthersWait
  <2>2. CASE project' = project
    BY <1>2, <2>1, <2>2
  <2>3. CASE project' = copy[h]
    <3>1. /\ Revision' = Revision + 1 /\ Content' = Append(Content, command[h])
          /\ command[h] \in Command
      BY <1>1, <2>1, <2>3, CommitAdds DEF TypeOK
    <3>2. SubSeq(Content', 1, Revision' - 1) = Content
      <4>1. SubSeq(Append(Content, command[h]), 1, Len(Content)) = Content
        BY <1>1, <3>1
      <4> QED BY <1>1, <3>1, <4>1
    <3> QED BY <2>1, <2>3, <3>2 DEF PackageInv, PackageBehindFrozen
  <2> QED BY <1>4, <2>2, <2>3 DEF Commit
<1>5. ASSUME NEW h \in Handlers, Create(h) \/ Mutate(h) PROVE PackageInv'
  <2>1. /\ project' = project /\ packages' = packages
        /\ \A k \in Handlers \ {h} : pc'[k] = pc[k] /\ copy'[k] = copy[k]
        /\ pc'[h] = "committing" => copy'[h].status # "frozen"
    BY <1>1, <1>5 DEF Create, Mutate, Changed, Reply, Goto, stored
  <2> QED BY <1>2, <2>1
<1>6. CASE Crash
  BY <1>2, <1>6 DEF Crash, stored
<1>7. ASSUME NEW h \in Handlers,
             Replay(h) \/ Load(h) \/ Refuse(h) \/ PersistFailure(h) \/ AppendEvent(h)
               \/ Respond(h) \/ Acquire(h) \/ Cancel(h) \/ (\E c \in Commands : Receive(h, c))
      PROVE  PackageInv'
  <2>1. /\ project' = project /\ packages' = packages
        /\ \A k \in Handlers : pc'[k] = "committing" => pc[k] = "committing" /\ copy'[k] = copy[k]
    BY <1>1, <1>7 DEF Replay, Load, Refuse, PersistFailure, AppendEvent, Respond, Acquire, Cancel,
                      Receive, Reply, Goto, stored, local
  <2> QED BY <1>2, <2>1
<1>8. CASE UNCHANGED vars
  BY <1>2, <1>8 DEF vars
<1> QED BY <1>3, <1>4, <1>5, <1>6, <1>7, <1>8 DEF Next

\* A frozen project never points to a package that is not there (review_ops.go:130).
THEOREM PackageFirst == Spec => []PackageBehindFrozen
<1>1. Init => PackageInv
  BY DEF Init, PackageInv, PackageBehindFrozen, Revision
<1>2. PackageInv => PackageBehindFrozen
  BY DEF PackageInv
<1> QED BY <1>1, <1>2, PackageStep, IInvAlways, PTL DEF Spec, Safe
=============================================================================
