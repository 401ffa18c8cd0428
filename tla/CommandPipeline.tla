---------------------------- MODULE CommandPipeline ----------------------------
(***************************************************************************)
(* How a write request on one project is carried out: execute and          *)
(* CreateProject of internal/application, with the calls they make on the  *)
(* repository.  Clients send any command at any time, send it again, and   *)
(* go away; calls on the repository fail; the process crashes and starts   *)
(* again.                                                                  *)
(*                                                                         *)
(* The lock of the project is that of ProjectLock, with one project.  What *)
(* a mutation does to the project is the matter of ReleaseGate: here a     *)
(* command on a project is accepted or refused, and the content of a       *)
(* project is the list of the commands that made it.                       *)
(***************************************************************************)
EXTENDS Naturals, Sequences

CONSTANTS Handlers, NoHandler,  \* HTTP handlers that run at the same time
          Requests,             \* request ids
          Bodies,               \* what a command carries besides its meta data
          Normal,               \* NormalizeGraph: a body with its lists sorted
          Commands,             \* commands clients send
          NoProject, NoRecord, NoCommand,
          MaxFailures           \* bound on cancellations, failing calls and crashes

Kinds == {"create", "baseline", "edit", "freeze"}
Command == [request : Requests, kind : Kinds, expected : Nat, body : Bodies]

ASSUME HandlerAssumption == NoHandler \notin Handlers
ASSUME CommandAssumption == Commands \subseteq Command
ASSUME NormalAssumption ==
    /\ Normal \in [Bodies -> Bodies]
    /\ \A b \in Bodies : Normal[Normal[b]] = Normal[b]
ASSUME FailureAssumption == MaxFailures \in Nat

Answers == [outcome : {"ok", "revision_conflict", "refused", "idempotency_conflict",
                       "not_found", "error"},
            revision : Nat]
Answer(o) == [outcome |-> o, revision |-> 0]
Accepted(n) == [outcome |-> "ok", revision |-> n]

Record == [fingerprint : Command, answer : Answers]

\* "working" stands for the statuses between the frozen baseline and the
\* frozen package; frozenAt is the moment of freezing, 0 before.
Project == [revision : Nat, status : {"draft", "working", "frozen"},
            content : Seq(Command), frozenAt : Nat]
Package == [content : Seq(Command), frozenAt : Nat]

ASSUME SentinelAssumption ==
    NoProject \notin Project /\ NoRecord \notin Record /\ NoCommand \notin Command

VARIABLES
    project, records,     \* the envelope file of the project
    events,               \* the event file: revisions of the events
    packages,             \* the package files, one for a content
    moments,              \* moments of freezing that passed
    holder,               \* who holds the lock of the project
    pc, command,          \* per handler, its command, which a mutation may change
    copy,                 \* the clone a mutation works on
    answer, cancelled,
    told,                 \* the acceptances clients were told of
    failures

stored == <<project, records, events, packages>>
local == <<command, copy>>
vars == <<project, records, events, packages, moments, holder, pc, command, copy,
          answer, cancelled, told, failures>>

Goto(h, l) == pc' = [pc EXCEPT ![h] = l]
Reply(h, a) == Goto(h, "answering") /\ answer' = [answer EXCEPT ![h] = a]

\* A call on the repository is refused when the context was cancelled, and may
\* fail otherwise.
CallFails(h) ==
    \/ cancelled[h] /\ UNCHANGED failures
    \/ failures < MaxFailures /\ failures' = failures + 1
CallWorks(h) == ~cancelled[h] /\ UNCHANGED failures

Known(h) == records[command[h].request] # NoRecord
Found(h) == records[command[h].request]
Clash(h) == Known(h) /\ Found(h).fingerprint # command[h]
Save(h, a) ==
    records' = [records EXCEPT ![command[h].request] =
                    [fingerprint |-> command[h], answer |-> a]]

-----------------------------------------------------------------------------
Init ==
    /\ project = NoProject
    /\ records = [r \in Requests |-> NoRecord]
    /\ events = <<>>
    /\ packages = {}
    /\ moments = 0
    /\ holder = NoHandler
    /\ pc = [h \in Handlers |-> "idle"]
    /\ command = [h \in Handlers |-> NoCommand]
    /\ copy = [h \in Handlers |-> NoProject]
    /\ answer = [h \in Handlers |-> Answer("error")]
    /\ cancelled = [h \in Handlers |-> FALSE]
    /\ told = {}
    /\ failures = 0

\* A client sends a command, for the first time or again.  What meta.validate
\* refuses never takes the lock and is left out.
Receive(h, c) ==
    /\ pc[h] = "idle"
    /\ command' = [command EXCEPT ![h] = c]
    /\ Goto(h, "locking")
    /\ UNCHANGED <<stored, moments, holder, copy, answer, cancelled, told, failures>>

\* Mutation: execute takes no lock.
AcquireAnyway(h) ==
    /\ pc[h] = "locking"
    /\ holder' = h
    /\ Goto(h, "replaying")
    /\ UNCHANGED <<stored, moments, local, answer, cancelled, told, failures>>

\* Lock returns.
Acquire(h) ==
    /\ pc[h] = "locking"
    /\ holder = NoHandler
    /\ holder' = h
    /\ Goto(h, "replaying")
    /\ UNCHANGED <<stored, moments, local, answer, cancelled, told, failures>>

\* A request with a record is answered from it, if the command is the same.
Replay(h) ==
    /\ pc[h] = "replaying"
    /\ \/ CallFails(h) /\ Reply(h, Answer("error"))
       \/ CallWorks(h) /\ Clash(h) /\ Reply(h, Answer("idempotency_conflict"))
       \/ CallWorks(h) /\ Known(h) /\ ~Clash(h) /\ Reply(h, Found(h).answer)
       \/ /\ CallWorks(h) /\ ~Known(h)
          /\ Goto(h, IF command[h].kind = "create" THEN "creating" ELSE "loading")
          /\ UNCHANGED answer
    /\ UNCHANGED <<stored, moments, holder, local, cancelled, told>>

\* CreateProject after the replay; what it refuses leaves no record.
Create(h) ==
    /\ pc[h] = "creating"
    /\ \/ /\ command[h].expected # 0
          /\ Reply(h, Answer("revision_conflict"))
          /\ UNCHANGED <<copy, failures>>
       \/ /\ command[h].expected = 0
          /\ CallFails(h)
          /\ Reply(h, Answer("error"))
          /\ UNCHANGED copy
       \/ /\ command[h].expected = 0          \* it exists, or its identity is invalid
          /\ CallWorks(h)
          /\ Reply(h, Answer("refused"))
          /\ UNCHANGED copy
       \/ /\ command[h].expected = 0
          /\ CallWorks(h)
          /\ project = NoProject
          /\ copy' = [copy EXCEPT ![h] = [revision |-> 1, status |-> "draft",
                                          content |-> <<command[h]>>, frozenAt |-> 0]]
          /\ Goto(h, "committing")
          /\ UNCHANGED answer
    /\ UNCHANGED <<stored, moments, holder, command, cancelled, told>>

\* Mutation: the error of LoadProject is dropped.
LoadUnchecked(h) ==
    /\ pc[h] = "loading"
    /\ copy' = [copy EXCEPT ![h] = project]
    /\ Goto(h, "mutating")
    /\ UNCHANGED <<stored, moments, holder, command, answer, cancelled, told, failures>>

\* Mutation: execute leaves the revision to the client.
LoadAnyRevision(h) ==
    /\ pc[h] = "loading" /\ CallWorks(h)
    /\ project # NoProject /\ project.status # "frozen"
    /\ copy' = [copy EXCEPT ![h] = project]
    /\ Goto(h, "mutating")
    /\ UNCHANGED <<stored, moments, holder, command, answer, cancelled, told>>

\* execute between the replay and the mutation.  A stale revision and a frozen
\* project are failures to record.
Load(h) ==
    /\ pc[h] = "loading"
    /\ \/ CallFails(h) /\ Reply(h, Answer("error")) /\ UNCHANGED copy
       \/ /\ CallWorks(h)
          /\ project = NoProject
          /\ Reply(h, Answer("not_found"))
          /\ UNCHANGED copy
       \/ /\ CallWorks(h)
          /\ project # NoProject
          /\ project.revision # command[h].expected \/ project.status = "frozen"
          /\ Goto(h, "recording")
          /\ answer' = [answer EXCEPT ![h] =
                Answer(IF project.revision # command[h].expected THEN "revision_conflict"
                                                                 ELSE "refused")]
          /\ UNCHANGED copy
       \/ /\ CallWorks(h)
          /\ project # NoProject
          /\ project.revision = command[h].expected /\ project.status # "frozen"
          /\ copy' = [copy EXCEPT ![h] = project]
          /\ Goto(h, "mutating")
          /\ UNCHANGED answer
    /\ UNCHANGED <<stored, moments, holder, command, cancelled, told>>

\* FreezeBaseline normalises the survey of the command in place, whether the
\* preflight lets it through or not; a status other than draft is refused first.
AfterMutation(h) ==
    IF command[h].kind = "baseline" /\ copy[h].status = "draft"
    THEN [command[h] EXCEPT !.body = Normal[@]]
    ELSE command[h]

Refuse(h) ==
    /\ pc[h] = "mutating"
    /\ command' = [command EXCEPT ![h] = AfterMutation(h)]
    /\ Goto(h, "recording")
    /\ answer' = [answer EXCEPT ![h] = Answer("refused")]
    /\ UNCHANGED <<stored, moments, holder, copy, cancelled, told, failures>>

Changed(h, newStatus, moment) ==
    /\ command' = [command EXCEPT ![h] = AfterMutation(h)]
    /\ copy' = [copy EXCEPT ![h] =
          [revision |-> @.revision + 1, status |-> newStatus,
           content |-> Append(@.content, command'[h]), frozenAt |-> moment]]
    /\ Goto(h, "committing")

Mutate(h) ==
    /\ pc[h] = "mutating"
    /\ \/ command[h].kind = "baseline" /\ copy[h].status = "draft"
       \/ command[h].kind = "edit" /\ copy[h].status = "working"
    /\ Changed(h, "working", 0)
    /\ UNCHANGED <<stored, moments, holder, answer, cancelled, told, failures>>

\* The file of a package is named after its digest, which is one of the content
\* alone; a file that is there stays as it is.
SavePackage(p) ==
    packages' = IF \E q \in packages : q.content = p.content THEN packages
                                                            ELSE packages \cup {p}

\* Mutation: the project is frozen first, the package written if it works out.
FreezePackageUnwritten(h) ==
    /\ pc[h] = "mutating"
    /\ command[h].kind = "freeze" /\ copy[h].status = "working"
    /\ CallFails(h)
    /\ moments' = moments + 1
    /\ Changed(h, "frozen", moments')
    /\ UNCHANGED <<project, records, events, packages, holder, answer, cancelled, told>>

\* FreezePackage saves the package inside its mutation.  Whatever error the call
\* returns is one of the mutation, and is recorded.
FreezePackage(h) ==
    /\ pc[h] = "mutating"
    /\ command[h].kind = "freeze" /\ copy[h].status = "working"
    /\ \/ /\ CallFails(h)
          /\ Goto(h, "recording")
          /\ answer' = [answer EXCEPT ![h] = Answer("refused")]
          /\ UNCHANGED <<packages, moments, command, copy>>
       \/ /\ CallWorks(h)
          /\ moments' = moments + 1
          /\ SavePackage([content |-> copy[h].content, frozenAt |-> moments'])
          /\ Changed(h, "frozen", moments')
          /\ UNCHANGED answer
    /\ UNCHANGED <<project, records, events, holder, cancelled, told>>

\* SaveRequest of a failure.  Its own error is ignored, so that an error after
\* the record is visible makes no difference.
PersistFailure(h) ==
    /\ pc[h] = "recording"
    /\ \/ CallFails(h) /\ UNCHANGED records
       \/ CallWorks(h) /\ Clash(h) /\ UNCHANGED records
       \/ CallWorks(h) /\ ~Clash(h) /\ Save(h, answer[h])
    /\ Goto(h, "answering")
    /\ UNCHANGED <<project, events, packages, moments, holder, local, answer, cancelled, told>>

\* Mutation: Commit stores the project and forgets the record.
CommitUnrecorded(h) ==
    /\ pc[h] = "committing" /\ CallWorks(h)
    /\ project' = copy[h]
    /\ Goto(h, "appending")
    /\ UNCHANGED <<records, events, packages, moments, holder, local, answer, cancelled, told>>

\* Commit up to the renamed envelope: project and record become visible
\* together.  An error after that, of the sync of the directory, skips the event.
Commit(h) ==
    /\ pc[h] = "committing"
    /\ \/ CallFails(h) /\ Reply(h, Answer("error")) /\ UNCHANGED <<project, records>>
       \/ /\ CallWorks(h) /\ Clash(h)
          /\ Reply(h, Answer("idempotency_conflict"))
          /\ UNCHANGED <<project, records>>
       \/ /\ ~cancelled[h] /\ ~Clash(h)
          /\ project' = copy[h]
          /\ Save(h, Accepted(copy[h].revision))
          /\ \/ Goto(h, "appending") /\ UNCHANGED <<answer, failures>>
             \/ /\ failures < MaxFailures /\ failures' = failures + 1
                /\ Reply(h, Answer("error"))
    /\ UNCHANGED <<events, packages, moments, holder, local, cancelled, told>>

\* Mutation: the event carries the revision the command was sent for.
AppendEventExpected(h) ==
    /\ pc[h] = "appending"
    /\ events' = Append(events, command[h].expected)
    /\ Reply(h, Accepted(copy[h].revision))
    /\ UNCHANGED <<project, records, packages, moments, holder, local, cancelled, told, failures>>

\* The rest of Commit, which looks at no context.  An error of the sync or of the
\* close comes after the event is written.
AppendEvent(h) ==
    /\ pc[h] = "appending"
    /\ \/ /\ events' = Append(events, copy[h].revision)
          /\ Reply(h, Accepted(copy[h].revision))
          /\ UNCHANGED failures
       \/ /\ failures < MaxFailures /\ failures' = failures + 1
          /\ Reply(h, Answer("error"))
          /\ events' \in {events, Append(events, copy[h].revision)}
    /\ UNCHANGED <<project, records, packages, moments, holder, local, cancelled, told>>

\* Mutation: an early return keeps the lock.
RespondLocked(h) ==
    /\ pc[h] = "answering"
    /\ holder' = IF answer[h].outcome = "not_found" THEN h ELSE NoHandler
    /\ Goto(h, "idle")
    /\ cancelled' = [cancelled EXCEPT ![h] = FALSE]
    /\ UNCHANGED <<stored, moments, local, answer, told, failures>>

\* The deferred unlock and the answer, which a client that went away misses.
Respond(h) ==
    /\ pc[h] = "answering"
    /\ holder' = NoHandler
    /\ told' = IF cancelled[h] \/ answer[h].outcome # "ok" THEN told
               ELSE told \cup {[request |-> command[h].request, revision |-> answer[h].revision]}
    /\ Goto(h, "idle")
    /\ command' = [command EXCEPT ![h] = NoCommand]
    /\ copy' = [copy EXCEPT ![h] = NoProject]
    /\ answer' = [answer EXCEPT ![h] = Answer("error")]
    /\ cancelled' = [cancelled EXCEPT ![h] = FALSE]
    /\ UNCHANGED <<stored, moments, failures>>

\* The client goes away and its context is cancelled.
Cancel(h) ==
    /\ pc[h] # "idle" /\ ~cancelled[h]
    /\ failures < MaxFailures /\ failures' = failures + 1
    /\ cancelled' = [cancelled EXCEPT ![h] = TRUE]
    /\ UNCHANGED <<stored, moments, holder, pc, local, answer, told>>

\* The process ends and starts again: files stay, handlers and locks are gone.
Crash ==
    /\ \E h \in Handlers : pc[h] # "idle"
    /\ failures < MaxFailures /\ failures' = failures + 1
    /\ holder' = NoHandler
    /\ pc' = [h \in Handlers |-> "idle"]
    /\ command' = [h \in Handlers |-> NoCommand]
    /\ copy' = [h \in Handlers |-> NoProject]
    /\ answer' = [h \in Handlers |-> Answer("error")]
    /\ cancelled' = [h \in Handlers |-> FALSE]
    /\ UNCHANGED <<stored, moments, told>>

Run(h) ==
    \/ Replay(h) \/ Create(h) \/ Load(h) \/ Refuse(h) \/ Mutate(h) \/ FreezePackage(h)
    \/ PersistFailure(h) \/ Commit(h) \/ AppendEvent(h) \/ Respond(h)

Next ==
    \/ \E h \in Handlers :
          \/ \E c \in Commands : Receive(h, c)
          \/ Acquire(h) \/ Replay(h) \/ Create(h) \/ Load(h) \/ Refuse(h) \/ Mutate(h)
          \/ FreezePackage(h) \/ PersistFailure(h) \/ Commit(h) \/ AppendEvent(h)
          \/ Respond(h) \/ Cancel(h)
    \/ Crash

\* The lock is granted as ProjectLock says; a handler that holds it runs on.
Fairness == \A h \in Handlers : SF_vars(Acquire(h)) /\ WF_vars(Run(h))

Safe == Init /\ [][Next]_vars
Spec == Safe /\ Fairness

-----------------------------------------------------------------------------
(* Properties. *)

\* Every variable has its type: what is stored is of the form the program reads
\* back, and a handler at work has a command.
TypeOK ==
    /\ project \in Project \cup {NoProject}
    /\ records \in [Requests -> Record \cup {NoRecord}]
    /\ events \in Seq(Nat)
    /\ packages \subseteq Package
    /\ moments \in Nat
    /\ holder \in Handlers \cup {NoHandler}
    /\ pc \in [Handlers -> {"idle", "locking", "replaying", "creating", "loading", "mutating",
                            "recording", "committing", "appending", "answering"}]
    /\ command \in [Handlers -> Command \cup {NoCommand}]
    /\ copy \in [Handlers -> Project \cup {NoProject}]
    /\ answer \in [Handlers -> Answers]
    /\ cancelled \in [Handlers -> BOOLEAN]
    /\ told \subseteq [request : Requests, revision : Nat]
    /\ failures \in 0..MaxFailures
    /\ \A h \in Handlers :
          /\ pc[h] # "idle" => command[h] \in Command
          /\ pc[h] \in {"mutating", "committing", "appending"} => copy[h] \in Project

Revision == IF project = NoProject THEN 0 ELSE project.revision
Content == IF project = NoProject THEN <<>> ELSE project.content

\* However often commands are sent again, in whatever order, and wherever the
\* process crashes or a call fails: the project is the result of as many
\* commands as its revision says, no two of the same request, each sent for the
\* revision it found (service.go:57-105, README.md:49).
AppliedOnce ==
    /\ Len(Content) = Revision
    /\ \A i \in 1..Revision :
          /\ Content[i].expected = i - 1
          /\ \A j \in 1..Revision : Content[i].request = Content[j].request => i = j

\* Whoever was told that a command was accepted finds it in the project, at the
\* revision he was told, now and after any restart (service.go:82-105,
\* projects.go:105-135).
AcceptedIsStored ==
    \A a \in told : a.revision \in 1..Revision /\ Content[a.revision].request = a.request

\* The events are those of revisions the project has, in their order; without
\* any failure none is missing once Commit returned (projects.go:105-139).
EventsFollowProject ==
    /\ \A i \in DOMAIN events :
          events[i] \in 1..Revision /\ \A j \in DOMAIN events : i < j => events[i] < events[j]
    /\ failures = 0 /\ (\A h \in Handlers : pc[h] # "appending") => Len(events) = Revision

\* A frozen project never points to a package that is not there
\* (review_ops.go:130).
PackageBehindFrozen ==
    Revision # 0 /\ project.status = "frozen" =>
        \E p \in packages : p.content = SubSeq(Content, 1, Revision - 1)

\* Every command a handler received is answered or lost in a crash; in
\* particular no early return keeps the lock (service.go:57-105).
EveryCommandEnds == \A h \in Handlers : pc[h] = "locking" ~> pc[h] = "idle"

\* The requests of a project are a ledger: one lasting answer for each, and a
\* revision for every accepted one (service.go:36-117).
Ledger == INSTANCE RequestLedger WITH
    NoAnswer <- NoRecord,
    revision <- Revision,
    ledger   <- [r \in Requests |-> IF records[r] = NoRecord THEN NoRecord ELSE records[r].answer]
IsLedger == Ledger!Spec

-----------------------------------------------------------------------------
(* What the documentation and the tests say of the program, and the code does *)
(* not do.                                                                    *)

\* "同一 request_id 改变请求内容返回 idempotency_conflict" (README.md:49): that
\* answer means that the request id was used for another command.
ConflictMeansChanged ==
    \A h \in Handlers : answer[h].outcome = "idempotency_conflict" =>
        \E c \in Commands : c.request = command[h].request /\ c # command[h]

\* A frozen project passes the deep verification (service_test.go:75), which
\* compares the moment of freezing in project and package (package.go:195).
FrozenAtAgrees ==
    Revision # 0 /\ project.status = "frozen" =>
        \A p \in packages : p.content = SubSeq(Content, 1, Revision - 1)
                                => p.frozenAt = project.frozenAt
=============================================================================
