------------------------------- MODULE Workbench -------------------------------
(***************************************************************************)
(* Browser windows on the workbench (internal/httpui/web/app.js), the      *)
(* handlers they call and other clients of the same interface.  A window   *)
(* keeps the project it shows, the last preview of its signs and the last  *)
(* approval preflight; every call is asynchronous.  Requests are handled   *)
(* and answered in any order, and any of them may be lost, while the user  *)
(* goes on typing and clicking: an answer may find the window on another   *)
(* project, at another revision or with another text.                      *)
(*                                                                         *)
(* A project is what these calls tell apart: its status, its revision and  *)
(* its signs.  What the commands do with it is the matter of ReleaseGate.  *)
(* The reviewer of a window is the one render() filled in: the preflight   *)
(* blocks anybody else.                                                    *)
(***************************************************************************)
EXTENDS Naturals

CONSTANTS Windows, Projects,
          Plans,              \* texts of sign plans
          Sample,             \* the plan a window offers a project without signs
          NoPlan,             \* no signs yet
          Faulty,             \* pairs of a project and a plan its preflight refuses
          None,               \* null
          FirstRevision,      \* of the projects when the windows open
          MaxCommands,        \* bound on the commands that are accepted
          MaxInFlight         \* bound on the calls of windows that are under way

ASSUME WorkbenchAssumption ==
    /\ Sample \in Plans /\ NoPlan \notin Plans
    /\ FirstRevision \in Nat /\ MaxCommands \in Nat /\ MaxInFlight \in Nat

\* Signs are accepted in three statuses, of which needs_remediation is one.
Statuses == {"needs_remediation", "ready_for_walkthrough", "ready_for_approval", "frozen"}

Project == [id : Projects, status : Statuses, revision : Nat, signs : Plans \cup {NoPlan}]
ApprovalPreflight == [source_revision : Nat, candidate_digest : Projects \X Nat,
                      blocked : BOOLEAN]
SignPreview == [key : Plans, errors : BOOLEAN]

Reads == {"project", "projects", "signs/preflight", "approval-preflight"}
Mutations == {"signs", "resolve", "validate", "walkthrough", "freeze"}

ASSUME NullAssumption == None \notin Project \cup ApprovalPreflight \cup SignPreview

VARIABLES
    project,    \* the projects of the service
    commands,   \* how many commands were accepted
    state,      \* of a window: state.project, .signs, .approval and its input fields
    requests,   \* requests that were sent and not handled
    answers,    \* answers that have not arrived
    previewed,  \* the plans a window showed a preview of, without errors
    shown       \* the approval preflights without blockers a window showed

vars == <<project, commands, state, requests, answers, previewed, shown>>

-----------------------------------------------------------------------------
Opened == [project |-> None, signs |-> None, approval |-> None,
           signsInput |-> Sample]

\* The projects when the windows open: before any signs, to be walked, or walked.
Unsigned(p) == [id |-> p, status |-> "needs_remediation", revision |-> FirstRevision,
                signs |-> NoPlan]
Signed(p, status) == [id |-> p, status |-> status, revision |-> FirstRevision, signs |-> Sample]

Init ==
    /\ \/ project = [p \in Projects |-> Unsigned(p)]
       \/ \E status \in {"ready_for_walkthrough", "ready_for_approval"} :
             project = [p \in Projects |-> Signed(p, status)]
    /\ commands = 0
    /\ state = [w \in Windows |-> Opened]
    /\ requests = {} /\ answers = {}
    /\ previewed = [w \in Windows |-> {}]
    /\ shown = [w \in Windows |-> {}]

Connections == 1..MaxInFlight
Unused(c) == \A x \in requests \cup answers : x.connection # c

\* fetch.  The view is the project the window shows at that moment; meta() takes
\* the expected revision of a command from it.
SendOn(c, w, kind, p, body) ==
    requests' = requests \cup
        {[connection |-> c, window |-> w, kind |-> kind, project |-> p,
          view |-> IF kind \in Mutations THEN state[w].project ELSE None, body |-> body]}
Send(w, kind, p, body) ==
    \E c \in Connections :
        /\ Unused(c) /\ \A d \in 1..(c - 1) : ~Unused(d)
        /\ SendOn(c, w, kind, p, body)

Shows(w) == state[w].project # None
ShownIn(w, statuses) == Shows(w) /\ state[w].project.status \in statuses

-----------------------------------------------------------------------------
(* What the user does. *)

\* A click on a project of the list, or a change of the filter.
OpenProject(w, p) ==
    /\ Send(w, "project", p, None)
    /\ UNCHANGED <<project, commands, state, answers, previewed, shown>>

TypeSigns(w, plan) ==
    /\ Shows(w) /\ state[w].signsInput # plan
    /\ state' = [state EXCEPT ![w].signsInput = plan, ![w].signs = None]
    /\ UNCHANGED <<project, commands, requests, answers, previewed, shown>>

\* Mutation: a preview counts whatever text it is of.
PreviewOfAnything(w) == state[w].signs # None

\* A preview of the very text.
Previewed(w) == state[w].signs # None /\ state[w].signs.key = state[w].signsInput

\* The first click previews, the second saves what was previewed without errors.
SaveSigns(w) ==
    /\ ShownIn(w, {"needs_remediation"})
    /\ IF Previewed(w)
       THEN /\ ~state[w].signs.errors
            /\ Send(w, "signs", state[w].project.id, state[w].signsInput)
       ELSE Send(w, "signs/preflight", state[w].project.id, state[w].signsInput)
    /\ UNCHANGED <<project, commands, state, answers, previewed, shown>>

\* A resolution carries whatever is in the field of the signs.
ResolveIssue(w) ==
    /\ ShownIn(w, {"needs_remediation"}) /\ state[w].project.signs # NoPlan
    /\ Send(w, "resolve", state[w].project.id, state[w].signsInput)
    /\ UNCHANGED <<project, commands, state, answers, previewed, shown>>

\* Validation and reverification send nothing but the revision.
ValidateRules(w) ==
    /\ ShownIn(w, {"needs_remediation"})
    /\ Send(w, "validate", state[w].project.id, None)
    /\ UNCHANGED <<project, commands, state, answers, previewed, shown>>

SubmitWalkthrough(w) ==
    /\ ShownIn(w, {"ready_for_walkthrough"})
    /\ Send(w, "walkthrough", state[w].project.id, None)
    /\ UNCHANGED <<project, commands, state, answers, previewed, shown>>

AskApproval(w) ==
    /\ ShownIn(w, {"ready_for_approval"})
    /\ Send(w, "approval-preflight", state[w].project.id, None)
    /\ UNCHANGED <<project, commands, state, answers, previewed, shown>>

\* The first click asks for the preflight too; the next freezes what it gave.
ConfirmFreeze(w) ==
    /\ ShownIn(w, {"ready_for_approval"})
    /\ state[w].approval # None /\ ~state[w].approval.blocked
    /\ Send(w, "freeze", state[w].project.id, state[w].approval)
    /\ UNCHANGED <<project, commands, state, answers, previewed, shown>>

-----------------------------------------------------------------------------
(* What the service does with a request. *)

\* The digest is one of the content, the project's id included and the revision
\* not.  Every command that leads to ready_for_approval or leaves it as it is adds
\* a review or sets the moment of the validation, so there the revision stands
\* for the content.
PreflightApproval(q) ==
    [source_revision |-> q.revision, candidate_digest |-> <<q.id, q.revision>>,
     blocked |-> q.status # "ready_for_approval"]

\* The commands: what q may become.
Saved(q, plan) ==
    IF q.status = "needs_remediation" /\ <<q.id, plan>> \notin Faulty
    THEN {[q EXCEPT !.revision = @ + 1, !.signs = plan]} ELSE {}
Resolved(q, plan) == IF q.signs = NoPlan THEN {} ELSE Saved(q, plan)

\* Validation, in every status, and reverification.
Validated(q) ==
    {[q EXCEPT !.revision = @ + 1, !.status = s] :
        s \in IF q.signs = NoPlan THEN {}
              ELSE {q.status} \cup
                   (IF q.status = "needs_remediation" THEN {"ready_for_walkthrough"} ELSE {})}
Walked(q) ==
    {[q EXCEPT !.revision = @ + 1, !.status = s] :
        s \in IF q.status = "ready_for_walkthrough"
              THEN {"needs_remediation", "ready_for_approval"} ELSE {}}
Approved(q) ==
    IF q.status = "ready_for_approval"
    THEN {[q EXCEPT !.revision = @ + 1, !.status = "frozen"]} ELSE {}

Answer(r, body) ==
    /\ requests' = requests \ {r}
    /\ answers' = answers \cup {[connection |-> r.connection, window |-> r.window, kind |-> r.kind,
                                 body |-> body]}
    /\ UNCHANGED <<state, previewed, shown>>

ProjectHandler(r) ==
    /\ r.kind = "project"
    /\ Answer(r, project[r.project])
    /\ UNCHANGED <<project, commands>>

ListProjectsHandler(r) ==
    /\ r.kind = "projects"
    /\ Answer(r, None)
    /\ UNCHANGED <<project, commands>>

SignPreflightHandler(r) ==
    /\ r.kind = "signs/preflight"
    /\ Answer(r, [key |-> r.body, errors |-> <<r.project, r.body>> \in Faulty])
    /\ UNCHANGED <<project, commands>>

ApprovalPreflightHandler(r) ==
    /\ r.kind = "approval-preflight"
    /\ Answer(r, PreflightApproval(project[r.project]))
    /\ UNCHANGED <<project, commands>>

\* Mutation: the expected revision is not compared.
AnyRevision(r) == TRUE

\* execute: the command was sent for the project as it is, which is not frozen.
Current(r) == r.view.revision = project[r.project].revision

Accept == commands < MaxCommands /\ commands' = commands + 1

Apply(r, outcomes) ==
    /\ Current(r) /\ project[r.project].status # "frozen"
    /\ Accept
    /\ project' \in {[project EXCEPT ![r.project] = q] : q \in outcomes}
    /\ Answer(r, None)

ReplaceSignsHandler(r) ==
    r.kind = "signs" /\ Apply(r, Saved(project[r.project], r.body))
ResolveIssueHandler(r) ==
    r.kind = "resolve" /\ Apply(r, Resolved(project[r.project], r.body))
ValidateHandler(r) ==
    r.kind = "validate" /\ Apply(r, Validated(project[r.project]))
WalkthroughHandler(r) ==
    r.kind = "walkthrough" /\ Apply(r, Walked(project[r.project]))

\* Mutation: the digest of the candidate is not compared.
SameRevision(approval, now) == approval.source_revision = now.source_revision

SameCandidate(approval, now) ==
    /\ approval.source_revision = now.source_revision
    /\ approval.candidate_digest = now.candidate_digest

FreezePackageHandler(r) ==
    /\ r.kind = "freeze"
    /\ SameCandidate(r.body, PreflightApproval(project[r.project]))
    /\ Apply(r, Approved(project[r.project]))

\* A refused command changes nothing and a failed call shows a toast; to the
\* window it is the same when a request or its answer is lost.
Fail ==
    /\ \/ \E r \in requests : requests' = requests \ {r} /\ UNCHANGED answers
       \/ \E a \in answers : answers' = answers \ {a} /\ UNCHANGED requests
    /\ UNCHANGED <<project, commands, state, previewed, shown>>

\* Another client, which knows the revision.
OtherClient(p) ==
    LET q == project[p] IN
    /\ q.status # "frozen" /\ Accept
    /\ project' \in {[project EXCEPT ![p] = outcome] :
            outcome \in Validated(q) \cup Walked(q) \cup Approved(q)
                            \cup UNION {Saved(q, plan) : plan \in Plans}}
    /\ UNCHANGED <<state, requests, answers, previewed, shown>>

-----------------------------------------------------------------------------
(* What a window does with an answer. *)

Take(a) == answers' = answers \ {a}

\* Mutation: a project without signs is not offered any.
RenderedAsIs(q) == q.signs

\* What render() puts into the field of the signs.
Rendered(q) == IF q.signs = NoPlan THEN Sample ELSE q.signs

\* The end of loadProject: the project is rendered, with its signs and reviewer.
LoadProject(a) ==
    /\ a.kind = "project" /\ Take(a)
    /\ state' = [state EXCEPT ![a.window] =
           [project |-> a.body, signs |-> None, approval |-> None,
            signsInput |-> Rendered(a.body)]]
    /\ UNCHANGED <<project, commands, requests, previewed, shown>>

\* mutate goes on with the list of the projects ...
AfterMutation(a) ==
    /\ a.kind \in Mutations /\ Take(a)
    /\ SendOn(a.connection, a.window, "projects", state[a.window].project.id, None)
    /\ UNCHANGED <<project, commands, state, previewed, shown>>

\* ... and then loads the project that the window shows by now.
AfterList(a) ==
    /\ a.kind = "projects" /\ Take(a)
    /\ SendOn(a.connection, a.window, "project", state[a.window].project.id, None)
    /\ UNCHANGED <<project, commands, state, previewed, shown>>

ShowSignPreview(a) ==
    /\ a.kind = "signs/preflight" /\ Take(a)
    /\ state' = [state EXCEPT ![a.window].signs = a.body]
    /\ previewed' = [previewed EXCEPT ![a.window] =
                        @ \cup (IF a.body.errors THEN {} ELSE {a.body.key})]
    /\ UNCHANGED <<project, commands, requests, shown>>

ShowApproval(a) ==
    /\ a.kind = "approval-preflight" /\ Take(a)
    /\ state' = [state EXCEPT ![a.window].approval = a.body]
    /\ shown' = [shown EXCEPT ![a.window] =
                    @ \cup (IF a.body.blocked THEN {} ELSE {a.body})]
    /\ UNCHANGED <<project, commands, requests, previewed>>

-----------------------------------------------------------------------------
Next ==
    \/ \E w \in Windows :
          \/ \E p \in Projects : OpenProject(w, p)
          \/ \E plan \in Plans : TypeSigns(w, plan)
          \/ SaveSigns(w) \/ ResolveIssue(w) \/ ValidateRules(w) \/ SubmitWalkthrough(w)
          \/ AskApproval(w) \/ ConfirmFreeze(w)
    \/ \E r \in requests :
          \/ ProjectHandler(r) \/ ListProjectsHandler(r)
          \/ SignPreflightHandler(r) \/ ApprovalPreflightHandler(r)
          \/ ReplaceSignsHandler(r) \/ ResolveIssueHandler(r) \/ ValidateHandler(r)
          \/ WalkthroughHandler(r) \/ FreezePackageHandler(r)
    \/ Fail
    \/ \E p \in Projects : OtherClient(p)
    \/ \E a \in answers :
          \/ LoadProject(a) \/ AfterMutation(a) \/ AfterList(a)
          \/ ShowSignPreview(a) \/ ShowApproval(a)

Spec == Init /\ [][Next]_vars

-----------------------------------------------------------------------------
(* Properties. *)

\* What a request carries, and what an answer brings.
Carries(kind, body) ==
    /\ kind \in {"signs/preflight", "signs", "resolve"} => body \in Plans
    /\ kind = "freeze" => body \in ApprovalPreflight
Brings(kind, body) ==
    /\ kind = "project" => body \in Project
    /\ kind = "signs/preflight" => body \in SignPreview
    /\ kind = "approval-preflight" => body \in ApprovalPreflight

Request == [connection : Connections, window : Windows, kind : Reads \cup Mutations,
            project : Projects, view : Project \cup {None},
            body : Plans \cup ApprovalPreflight \cup {None}]
Result == [connection : Connections, window : Windows, kind : Reads \cup Mutations,
           body : Project \cup SignPreview \cup ApprovalPreflight \cup {None}]
Window == [project : Project \cup {None}, signs : SignPreview \cup {None},
           approval : ApprovalPreflight \cup {None}, signsInput : Plans]

\* Every variable has its type; in particular a command is only sent from a window
\* that shows the project it is about, and what a continuation goes on with after
\* an answer is there (app.js meta, mutate and render).
TypeOK ==
    /\ project \in [Projects -> Project]
    /\ state \in [Windows -> Window]
    /\ commands \in Nat
    /\ requests \subseteq Request /\ answers \subseteq Result
    /\ \A r \in requests :
          /\ Carries(r.kind, r.body)
          /\ r.kind \in Mutations => r.view # None /\ r.view.id = r.project
    /\ \A a \in answers : Brings(a.kind, a.body)
    /\ previewed \in [Windows -> SUBSET Plans]
    /\ shown \in [Windows -> SUBSET ApprovalPreflight]

\* A command of a window takes effect only on the project exactly as the window
\* showed it when the user clicked: never on what another client made of it
\* meanwhile, on what an earlier click of the same window made of it, or on what
\* answers out of order brought back (app.js meta, service.go:72).
ActsOnWhatIsShown ==
    [][\A r \in requests \ requests' :
          project'[r.project] # project[r.project] => r.view = project[r.project]]_vars

\* What a window freezes is what its user saw in an approval preflight without
\* blockers: this project, at this revision, with this content, also when the
\* preflight of another project or revision was answered late (README.md:5,
\* review_ops.go:120-125).
FreezesWhatWasShown ==
    [][\A r \in requests \ requests' :
          r.kind = "freeze" /\ project'[r.project] # project[r.project] =>
              PreflightApproval(project[r.project]) \in shown[r.window]]_vars

\* A window only sends signs to be saved whose very text it showed a preview of,
\* without errors, though the text may change while its preview is under way
\* (app.js saveSigns, README.md:5).
PreviewBeforeSave ==
    \A r \in requests : r.kind = "signs" => r.body \in previewed[r.window]
=============================================================================
