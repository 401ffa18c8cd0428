----------------------------- MODULE WorkbenchProofs -----------------------------
(***************************************************************************)
(* Theorems about Workbench, for every set of windows, projects and plans  *)
(* and any number of calls under way and of commands.  The parts of the    *)
(* inductive invariant speak of one window, one request and one answer     *)
(* each; they stay true because a window never shows nothing again, what   *)
(* it showed was shown, and a project only gets later revisions (Grows).   *)
(***************************************************************************)
EXTENDS Workbench, TLAPS

\* A view of a project is the project, or it is of an earlier revision.
Past(v) == v = project[v.id] \/ v.revision < project[v.id].revision

WindowOK(w) ==
    /\ state[w] \in Window
    /\ Shows(w) => state[w].project \in Project /\ Past(state[w].project)
    /\ state[w].signs # None /\ ~state[w].signs.errors => state[w].signs.key \in previewed[w]
    /\ state[w].approval # None /\ ~state[w].approval.blocked => state[w].approval \in shown[w]

RequestOK(r) ==
    /\ r \in Request /\ Carries(r.kind, r.body)
    /\ r.kind \in Mutations => r.view \in Project /\ r.view.id = r.project /\ Past(r.view)
    /\ r.kind \in Mutations \cup {"projects"} => Shows(r.window)
    /\ r.kind = "signs" => r.body \in previewed[r.window]
    /\ r.kind = "freeze" => ~r.body.blocked /\ r.body \in shown[r.window]

AnswerOK(a) ==
    /\ a \in Result /\ Brings(a.kind, a.body)
    /\ a.kind = "project" => Past(a.body)
    /\ a.kind \in Mutations \cup {"projects"} => Shows(a.window)

ServiceOK ==
    /\ project \in [Projects -> Project]
    /\ \A p \in Projects : project[p].id = p
    /\ commands \in Nat

GhostsOK ==
    /\ previewed \in [Windows -> SUBSET Plans]
    /\ shown \in [Windows -> SUBSET ApprovalPreflight]

IInv ==
    /\ ServiceOK
    /\ GhostsOK
    /\ state \in [Windows -> Window]
    /\ \A w \in Windows : WindowOK(w)
    /\ \A r \in requests : RequestOK(r)
    /\ \A a \in answers : AnswerOK(a)

\* What every step keeps.
ProjectsGrow ==
    \A p \in Projects : project'[p] = project[p] \/ project[p].revision < project'[p].revision
WindowsGrow ==
    \A w \in Windows :
        /\ Shows(w) => Shows(w)'
        /\ previewed[w] \subseteq previewed'[w]
        /\ shown[w] \subseteq shown'[w]

USE WorkbenchAssumption, NullAssumption

-----------------------------------------------------------------------------
(* The parts of the invariant under growth. *)

LEMMA PastStays ==
    ASSUME NEW v \in Project, ServiceOK, ServiceOK', ProjectsGrow, Past(v)
    PROVE  Past(v)'
<1>1. v.id \in Projects /\ v.revision \in Nat  BY DEF Project
<1>2. project[v.id] \in Project /\ project'[v.id] \in Project  BY <1>1 DEF ServiceOK
<1>3. project[v.id].revision \in Nat /\ project'[v.id].revision \in Nat  BY <1>2 DEF Project
<1>4. project'[v.id] = project[v.id] \/ project[v.id].revision < project'[v.id].revision
  BY <1>1 DEF ProjectsGrow
<1> QED  BY <1>1, <1>3, <1>4 DEF Past

LEMMA RequestStays ==
    ASSUME NEW r, ServiceOK, ServiceOK', ProjectsGrow, WindowsGrow, RequestOK(r)
    PROVE  RequestOK(r)'
<1>1. r \in Request /\ Carries(r.kind, r.body)  BY DEF RequestOK
<1>2. r.window \in Windows  BY <1>1 DEF Request
<1>3. r.kind \in Mutations => Past(r.view)'
  BY PastStays DEF RequestOK
<1>4. /\ Shows(r.window) => Shows(r.window)'
      /\ previewed[r.window] \subseteq previewed'[r.window]
      /\ shown[r.window] \subseteq shown'[r.window]
  BY <1>2 DEF WindowsGrow
<1> QED  BY <1>1, <1>3, <1>4 DEF RequestOK, Carries, Request, Connections

LEMMA AnswerStays ==
    ASSUME NEW a, ServiceOK, ServiceOK', ProjectsGrow, WindowsGrow, AnswerOK(a)
    PROVE  AnswerOK(a)'
<1>1. a \in Result /\ Brings(a.kind, a.body)  BY DEF AnswerOK
<1>2. a.window \in Windows  BY <1>1 DEF Result
<1>3. a.kind = "project" => a.body \in Project /\ Past(a.body)'
  BY <1>1, PastStays DEF AnswerOK, Brings
<1>4. Shows(a.window) => Shows(a.window)'  BY <1>2 DEF WindowsGrow
<1> QED  BY <1>1, <1>3, <1>4 DEF AnswerOK, Brings, Result, Connections

\* A step that leaves the window alone.
LEMMA WindowStays ==
    ASSUME NEW w \in Windows, ServiceOK, ServiceOK', ProjectsGrow, WindowsGrow,
           state'[w] = state[w], WindowOK(w)
    PROVE  WindowOK(w)'
<1>1. Shows(w) => state[w].project \in Project /\ Past(state[w].project)'
  BY PastStays DEF WindowOK
<1>2. previewed[w] \subseteq previewed'[w] /\ shown[w] \subseteq shown'[w]  BY DEF WindowsGrow
<1> QED  BY <1>1, <1>2 DEF WindowOK, Shows, Past

\* Together: a step whose new requests, answers and windows are as they should be.
LEMMA Together ==
    ASSUME IInv, ServiceOK', GhostsOK', state' \in [Windows -> Window],
           ProjectsGrow, WindowsGrow,
           \A w \in Windows : state'[w] = state[w] \/ WindowOK(w)',
           \A r \in requests' : r \in requests \/ RequestOK(r)',
           \A a \in answers' : a \in answers \/ AnswerOK(a)'
    PROVE  IInv'
<1>1. \A w \in Windows : WindowOK(w)'  BY WindowStays DEF IInv
<1>2. \A r \in requests' : RequestOK(r)'  BY RequestStays DEF IInv
<1>3. \A a \in answers' : AnswerOK(a)'  BY AnswerStays DEF IInv
<1> QED  BY <1>1, <1>2, <1>3 DEF IInv

-----------------------------------------------------------------------------
(* The user. *)

LEMMA ServiceSame ==
    ASSUME IInv, UNCHANGED <<project, commands>>
    PROVE  ServiceOK' /\ ProjectsGrow
BY DEF IInv, ServiceOK, ProjectsGrow

LEMMA WindowsSame ==
    ASSUME IInv, UNCHANGED <<state, previewed, shown>>
    PROVE  GhostsOK' /\ WindowsGrow /\ state' \in [Windows -> Window]
BY DEF IInv, GhostsOK, WindowsGrow, Shows

\* A new request for the project that the window shows.
LEMMA NewRequest ==
    ASSUME IInv, UNCHANGED <<project, commands, state, previewed, shown>>,
           NEW c \in Connections, NEW w \in Windows, NEW kind \in Reads \cup Mutations,
           NEW p \in Projects, NEW body \in Plans \cup ApprovalPreflight \cup {None},
           SendOn(c, w, kind, p, body),
           Carries(kind, body),
           kind \in Mutations \cup {"projects"} => Shows(w),
           kind \in Mutations => p = state[w].project.id,
           kind = "signs" => body \in previewed[w],
           kind = "freeze" => ~body.blocked /\ body \in shown[w]
    PROVE  \A r \in requests' : r \in requests \/ RequestOK(r)'
<1> DEFINE view == IF kind \in Mutations THEN state[w].project ELSE None
           new == [connection |-> c, window |-> w, kind |-> kind, project |-> p,
                   view |-> view, body |-> body]
<1>1. requests' = requests \cup {new}  BY DEF SendOn
<1>2. Shows(w) => state[w].project \in Project /\ Past(state[w].project)
  BY DEF IInv, WindowOK
<1>3. view \in Project \cup {None}  BY <1>2
<1>4. new \in Request  BY <1>3 DEF Request
<1>5. RequestOK(new)
  BY <1>2, <1>4 DEF RequestOK
<1>6. ProjectsGrow /\ ServiceOK'  BY ServiceSame
<1>7. WindowsGrow  BY WindowsSame
<1>8. ServiceOK  BY DEF IInv
<1>9. RequestOK(new)'  BY <1>5, <1>6, <1>7, <1>8, RequestStays
<1> QED  BY <1>1, <1>9

LEMMA UserSends ==
    ASSUME IInv, UNCHANGED <<project, commands, state, answers, previewed, shown>>,
           NEW w \in Windows, NEW kind \in Reads \cup Mutations,
           NEW p \in Projects, NEW body \in Plans \cup ApprovalPreflight \cup {None},
           Send(w, kind, p, body),
           Carries(kind, body),
           kind \in Mutations \cup {"projects"} => Shows(w),
           kind \in Mutations => p = state[w].project.id,
           kind = "signs" => body \in previewed[w],
           kind = "freeze" => ~body.blocked /\ body \in shown[w]
    PROVE  IInv'
<1>1. PICK c \in Connections : SendOn(c, w, kind, p, body)  BY DEF Send
<1>2. \A r \in requests' : r \in requests \/ RequestOK(r)'  BY <1>1, NewRequest
<1>3. ServiceOK' /\ ProjectsGrow  BY ServiceSame
<1>4. GhostsOK' /\ WindowsGrow /\ state' \in [Windows -> Window]  BY WindowsSame
<1> QED  BY <1>2, <1>3, <1>4, Together

LEMMA ShownProject ==
    ASSUME IInv, NEW w \in Windows, Shows(w)
    PROVE  /\ state[w].project \in Project /\ state[w].project.id \in Projects
           /\ state[w].signsInput \in Plans
BY DEF IInv, WindowOK, Window, Project

LEMMA OpenProjectStep ==
    ASSUME IInv, NEW w \in Windows, NEW p \in Projects, OpenProject(w, p)
    PROVE  IInv'
BY UserSends DEF OpenProject, Reads, Mutations, Carries

LEMMA TypeSignsStep ==
    ASSUME IInv, NEW w \in Windows, NEW plan \in Plans, TypeSigns(w, plan)
    PROVE  IInv'
<1> DEFINE new == [state[w] EXCEPT !.signsInput = plan, !.signs = None]
<1>1. state[w] \in Window /\ WindowOK(w)  BY DEF IInv
<1>2. /\ state' = [state EXCEPT ![w] = new]
      /\ UNCHANGED <<project, commands, requests, answers, previewed, shown>>
  BY DEF TypeSigns
<1>3. new \in Window /\ new.project = state[w].project /\ new.signs = None
        /\ new.approval = state[w].approval
  BY <1>1 DEF Window
<1>4. state' \in [Windows -> Window]  BY <1>2, <1>3 DEF IInv
<1>5. \A u \in Windows : IF u = w THEN state'[u] = new ELSE state'[u] = state[u]
  BY <1>2 DEF IInv
<1>6. ServiceOK' /\ ProjectsGrow  BY <1>2, ServiceSame
<1>7. GhostsOK' /\ WindowsGrow
  BY <1>2, <1>3, <1>5 DEF IInv, GhostsOK, WindowsGrow, Shows
<1>8. WindowOK(w)'
  BY <1>1, <1>2, <1>3, <1>5 DEF WindowOK, Shows, Past
<1> QED  BY <1>2, <1>4, <1>5, <1>6, <1>7, <1>8, Together

LEMMA SaveSignsStep ==
    ASSUME IInv, NEW w \in Windows, SaveSigns(w)
    PROVE  IInv'
<1>1. Shows(w)  BY DEF SaveSigns, ShownIn
<1>2. CASE Previewed(w)
  <2>1. state[w].signsInput \in previewed[w]
    BY <1>2 DEF SaveSigns, Previewed, IInv, WindowOK
  <2>2. Send(w, "signs", state[w].project.id, state[w].signsInput)
    BY <1>2 DEF SaveSigns
  <2> QED  BY <1>1, <2>1, <2>2, ShownProject, UserSends
         DEF SaveSigns, Reads, Mutations, Carries
<1>3. CASE ~Previewed(w)
  <2>1. Send(w, "signs/preflight", state[w].project.id, state[w].signsInput)
    BY <1>3 DEF SaveSigns
  <2> QED  BY <1>1, <2>1, ShownProject, UserSends DEF SaveSigns, Reads, Mutations, Carries
<1> QED  BY <1>2, <1>3

LEMMA CommandSteps ==
    ASSUME IInv, NEW w \in Windows,
           \/ ResolveIssue(w) \/ ValidateRules(w) \/ SubmitWalkthrough(w) \/ AskApproval(w)
    PROVE  IInv'
<1>1. Shows(w)
  BY DEF ResolveIssue, ValidateRules, SubmitWalkthrough, AskApproval, ShownIn
<1>2. CASE ResolveIssue(w)
  BY <1>1, <1>2, ShownProject, UserSends DEF ResolveIssue, Reads, Mutations, Carries
<1>3. CASE ValidateRules(w)
  BY <1>1, <1>3, ShownProject, UserSends DEF ValidateRules, Reads, Mutations, Carries
<1>4. CASE SubmitWalkthrough(w)
  BY <1>1, <1>4, ShownProject, UserSends DEF SubmitWalkthrough, Reads, Mutations, Carries
<1>5. CASE AskApproval(w)
  BY <1>1, <1>5, ShownProject, UserSends DEF AskApproval, Reads, Mutations, Carries
<1> QED  BY <1>2, <1>3, <1>4, <1>5

LEMMA ConfirmFreezeStep ==
    ASSUME IInv, NEW w \in Windows, ConfirmFreeze(w)
    PROVE  IInv'
<1>1. Shows(w)  BY DEF ConfirmFreeze, ShownIn
<1>2. /\ state[w].approval \in shown[w] /\ ~state[w].approval.blocked
      /\ state[w].approval \in ApprovalPreflight
  BY DEF ConfirmFreeze, IInv, WindowOK, Window
<1>3. Send(w, "freeze", state[w].project.id, state[w].approval)  BY DEF ConfirmFreeze
<1> QED  BY <1>1, <1>2, <1>3, ShownProject, UserSends
       DEF ConfirmFreeze, Reads, Mutations, Carries

-----------------------------------------------------------------------------
(* The service. *)

\* An answer to r, after a step that lets projects grow.
LEMMA Answered ==
    ASSUME IInv, ServiceOK', ProjectsGrow, NEW r \in requests,
           NEW body \in Project \cup SignPreview \cup ApprovalPreflight \cup {None},
           Answer(r, body),
           Brings(r.kind, body), (r.kind = "project" => Past(body))
    PROVE  IInv'
<1> DEFINE new == [connection |-> r.connection, window |-> r.window, kind |-> r.kind,
                   body |-> body]
<1>1. /\ requests' = requests \ {r} /\ answers' = answers \cup {new}
      /\ UNCHANGED <<state, previewed, shown>>
  BY DEF Answer
<1>2. RequestOK(r) /\ ServiceOK  BY DEF IInv
<1>3. new \in Result  BY <1>2 DEF RequestOK, Request, Result
<1>4. AnswerOK(new)  BY <1>2, <1>3 DEF AnswerOK, RequestOK
<1>5. GhostsOK' /\ WindowsGrow /\ state' \in [Windows -> Window]  BY <1>1, WindowsSame
<1>6. AnswerOK(new)'  BY <1>2, <1>4, <1>5, AnswerStays
<1> QED  BY <1>1, <1>5, <1>6, Together

LEMMA ReadHandlers ==
    ASSUME IInv, NEW r \in requests,
           \/ ProjectHandler(r) \/ ListProjectsHandler(r)
           \/ SignPreflightHandler(r) \/ ApprovalPreflightHandler(r)
    PROVE  IInv'
<1>1. UNCHANGED <<project, commands>>
  BY DEF ProjectHandler, ListProjectsHandler, SignPreflightHandler, ApprovalPreflightHandler
<1>2. ServiceOK' /\ ProjectsGrow  BY <1>1, ServiceSame
<1>3. r \in Request /\ Carries(r.kind, r.body)  BY DEF IInv, RequestOK
<1>4. project[r.project] \in Project /\ project[r.project].id = r.project
  BY <1>3 DEF IInv, ServiceOK, Request
<1>5. CASE ProjectHandler(r)
  BY <1>2, <1>4, <1>5, Answered DEF ProjectHandler, Brings, Past
<1>6. CASE ListProjectsHandler(r)
  BY <1>2, <1>6, Answered DEF ListProjectsHandler, Brings
<1>7. CASE SignPreflightHandler(r)
  <2>1. [key |-> r.body, errors |-> <<r.project, r.body>> \in Faulty] \in SignPreview
    BY <1>3, <1>7 DEF SignPreflightHandler, Carries, SignPreview
  <2> QED  BY <1>2, <1>7, <2>1, Answered DEF SignPreflightHandler, Brings
<1>8. CASE ApprovalPreflightHandler(r)
  <2>1. PreflightApproval(project[r.project]) \in ApprovalPreflight
    BY <1>4 DEF PreflightApproval, ApprovalPreflight, Project
  <2> QED  BY <1>2, <1>8, <2>1, Answered DEF ApprovalPreflightHandler, Brings
<1> QED  BY <1>5, <1>6, <1>7, <1>8

\* What a command makes of a project is its next revision.
LEMMA OutcomesGrow ==
    ASSUME NEW q \in Project, NEW plan \in Plans,
           NEW next \in Saved(q, plan) \cup Resolved(q, plan) \cup Validated(q) \cup Walked(q)
                            \cup Approved(q)
    PROVE  next \in Project /\ next.id = q.id /\ next.revision = q.revision + 1
<1>1. q.revision + 1 \in Nat  BY DEF Project
<1>2. ASSUME next \in Saved(q, plan)
      PROVE  next \in Project /\ next.id = q.id /\ next.revision = q.revision + 1
  <2>1. next = [q EXCEPT !.revision = @ + 1, !.signs = plan]  BY <1>2 DEF Saved
  <2> QED  BY <1>1, <2>1 DEF Project
<1>3. ASSUME NEW s \in Statuses, next = [q EXCEPT !.revision = @ + 1, !.status = s]
      PROVE  next \in Project /\ next.id = q.id /\ next.revision = q.revision + 1
  BY <1>1, <1>3 DEF Project
<1>4. CASE next \in Validated(q)
  <2>1. q.status \in Statuses  BY DEF Project
  <2>2. PICK s \in Statuses : next = [q EXCEPT !.revision = @ + 1, !.status = s]
    BY <1>4, <2>1 DEF Validated, Statuses
  <2> QED  BY <1>3, <2>2
<1>5. CASE next \in Walked(q)
  <2>1. PICK s \in Statuses : next = [q EXCEPT !.revision = @ + 1, !.status = s]
    BY <1>5 DEF Walked, Statuses
  <2> QED  BY <1>3, <2>1
<1>6. CASE next \in Approved(q)
  BY <1>3, <1>6 DEF Approved, Statuses
<1> QED  BY <1>2, <1>4, <1>5, <1>6 DEF Resolved

\* A project is replaced by its next revision.
LEMMA ServiceStep ==
    ASSUME IInv, NEW p \in Projects, NEW next \in Project, Accept,
           project' = [project EXCEPT ![p] = next],
           next.id = p, next.revision = project[p].revision + 1
    PROVE  ServiceOK' /\ ProjectsGrow
<1>1. project \in [Projects -> Project] /\ project[p].revision \in Nat
  BY DEF IInv, ServiceOK, Project
<1>2. \A x \in Projects : IF x = p THEN project'[x] = next ELSE project'[x] = project[x]
  BY <1>1
<1>3. commands' \in Nat  BY DEF Accept, IInv, ServiceOK
<1>4. ServiceOK'  BY <1>1, <1>2, <1>3 DEF ServiceOK, IInv
<1>5. ProjectsGrow  BY <1>1, <1>2 DEF ProjectsGrow
<1> QED  BY <1>4, <1>5

LEMMA CommandHandlers ==
    ASSUME IInv, NEW r \in requests,
           \/ ReplaceSignsHandler(r) \/ ResolveIssueHandler(r) \/ ValidateHandler(r)
           \/ WalkthroughHandler(r) \/ FreezePackageHandler(r)
    PROVE  IInv'
<1> DEFINE q == project[r.project]
<1>1. r \in Request /\ Carries(r.kind, r.body)  BY DEF IInv, RequestOK
<1>2. r.project \in Projects /\ q \in Project /\ q.id = r.project
  BY <1>1 DEF IInv, ServiceOK, Request
<1>3. PICK next \in Project :
          /\ project' = [project EXCEPT ![r.project] = next]
          /\ next.id = q.id /\ next.revision = q.revision + 1
          /\ Accept /\ Answer(r, None)
          /\ r.kind \in Mutations
  <2>1. CASE ReplaceSignsHandler(r)
    <3>1. r.body \in Plans  BY <1>1, <2>1 DEF ReplaceSignsHandler, Carries
    <3> QED  BY <1>2, <2>1, <3>1, OutcomesGrow DEF ReplaceSignsHandler, Apply, Mutations
  <2>2. CASE ResolveIssueHandler(r)
    <3>1. r.body \in Plans  BY <1>1, <2>2 DEF ResolveIssueHandler, Carries
    <3> QED  BY <1>2, <2>2, <3>1, OutcomesGrow DEF ResolveIssueHandler, Apply, Mutations
  <2>3. CASE ValidateHandler(r)
    BY <1>2, <2>3, OutcomesGrow DEF ValidateHandler, Apply, Mutations
  <2>4. CASE WalkthroughHandler(r)
    BY <1>2, <2>4, OutcomesGrow DEF WalkthroughHandler, Apply, Mutations
  <2>5. CASE FreezePackageHandler(r)
    BY <1>2, <2>5, OutcomesGrow DEF FreezePackageHandler, Apply, Mutations
  <2> QED  BY <2>1, <2>2, <2>3, <2>4, <2>5
<1>4. ServiceOK' /\ ProjectsGrow  BY <1>2, <1>3, ServiceStep
<1>5. Brings(r.kind, None) /\ r.kind # "project"  BY <1>3 DEF Brings, Mutations
<1> QED  BY <1>3, <1>4, <1>5, Answered

LEMMA OtherClientStep ==
    ASSUME IInv, NEW p \in Projects, OtherClient(p)
    PROVE  IInv'
<1>1. project[p] \in Project /\ project[p].id = p  BY DEF IInv, ServiceOK
<1>2. PICK next : /\ project' = [project EXCEPT ![p] = next]
                  /\ \/ next \in Validated(project[p]) \cup Walked(project[p])
                                     \cup Approved(project[p])
                     \/ \E plan \in Plans : next \in Saved(project[p], plan)
  BY DEF OtherClient
<1>3. next \in Project /\ next.id = p /\ next.revision = project[p].revision + 1
  BY <1>1, <1>2, OutcomesGrow
<1>4. Accept /\ UNCHANGED <<state, requests, answers, previewed, shown>>  BY DEF OtherClient
<1>5. ServiceOK' /\ ProjectsGrow  BY <1>2, <1>3, <1>4, ServiceStep
<1>6. GhostsOK' /\ WindowsGrow /\ state' \in [Windows -> Window]  BY <1>4, WindowsSame
<1> QED  BY <1>4, <1>5, <1>6, Together

LEMMA FailStep ==
    ASSUME IInv, Fail
    PROVE  IInv'
<1>1. UNCHANGED <<project, commands, state, previewed, shown>>  BY DEF Fail
<1>2. requests' \subseteq requests /\ answers' \subseteq answers  BY DEF Fail
<1>3. ServiceOK' /\ ProjectsGrow  BY <1>1, ServiceSame
<1>4. GhostsOK' /\ WindowsGrow /\ state' \in [Windows -> Window]  BY <1>1, WindowsSame
<1> QED  BY <1>1, <1>2, <1>3, <1>4, Together

-----------------------------------------------------------------------------
(* The answers. *)

LEMMA AnswerTyped ==
    ASSUME IInv, NEW a \in answers
    PROVE  AnswerOK(a) /\ a.window \in Windows /\ WindowOK(a.window)
BY DEF IInv, AnswerOK, Result

\* The answer goes into the window, and nothing is sent.
LEMMA WindowChanges ==
    ASSUME IInv, NEW w \in Windows, NEW new \in Window,
           UNCHANGED <<project, commands, requests>>, answers' \subseteq answers,
           state' = [state EXCEPT ![w] = new],
           GhostsOK',
           \A u \in Windows : previewed[u] \subseteq previewed'[u] /\ shown[u] \subseteq shown'[u],
           Shows(w) => new.project # None,
           WindowOK(w)'
    PROVE  IInv'
<1>1. \A u \in Windows : IF u = w THEN state'[u] = new ELSE state'[u] = state[u]
  BY DEF IInv
<1>2. state' \in [Windows -> Window]  BY DEF IInv
<1>3. WindowsGrow  BY <1>1 DEF WindowsGrow, Shows
<1>4. ServiceOK' /\ ProjectsGrow  BY ServiceSame
<1> QED  BY <1>1, <1>2, <1>3, <1>4, Together

LEMMA LoadProjectStep ==
    ASSUME IInv, NEW a \in answers, LoadProject(a)
    PROVE  IInv'
<1> DEFINE w == a.window
           new == [project |-> a.body, signs |-> None, approval |-> None,
                   signsInput |-> Rendered(a.body)]
<1>1. AnswerOK(a) /\ w \in Windows  BY AnswerTyped
<1>2. a.body \in Project /\ Past(a.body)  BY <1>1 DEF AnswerOK, Brings, LoadProject
<1>3. a.body # None  BY <1>2
<1>4. Rendered(a.body) \in Plans  BY <1>2 DEF Rendered, Project
<1>5. new \in Window  BY <1>2, <1>4 DEF Window
<1>6. /\ state' = [state EXCEPT ![w] = new]
      /\ UNCHANGED <<project, commands, requests, previewed, shown>>
      /\ answers' \subseteq answers
  BY DEF LoadProject, Take
<1>7. state'[w] = new  BY <1>1, <1>6 DEF IInv
<1>8. WindowOK(w)'
  <2>1. Past(a.body)'  BY <1>2, <1>6 DEF Past
  <2>2. /\ state'[w].project = a.body /\ state'[w].signs = None /\ state'[w].approval = None
    BY <1>7
  <2> QED  BY <1>2, <1>5, <1>7, <2>1, <2>2 DEF WindowOK, Shows, Past
<1>9. GhostsOK'  BY <1>6 DEF IInv, GhostsOK
<1> QED  BY <1>1, <1>3, <1>5, <1>6, <1>8, <1>9, WindowChanges

LEMMA ContinueSteps ==
    ASSUME IInv, NEW a \in answers, AfterMutation(a) \/ AfterList(a)
    PROVE  IInv'
<1> DEFINE w == a.window
<1>1. AnswerOK(a) /\ w \in Windows /\ a.connection \in Connections
  BY AnswerTyped DEF AnswerOK, Result
<1>2. Shows(w)  BY <1>1 DEF AnswerOK, AfterMutation, AfterList
<1>3. UNCHANGED <<project, commands, state, previewed, shown>>
  BY DEF AfterMutation, AfterList
<1>4. PICK kind \in {"projects", "project"} :
          SendOn(a.connection, w, kind, state[w].project.id, None)
  BY DEF AfterMutation, AfterList
<1>5. state[w].project.id \in Projects  BY <1>1, <1>2, ShownProject
<1>6. kind \in Reads \cup Mutations /\ kind \notin Mutations /\ Carries(kind, None)
        /\ kind # "signs" /\ kind # "freeze"
  BY DEF Reads, Mutations, Carries
<1>7. \A r \in requests' : r \in requests \/ RequestOK(r)'
  BY <1>1, <1>2, <1>3, <1>4, <1>5, <1>6, NewRequest
<1>8. answers' \subseteq answers  BY DEF AfterMutation, AfterList, Take
<1>9. ServiceOK' /\ ProjectsGrow  BY <1>3, ServiceSame
<1>10. GhostsOK' /\ WindowsGrow /\ state' \in [Windows -> Window]  BY <1>3, WindowsSame
<1> QED  BY <1>3, <1>7, <1>8, <1>9, <1>10, Together

LEMMA ShowSignPreviewStep ==
    ASSUME IInv, NEW a \in answers, ShowSignPreview(a)
    PROVE  IInv'
<1> DEFINE w == a.window
           new == [state[w] EXCEPT !.signs = a.body]
<1>1. AnswerOK(a) /\ w \in Windows /\ WindowOK(w)  BY AnswerTyped
<1>2. a.body \in SignPreview  BY <1>1 DEF AnswerOK, Brings, ShowSignPreview
<1>3. state[w] \in Window  BY <1>1 DEF WindowOK
<1>4. new \in Window /\ new.project = state[w].project /\ new.signs = a.body
        /\ new.approval = state[w].approval
  BY <1>2, <1>3 DEF Window
<1>5. /\ state' = [state EXCEPT ![w] = new]
      /\ UNCHANGED <<project, commands, requests, shown>>
      /\ answers' \subseteq answers
      /\ previewed' = [previewed EXCEPT ![w] =
                          @ \cup (IF a.body.errors THEN {} ELSE {a.body.key})]
  BY DEF ShowSignPreview, Take
<1>6. state'[w] = new  BY <1>1, <1>5 DEF IInv
<1>7. a.body.key \in Plans /\ previewed \in [Windows -> SUBSET Plans]
  BY <1>2 DEF SignPreview, IInv, GhostsOK
<1>8. GhostsOK'  BY <1>1, <1>5, <1>7 DEF IInv, GhostsOK
<1>9. /\ \A u \in Windows : previewed[u] \subseteq previewed'[u] /\ shown[u] \subseteq shown'[u]
      /\ ~a.body.errors => a.body.key \in previewed'[w]
  BY <1>1, <1>5, <1>7
<1>10. WindowOK(w)'
  BY <1>1, <1>4, <1>5, <1>6, <1>9 DEF WindowOK, Shows, Past
<1> QED  BY <1>1, <1>4, <1>5, <1>8, <1>9, <1>10, WindowChanges DEF Shows

LEMMA ShowApprovalStep ==
    ASSUME IInv, NEW a \in answers, ShowApproval(a)
    PROVE  IInv'
<1> DEFINE w == a.window
           new == [state[w] EXCEPT !.approval = a.body]
<1>1. AnswerOK(a) /\ w \in Windows /\ WindowOK(w)  BY AnswerTyped
<1>2. a.body \in ApprovalPreflight  BY <1>1 DEF AnswerOK, Brings, ShowApproval
<1>3. state[w] \in Window  BY <1>1 DEF WindowOK
<1>4. new \in Window /\ new.project = state[w].project /\ new.signs = state[w].signs
        /\ new.approval = a.body
  BY <1>2, <1>3 DEF Window
<1>5. /\ state' = [state EXCEPT ![w] = new]
      /\ UNCHANGED <<project, commands, requests, previewed>>
      /\ answers' \subseteq answers
      /\ shown' = [shown EXCEPT ![w] = @ \cup (IF a.body.blocked THEN {} ELSE {a.body})]
  BY DEF ShowApproval, Take
<1>6. state'[w] = new  BY <1>1, <1>5 DEF IInv
<1>7. shown \in [Windows -> SUBSET ApprovalPreflight]  BY DEF IInv, GhostsOK
<1>8. GhostsOK'  BY <1>1, <1>2, <1>5, <1>7 DEF IInv, GhostsOK
<1>9. /\ \A u \in Windows : previewed[u] \subseteq previewed'[u] /\ shown[u] \subseteq shown'[u]
      /\ ~a.body.blocked => a.body \in shown'[w]
  BY <1>1, <1>5, <1>7
<1>10. WindowOK(w)'
  BY <1>1, <1>4, <1>5, <1>6, <1>9 DEF WindowOK, Shows, Past
<1> QED  BY <1>1, <1>4, <1>5, <1>8, <1>9, <1>10, WindowChanges DEF Shows

-----------------------------------------------------------------------------
(* The theorems. *)

LEMMA InitInv ==
    ASSUME Init
    PROVE  IInv
<1>1. project \in [Projects -> Project] /\ \A p \in Projects : project[p].id = p
  <2>1. \A p \in Projects : Unsigned(p) \in Project /\ Unsigned(p).id = p
    BY DEF Unsigned, Project, Statuses
  <2>2. \A p \in Projects, status \in {"ready_for_walkthrough", "ready_for_approval"} :
            Signed(p, status) \in Project /\ Signed(p, status).id = p
    BY DEF Signed, Project, Statuses
  <2>3. CASE project = [p \in Projects |-> Unsigned(p)]  BY <2>1, <2>3
  <2>4. ASSUME NEW status \in {"ready_for_walkthrough", "ready_for_approval"},
               project = [p \in Projects |-> Signed(p, status)]
        PROVE  project \in [Projects -> Project] /\ \A p \in Projects : project[p].id = p
    BY <2>2, <2>4
  <2> QED  BY <2>3, <2>4 DEF Init
<1>2. Opened \in Window /\ Opened.project = None /\ Opened.signs = None
        /\ Opened.approval = None
  BY DEF Opened, Window
<1>3. state = [w \in Windows |-> Opened]  BY DEF Init
<1>4. \A w \in Windows : WindowOK(w)  BY <1>2, <1>3 DEF WindowOK, Shows
<1> QED  BY <1>1, <1>2, <1>3, <1>4 DEF Init, IInv, ServiceOK, GhostsOK

LEMMA StepInv ==
    ASSUME IInv, [Next]_vars
    PROVE  IInv'
<1>1. CASE UNCHANGED vars
  <2>1. UNCHANGED <<project, commands, state, requests, answers, previewed, shown>>
    BY <1>1 DEF vars
  <2>2. ServiceOK' /\ ProjectsGrow  BY <2>1, ServiceSame
  <2>3. GhostsOK' /\ WindowsGrow /\ state' \in [Windows -> Window]  BY <2>1, WindowsSame
  <2> QED  BY <2>1, <2>2, <2>3, Together
<1>2. CASE \E w \in Windows :
              \/ \E p \in Projects : OpenProject(w, p)
              \/ \E plan \in Plans : TypeSigns(w, plan)
              \/ SaveSigns(w) \/ ResolveIssue(w) \/ ValidateRules(w) \/ SubmitWalkthrough(w)
              \/ AskApproval(w) \/ ConfirmFreeze(w)
  BY <1>2, OpenProjectStep, TypeSignsStep, SaveSignsStep, CommandSteps, ConfirmFreezeStep
<1>3. CASE \E r \in requests :
              \/ ProjectHandler(r) \/ ListProjectsHandler(r)
              \/ SignPreflightHandler(r) \/ ApprovalPreflightHandler(r)
              \/ ReplaceSignsHandler(r) \/ ResolveIssueHandler(r) \/ ValidateHandler(r)
              \/ WalkthroughHandler(r) \/ FreezePackageHandler(r)
  BY <1>3, ReadHandlers, CommandHandlers
<1>4. CASE Fail  BY <1>4, FailStep
<1>5. CASE \E p \in Projects : OtherClient(p)  BY <1>5, OtherClientStep
<1>6. CASE \E a \in answers :
              \/ LoadProject(a) \/ AfterMutation(a) \/ AfterList(a)
              \/ ShowSignPreview(a) \/ ShowApproval(a)
  BY <1>6, LoadProjectStep, ContinueSteps, ShowSignPreviewStep, ShowApprovalStep
<1> QED  BY <1>1, <1>2, <1>3, <1>4, <1>5, <1>6 DEF Next

LEMMA InvAlways == Spec => []IInv
<1>1. Init => IInv  BY InitInv
<1>2. IInv /\ [Next]_vars => IInv'  BY StepInv
<1> QED  BY <1>1, <1>2, PTL DEF Spec

\* The variables keep their types, whatever is clicked, answered late or lost.
THEOREM TypeCorrect == Spec => []TypeOK
<1>1. ASSUME IInv PROVE TypeOK
  <2>1. \A r \in requests : r \in Request /\ Carries(r.kind, r.body)
            /\ (r.kind \in Mutations => r.view # None /\ r.view.id = r.project)
    BY <1>1 DEF IInv, RequestOK
  <2>2. \A a \in answers : a \in Result /\ Brings(a.kind, a.body)
    BY <1>1 DEF IInv, AnswerOK
  <2> QED  BY <1>1, <2>1, <2>2 DEF TypeOK, IInv, ServiceOK, GhostsOK
<1> QED  BY <1>1, InvAlways, PTL

\* Signs are saved from a window only after a preview of the very text.
THEOREM PreviewedFirst == Spec => []PreviewBeforeSave
<1>1. IInv => PreviewBeforeSave  BY DEF IInv, RequestOK, PreviewBeforeSave
<1> QED  BY <1>1, InvAlways, PTL

\* A step that handles a request and changes its project is a command.
LEMMA EffectIsCommand ==
    ASSUME IInv, Next, NEW r \in requests \ requests', project'[r.project] # project[r.project]
    PROVE  /\ r.view \in Project /\ r.view.id = r.project /\ Past(r.view)
           /\ Current(r)
           /\ r.kind = "freeze" => FreezePackageHandler(r)
<1>1. project' # project /\ r \in requests /\ r \notin requests'  OBVIOUS
<1>2. \/ ReplaceSignsHandler(r) \/ ResolveIssueHandler(r) \/ ValidateHandler(r)
      \/ WalkthroughHandler(r) \/ FreezePackageHandler(r)
  <2>1. \A w \in Windows :
            /\ \A p \in Projects : ~OpenProject(w, p)
            /\ \A plan \in Plans : ~TypeSigns(w, plan)
            /\ ~SaveSigns(w) /\ ~ResolveIssue(w) /\ ~ValidateRules(w) /\ ~SubmitWalkthrough(w)
            /\ ~AskApproval(w) /\ ~ConfirmFreeze(w)
    BY <1>1 DEF OpenProject, TypeSigns, SaveSigns, ResolveIssue, ValidateRules,
           SubmitWalkthrough, AskApproval, ConfirmFreeze
  <2>2. ~Fail /\ \A p \in Projects : ~OtherClient(p)
    BY <1>1 DEF Fail, OtherClient
  <2>3. \A a \in answers :
            /\ ~LoadProject(a) /\ ~AfterMutation(a) /\ ~AfterList(a)
            /\ ~ShowSignPreview(a) /\ ~ShowApproval(a)
    BY <1>1 DEF LoadProject, AfterMutation, AfterList, ShowSignPreview, ShowApproval
  <2>4. PICK x \in requests :
            \/ ProjectHandler(x) \/ ListProjectsHandler(x)
            \/ SignPreflightHandler(x) \/ ApprovalPreflightHandler(x)
            \/ ReplaceSignsHandler(x) \/ ResolveIssueHandler(x) \/ ValidateHandler(x)
            \/ WalkthroughHandler(x) \/ FreezePackageHandler(x)
    BY <2>1, <2>2, <2>3 DEF Next
  <2>5. \/ ReplaceSignsHandler(x) \/ ResolveIssueHandler(x) \/ ValidateHandler(x)
        \/ WalkthroughHandler(x) \/ FreezePackageHandler(x)
    BY <1>1, <2>4 DEF ProjectHandler, ListProjectsHandler, SignPreflightHandler,
           ApprovalPreflightHandler
  <2>6. requests' = requests \ {x}
    BY <2>5 DEF ReplaceSignsHandler, ResolveIssueHandler, ValidateHandler, WalkthroughHandler,
           FreezePackageHandler, Apply, Answer
  <2>7. x = r  BY <1>1, <2>6
  <2> QED  BY <2>5, <2>7
<1>3. Current(r) /\ r.kind \in Mutations /\ (r.kind = "freeze" => FreezePackageHandler(r))
  BY <1>2 DEF ReplaceSignsHandler, ResolveIssueHandler, ValidateHandler, WalkthroughHandler,
         FreezePackageHandler, Apply, Mutations
<1> QED  BY <1>3 DEF IInv, RequestOK

\* A command takes effect only on the project as the window showed it.
THEOREM ActsOnTheShown == Spec => ActsOnWhatIsShown
<1>1. ASSUME IInv, [Next]_vars
      PROVE  [\A r \in requests \ requests' :
                 project'[r.project] # project[r.project] => r.view = project[r.project]]_vars
  <2>1. SUFFICES ASSUME Next, NEW r \in requests \ requests',
                        project'[r.project] # project[r.project]
                 PROVE  r.view = project[r.project]
    BY <1>1
  <2>2. r.view \in Project /\ r.view.id = r.project /\ Past(r.view) /\ Current(r)
    BY <1>1, <2>1, EffectIsCommand
  <2>3. r.view.revision = project[r.project].revision /\ r.view.revision \in Nat
    BY <2>2 DEF Current, Project
  <2> QED  BY <2>2, <2>3 DEF Past
<1> QED  BY <1>1, InvAlways, PTL DEF Spec, ActsOnWhatIsShown

\* A window freezes only what its user saw in an approval preflight.
THEOREM FreezesTheShown == Spec => FreezesWhatWasShown
<1>1. ASSUME IInv, [Next]_vars
      PROVE  [\A r \in requests \ requests' :
                 r.kind = "freeze" /\ project'[r.project] # project[r.project] =>
                     PreflightApproval(project[r.project]) \in shown[r.window]]_vars
  <2>1. SUFFICES ASSUME Next, NEW r \in requests \ requests', r.kind = "freeze",
                        project'[r.project] # project[r.project]
                 PROVE  PreflightApproval(project[r.project]) \in shown[r.window]
    BY <1>1
  <2> DEFINE now == PreflightApproval(project[r.project])
  <2>2. FreezePackageHandler(r)  BY <1>1, <2>1, EffectIsCommand
  <2>3. SameCandidate(r.body, now) /\ ~now.blocked
    BY <2>2 DEF FreezePackageHandler, Apply, Approved, PreflightApproval
  <2>4. r.body \in ApprovalPreflight /\ ~r.body.blocked /\ r.body \in shown[r.window]
    BY <1>1, <2>1 DEF IInv, RequestOK, Carries
  <2>5. r.body = now
    BY <2>3, <2>4 DEF SameCandidate, ApprovalPreflight, PreflightApproval
  <2> QED  BY <2>4, <2>5
<1> QED  BY <1>1, InvAlways, PTL DEF Spec, FreezesWhatWasShown
=============================================================================
