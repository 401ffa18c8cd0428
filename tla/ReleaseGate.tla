------------------------------ MODULE ReleaseGate ------------------------------
(***************************************************************************)
(* The life of one project, from draft to frozen installation package:     *)
(* the mutations of internal/application/project_ops.go and review_ops.go  *)
(* on the LayoutProject of internal/domain.  Each action is one accepted   *)
(* command, the whole mutate function; a command the code refuses leaves   *)
(* the project as it is and is a stuttering step here.                     *)
(*                                                                         *)
(* Commands on one project never overlap (see Coordinator), so one action  *)
(* is one atomic step.                                                     *)
(***************************************************************************)
EXTENDS SurveySearch

CONSTANTS Actors, NoActor,   \* people who send commands
          Surveys, NoSurvey, \* baselines a FreezeBaseline command may carry
          Plans,             \* sign lists a ReplaceSigns command may carry
          Repairs,           \* updated signs a ResolveIssue command may carry
          NoPackage,
          Moments, NoMoment, \* what the clock may say
          MaxSignsRevision,  \* bound on signs_revision
          MaxEvidence,       \* bound on evidence versions of an issue
          MaxRounds          \* bound on walkthrough rounds

ASSUME ActorAssumption == NoActor \notin Actors
ASSUME SurveyAssumption ==
    /\ NoSurvey \notin Surveys
    /\ \A g \in Surveys : g \in SurveyGraph /\ IsFlagMap(g.accessibleEdgeFlags)
ASSUME MomentAssumption == NoMoment \notin Moments
ASSUME PlanAssumption == Plans \cup Repairs \subseteq Seq(SignProposal)
ASSUME BoundAssumption ==
    MaxSignsRevision \in Nat /\ MaxEvidence \in Nat /\ MaxRounds \in Nat

VARIABLES
    status, designer, reviewer,
    survey, signs, signsRevision,
    validatedAt,             \* last_validated_at
    validatedSignsRevision,
    issues,                  \* per rule and node, the issues with that id, in order
    walkthroughs,
    walkthroughRoute, walkthroughRemediated,
    package

vars == <<status, designer, reviewer, survey, signs, signsRevision, validatedAt,
          validatedSignsRevision, issues, walkthroughs, walkthroughRoute,
          walkthroughRemediated, package>>

Statuses == {"draft", "baseline_frozen", "needs_remediation", "ready_for_walkthrough",
             "walkthrough_failed", "ready_for_approval", "frozen"}

\* "absent" is a project that does not exist yet.
allowed == [absent                |-> {"draft"},
            draft                 |-> {"baseline_frozen"},
            baseline_frozen       |-> {"needs_remediation", "ready_for_walkthrough"},
            needs_remediation     |-> {"needs_remediation", "ready_for_walkthrough"},
            ready_for_walkthrough |-> {"walkthrough_failed", "ready_for_approval"},
            walkthrough_failed    |-> {"needs_remediation", "ready_for_walkthrough",
                                       "ready_for_approval"},
            ready_for_approval    |-> {"frozen", "walkthrough_failed"},
            frozen                |-> {}]

Transition(next) == next \in allowed[status] /\ status' = next

EvidenceVersion == [signRevision : Nat, valid : BOOLEAN, closed : BOOLEAN]
ValidationIssue == [status : {"open", "resolved"}, history : Seq(EvidenceVersion)]
WalkthroughReview == [reviewer : Actors, checkpoints : SUBSET NodeIDs,
                      failed : SUBSET NodeIDs, targeted : BOOLEAN,
                      signRevision : Nat, signed : BOOLEAN]

IssueTable == [IssueKeys -> Seq(ValidationIssue)]
NewIssue == [status |-> "open", history |-> <<>>]

HasOpen(table) == \E k \in IssueKeys : \E i \in DOMAIN table[k] : table[k][i].status = "open"

HasEvidence(issue) == issue.history # <<>>
Latest(issue) == issue.history[Len(issue.history)]

\* The latest evidence version was not invalidated (an issue has a resolution
\* text exactly when it has an evidence version).
Eligible(issue) == HasEvidence(issue) /\ Latest(issue).valid

WithLatest(issue, version) == [issue EXCEPT !.history[Len(issue.history)] = version]

-----------------------------------------------------------------------------
(* The walkthrough route. *)

LastReview == walkthroughs[Len(walkthroughs)]
Failed(review) == review.failed # {}
Targeted == walkthroughs # <<>> /\ Failed(LastReview)

\* Mutation: every round visits the whole route again.
RouteAfterWhole(reviews) == NodesOf(survey)

RouteAfter(reviews) ==
    IF reviews # <<>> /\ Failed(reviews[Len(reviews)])
    THEN NodesOf(survey) \cap reviews[Len(reviews)].failed
    ELSE NodesOf(survey)
ExpectedWalkthroughRoute == RouteAfter(walkthroughs)

TargetedRemediationComplete ==
    /\ walkthroughs # <<>>
    /\ LastReview.failed \subseteq walkthroughRemediated

-----------------------------------------------------------------------------
(* What a change of signs does, in ReplaceSigns and in ResolveIssue. *)

\* Mutation: the evidence is invalidated and the issue stays resolved.
InvalidatedIssueNotReopened(issue) ==
    IF Eligible(issue)
    THEN WithLatest(issue, [Latest(issue) EXCEPT !.valid = FALSE])
    ELSE issue

\* Mutation: a status of its own for issues to confirm again.
InvalidatedIssuePending(issue) ==
    IF Eligible(issue)
    THEN [WithLatest(issue, [Latest(issue) EXCEPT !.valid = FALSE]) EXCEPT !.status = "pending"]
    ELSE issue

InvalidatedIssue(issue) ==
    IF Eligible(issue)
    THEN [WithLatest(issue, [Latest(issue) EXCEPT !.valid = FALSE]) EXCEPT !.status = "open"]
    ELSE issue

Affected(g, key, old, new) ==
    \/ key.node \in ChangedNodes(old, new)
    \/ ImpactDestinations(g, key) \cap ChangedDestinations(old, new) # {}

InvalidateEvidence(table, old, new) ==
    [k \in IssueKeys |->
        IF table[k] # <<>> /\ Affected(survey, k, old, new)
        THEN [i \in DOMAIN table[k] |-> InvalidatedIssue(table[k][i])]
        ELSE table[k]]

MarkWalkthroughRemediation(old, new) ==
    IF Targeted
    THEN walkthroughRemediated \cup
           (LastReview.failed \cap (ChangedNodes(old, new) \cup ChangedDestinations(old, new)))
    ELSE walkthroughRemediated

\* The signs become those of plan.  A plan equal to the current one counts no
\* revision and, since nothing changed, touches no evidence and marks no
\* checkpoint.
InstallSigns(plan) ==
    LET candidate == normalizeLegacySigns(survey, plan)
    IN  /\ PreflightSigns(survey, candidate)
        /\ signs' = ToSet(candidate)
        /\ signsRevision' = IF signs' = signs THEN signsRevision ELSE signsRevision + 1
        /\ signsRevision' <= MaxSignsRevision
        /\ walkthroughRemediated' = MarkWalkthroughRemediation(signs, signs')

-----------------------------------------------------------------------------
(* Issue tables. *)

Copies(n, issue) == [i \in 1..n |-> issue]
Count(g, sgs, key) == Cardinality(Occurrences(g, sgs, key))

\* Mutation: a rule that fires starts from an issue without evidence.
MergeValidationIssuesAfresh(table) ==
    [k \in IssueKeys |->
        IF ~Fires(survey, signs, k) THEN table[k]
        ELSE Copies(Count(survey, signs, k), NewIssue)]

\* MergeValidationIssues: a rule that fires has one open issue for every
\* occurrence, all with the evidence of the last old one; others stay.
MergeValidationIssues(table) ==
    [k \in IssueKeys |->
        IF ~Fires(survey, signs, k) THEN table[k]
        ELSE IF table[k] = <<>> THEN Copies(Count(survey, signs, k), NewIssue)
        ELSE Copies(Count(survey, signs, k),
                    [table[k][Len(table[k])] EXCEPT !.status = "open"])]

\* Mutation: the evidence an issue is closed on is not marked closed.
ReverifiedIssueUnmarked(issue, firing) ==
    [issue EXCEPT !.status = IF Eligible(issue) /\ ~firing THEN "resolved" ELSE "open"]

ReverifiedIssue(issue, firing) ==
    IF Eligible(issue) /\ ~firing
    THEN [WithLatest(issue, [Latest(issue) EXCEPT !.closed = TRUE]) EXCEPT !.status = "resolved"]
    ELSE [issue EXCEPT !.status = "open"]

\* Mutation: only the issues already there are judged.
ReverifyKnownIssues(table) ==
    [k \in IssueKeys |->
        [i \in DOMAIN table[k] |-> ReverifiedIssue(table[k][i], Fires(survey, signs, k))]]

\* ReverifyIssues: old issues are judged one by one; a rule that fires and has
\* no issue yet gets a single one.
ReverifyIssues(table) ==
    [k \in IssueKeys |->
        IF table[k] = <<>> /\ Fires(survey, signs, k) THEN <<NewIssue>>
        ELSE [i \in DOMAIN table[k] |-> ReverifiedIssue(table[k][i], Fires(survey, signs, k))]]

\* AppendResolution finds an issue by its id: the first of those that share it.
AppendResolution(table, key, revision) ==
    [table EXCEPT ![key][1] =
        [status  |-> "open",
         history |-> Append(@.history,
                            [signRevision |-> revision, valid |-> TRUE, closed |-> FALSE])]]

-----------------------------------------------------------------------------
(* The package. *)

\* CanonicalPayload: everything but the status, the revision and the moments
\* of signature.  The moment of the last validation is part of it.
CanonicalPayload(reviews, approver) ==
    [survey                 |-> survey,
     signs                  |-> signs,
     signsRevision          |-> signsRevision,
     validatedSignsRevision |-> validatedSignsRevision,
     issues                 |-> issues,
     validatedAt            |-> validatedAt,
     walkthroughs           |-> [i \in DOMAIN reviews |-> [reviews[i] EXCEPT !.signed = FALSE]],
     approvedBy             |-> approver]

LastPassed(reviews) == reviews # <<>> /\ ~Failed(reviews[Len(reviews)])

\* PreflightApproval has no blocker.
PreflightApproval(approver) ==
    /\ status = "ready_for_approval"
    /\ ~HasOpen(issues)
    /\ LastPassed(walkthroughs)
    /\ approver = reviewer
    /\ approver # designer

\* The structure findings of VerifyPackageContent and, of its business findings,
\* those on signer, content and status.  The others compare what the freeze and
\* its commit wrote into two files (ids, source_revision, frozen_at): they are
\* Business in VerifyDeep.
VerifyPackageContent(pkg) ==
    LET cp == pkg.payload
    IN  /\ PreflightBaseline(cp.survey)
        /\ \A s, t \in cp.signs : s.id = t.id => s = t
        /\ \A s \in cp.signs : SignOK(cp.survey, s)
        /\ \A k \in IssueKeys : \A i \in DOMAIN cp.issues[k] :
              LET issue == cp.issues[k][i]
              IN  issue.status = "resolved" /\ Eligible(issue) /\ Latest(issue).closed
        /\ LastPassed(cp.walkthroughs)
        /\ cp.approvedBy # NoActor
        /\ pkg.approvedBy = reviewer
        /\ cp.approvedBy = pkg.approvedBy
        /\ cp = CanonicalPayload(walkthroughs, pkg.approvedBy)
        /\ status = "frozen"

-----------------------------------------------------------------------------
(* Commands. *)

Init ==
    /\ status = "absent"
    /\ designer = NoActor
    /\ reviewer = NoActor
    /\ survey = NoSurvey
    /\ signs = {}
    /\ signsRevision = 0
    /\ validatedAt = NoMoment
    /\ validatedSignsRevision = 0
    /\ issues = [k \in IssueKeys |-> <<>>]
    /\ walkthroughs = <<>>
    /\ walkthroughRoute = {}
    /\ walkthroughRemediated = {}
    /\ package = NoPackage

CreateProject(d, r) ==
    /\ Transition("draft")
    /\ d # r                                   \* ValidateIdentity
    /\ designer' = d
    /\ reviewer' = r
    /\ UNCHANGED <<survey, signs, signsRevision, validatedAt, validatedSignsRevision, issues,
                   walkthroughs, walkthroughRoute, walkthroughRemediated, package>>

FreezeBaseline(g) ==
    /\ status = "draft"
    /\ PreflightBaseline(g)
    /\ survey' = g
    /\ Transition("baseline_frozen")
    /\ UNCHANGED <<designer, reviewer, signs, signsRevision, validatedAt, validatedSignsRevision,
                   issues, walkthroughs, walkthroughRoute, walkthroughRemediated, package>>

\* Mutation: signs can be replaced until the package is frozen.
ReplaceSignsUntilFrozen(plan) ==
    /\ status \notin {"absent", "draft", "frozen"}
    /\ InstallSigns(plan)
    /\ issues' = InvalidateEvidence(issues, signs, signs')
    /\ status' = IF status = "walkthrough_failed" THEN "needs_remediation" ELSE status
    /\ UNCHANGED <<designer, reviewer, survey, validatedAt, validatedSignsRevision, walkthroughs,
                   walkthroughRoute, package>>

\* Any accepted save of the signs ends the walkthrough_failed status, one that
\* changes nothing included.
ReplaceSigns(plan) ==
    /\ status \in {"baseline_frozen", "needs_remediation", "walkthrough_failed"}
    /\ InstallSigns(plan)
    /\ issues' = InvalidateEvidence(issues, signs, signs')
    /\ status' = IF status = "walkthrough_failed" THEN "needs_remediation" ELSE status
    /\ UNCHANGED <<designer, reviewer, survey, validatedAt, validatedSignsRevision, walkthroughs,
                   walkthroughRoute, package>>

\* Mutation: a clean validation always leads to the walkthrough.
ValidateRestarting ==
    /\ status \notin {"absent", "frozen"}
    /\ signs # {}
    /\ issues' = MergeValidationIssues(issues)
    /\ validatedAt' \in Moments
    /\ validatedSignsRevision' = signsRevision
    /\ IF HasOpen(issues')
       THEN /\ status' = IF status = "baseline_frozen" THEN "needs_remediation" ELSE status
            /\ UNCHANGED walkthroughRoute
       ELSE /\ status' = "ready_for_walkthrough"
            /\ walkthroughRoute' = ExpectedWalkthroughRoute
    /\ UNCHANGED <<designer, reviewer, survey, signs, signsRevision, walkthroughs,
                   walkthroughRemediated, package>>

Validate ==
    /\ status \notin {"absent", "frozen"}
    /\ signs # {}
    /\ issues' = MergeValidationIssues(issues)
    /\ validatedAt' \in Moments
    /\ validatedSignsRevision' = signsRevision
    /\ IF HasOpen(issues')
       THEN /\ status' = IF status = "baseline_frozen" THEN "needs_remediation" ELSE status
            /\ UNCHANGED walkthroughRoute
       ELSE /\ status' = IF status \in {"baseline_frozen", "needs_remediation"}
                         THEN "ready_for_walkthrough" ELSE status
            /\ walkthroughRoute' = ExpectedWalkthroughRoute
    /\ UNCHANGED <<designer, reviewer, survey, signs, signsRevision, walkthroughs,
                   walkthroughRemediated, package>>

\* A resolution with text and evidence for the issues of key, with a new plan
\* or without one (an empty list of updated signs).
ResolveIssue(key, plan) ==
    /\ status \in {"needs_remediation", "walkthrough_failed"}
    /\ issues[key] # <<>>
    /\ Len(issues[key][1].history) < MaxEvidence
    /\ IF plan = <<>>
       THEN UNCHANGED <<signs, signsRevision, walkthroughRemediated>>
       ELSE InstallSigns(plan)
    /\ issues' = AppendResolution(InvalidateEvidence(issues, signs, signs'), key, signsRevision')
    /\ UNCHANGED <<status, designer, reviewer, survey, validatedAt, validatedSignsRevision,
                   walkthroughs, walkthroughRoute, package>>

Reverify ==
    /\ status \in {"needs_remediation", "walkthrough_failed"}
    /\ status = "walkthrough_failed" => TargetedRemediationComplete
    /\ issues' = ReverifyIssues(issues)
    /\ validatedSignsRevision' = signsRevision
    /\ IF HasOpen(issues')
       THEN UNCHANGED <<status, walkthroughRoute>>
       ELSE /\ Transition("ready_for_walkthrough")
            /\ walkthroughRoute' = ExpectedWalkthroughRoute
    /\ UNCHANGED <<designer, reviewer, survey, signs, signsRevision, validatedAt, walkthroughs,
                   walkthroughRemediated, package>>

\* Mutation: a clean validation of the current signs is enough.
TargetedRoundReadyClean ==
    /\ validatedSignsRevision = signsRevision
    /\ ~HasOpen(issues)

\* What a walkthrough that answers a failed one asks for first.
TargetedRoundReady ==
    /\ signsRevision > LastReview.signRevision
    /\ TargetedRemediationComplete
    /\ validatedSignsRevision = signsRevision
    /\ ~HasOpen(issues)

\* The submitted checkpoints are the expected route, in order; those of failed
\* were not visible or not correct and carry a note.
Walkthrough(actor, failed) ==
    /\ Targeted => TargetedRoundReady
    /\ actor = reviewer /\ actor # designer
    /\ status = "ready_for_walkthrough"
    /\ failed \subseteq ExpectedWalkthroughRoute
    /\ Len(walkthroughs) < MaxRounds
    /\ walkthroughs' = Append(walkthroughs,
            [reviewer |-> actor, checkpoints |-> ExpectedWalkthroughRoute, failed |-> failed,
             targeted |-> Targeted, signRevision |-> signsRevision, signed |-> FALSE])
    /\ IF failed # {}
       THEN /\ walkthroughRemediated' = {}
            /\ Transition("walkthrough_failed")
            /\ walkthroughRoute' = RouteAfter(walkthroughs')
       ELSE /\ Transition("ready_for_approval")
            /\ walkthroughRoute' = {}
            /\ UNCHANGED walkthroughRemediated
    /\ UNCHANGED <<designer, reviewer, survey, signs, signsRevision, validatedAt,
                   validatedSignsRevision, issues, package>>

\* The digest of the signed project must equal the one of the approval
\* preflight; it is compared after the package file is written.
FreezePackage(actor) ==
    /\ PreflightApproval(actor)
    /\ validatedAt # NoMoment                  \* SignApproval
    /\ walkthroughs' = [walkthroughs EXCEPT ![Len(walkthroughs)].signed = TRUE]
    /\ CanonicalPayload(walkthroughs', actor) = CanonicalPayload(walkthroughs, actor)
    /\ package' = [approvedBy |-> actor, payload |-> CanonicalPayload(walkthroughs', actor)]
    /\ Transition("frozen")
    /\ UNCHANGED <<designer, reviewer, survey, signs, signsRevision, validatedAt,
                   validatedSignsRevision, issues, walkthroughRoute, walkthroughRemediated>>

Next ==
    \/ \E d, r \in Actors : CreateProject(d, r)
    \/ status = "draft" /\ \E g \in Surveys : FreezeBaseline(g)   \* the guard first, for TLC
    \/ \E plan \in Plans : ReplaceSigns(plan)
    \/ Validate
    \/ \E key \in IssueKeys, plan \in Repairs \cup {<<>>} : ResolveIssue(key, plan)
    \/ Reverify
    \/ \E actor \in Actors, failed \in SUBSET NodeIDs : Walkthrough(actor, failed)
    \/ \E actor \in Actors : FreezePackage(actor)

Spec == Init /\ [][Next]_vars

-----------------------------------------------------------------------------
(* Properties. *)

\* Every variable has its type: accepted signs are proposals, every issue key
\* has a list of issues, reviews name actors and nodes.
TypeOK ==
    /\ status \in Statuses \cup {"absent"}
    /\ designer \in Actors \cup {NoActor}
    /\ reviewer \in Actors \cup {NoActor}
    /\ survey \in Surveys \cup {NoSurvey}
    /\ signs \subseteq SignProposal
    /\ signsRevision \in Nat
    /\ validatedAt \in Moments \cup {NoMoment}
    /\ validatedSignsRevision \in Nat
    /\ issues \in IssueTable
    /\ walkthroughs \in Seq(WalkthroughReview)
    /\ walkthroughRoute \subseteq AnyID
    /\ walkthroughRemediated \subseteq NodeIDs

\* What a project has reached at each status: a checked baseline once it left
\* draft, signs that satisfy the strict protocol whatever way they came in, a
\* validation and somewhere to go once it left baseline_frozen
\* (project_ops.go:67-140, service.go:224-234).
StatusMatchesProgress ==
    /\ survey # NoSurvey <=> status \notin {"absent", "draft"}
    /\ survey # NoSurvey => PreflightBaseline(survey)
    /\ survey = NoSurvey => signs = {}
    /\ IsFiniteSet(signs)
    /\ \A s \in signs : SignOK(survey, s) /\ \A t \in signs : s.id = t.id => s = t
    /\ status \notin {"absent", "draft", "baseline_frozen"} =>
          validatedAt # NoMoment /\ survey.destinationIDs # <<>>

Reviewing == status \in {"ready_for_walkthrough", "ready_for_approval", "frozen"}

\* From the walkthrough on, the signs are exactly those the rules were last run
\* on, no rule fires on them and no issue is open, although Validate stays
\* available and a later round is reached through edits, resolutions and
\* reverification in any order (project_ops.go:111-140, review_ops.go:36-58).
ReadyImpliesClean ==
    Reviewing =>
        /\ validatedAt # NoMoment
        /\ signs # {}
        /\ validatedSignsRevision = signsRevision
        /\ ~HasOpen(issues)
        /\ \A k \in IssueKeys : ~Fires(survey, signs, k)

\* An issue is resolved only on evidence that is current: the latest version
\* was not invalidated by a later change of the signs it concerns and is marked
\* closed (rules.go:117-221).
Backed(issue) == issue.status = "resolved" => Eligible(issue) /\ Latest(issue).closed
ResolvedHasCurrentEvidence ==
    \A k \in IssueKeys : \A i \in DOMAIN issues[k] : Backed(issues[k][i])

\* A missing-sign issue that is resolved stays satisfied by the current signs
\* even before they are validated again: the edit that breaks the rule also
\* reopens the issue (signs.go:143-161 with rules.go:138-162).
MissingSignRules == {"CONTINUITY", "DECISION_COVERAGE"}
ResolvedNodeRuleQuiet ==
    \A k \in IssueKeys : \A i \in DOMAIN issues[k] :
        k.rule \in MissingSignRules /\ issues[k][i].status = "resolved"
            => ~Fires(survey, signs, k)

\* A frozen baseline can break no accessibility or reachability rule, so the
\* issues of a project are always ones the designer can repair with signs
\* (preflight.go:74-93 against rules.go:47-71).
BaselineRulesQuiet ==
    survey # NoSurvey =>
        \A k \in IssueKeys :
            k.rule \in {"ACCESSIBLE_CONSISTENCY", "DESTINATION_REACHABILITY"}
                => ~Fires(survey, signs, k)

\* The loop that decides which baselines are accepted and the one that decides
\* whose evidence a change of signs invalidates agree on who reaches what: an
\* issue affects exactly the destinations that visitors who pass its node are
\* heading for (rules.go:94-111, impact.go:25-81).  A baseline does not change,
\* so it is enough to look at it once.
NewBaseline == status = "baseline_frozen" /\ signs = {} /\ validatedAt = NoMoment
ImpactIsReachability ==
    NewBaseline =>
        /\ ReachableIsReached(survey)
        /\ \A k \in IssueKeys :
              AnalyzeIssueImpact(survey, k).destinations = ImpactDestinations(survey, k)

\* The paths shown with an issue are walks a visitor can take, none shorter, and
\* a search without a result has seen everything there is (impact.go:55-81).
PathsAreShortest ==
    NewBaseline => \A a, b \in NodesOf(survey) : PathIsShortest(survey, a, b)

\* The rounds of walkthroughs: the first covers every node, each later one
\* exactly what failed before, on a strictly later revision of the signs
\* (walkthrough.go:24-40, review_ops.go:60-107).
RoundsAnswerFailures ==
    \A i \in DOMAIN walkthroughs :
        LET round == walkthroughs[i]
        IN  IF i = 1
            THEN round.checkpoints = NodesOf(survey) /\ ~round.targeted
            ELSE LET before == walkthroughs[i - 1]
                 IN  /\ Failed(before)
                     /\ round.targeted
                     /\ round.checkpoints = before.failed
                     /\ round.signRevision > before.signRevision

\* At approval every node of the baseline passed the last round that visited
\* it, and the last round was walked on the signs that are approved
\* (walkthrough.go:90-155, package.go:67-107).
EveryNodePassedAtApproval ==
    status \in {"ready_for_approval", "frozen"} =>
        /\ walkthroughs # <<>>
        /\ LastReview.signRevision = signsRevision
        /\ \A n \in NodesOf(survey) : \E i \in DOMAIN walkthroughs :
              /\ n \in walkthroughs[i].checkpoints \ walkthroughs[i].failed
              /\ \A j \in DOMAIN walkthroughs : j > i => n \notin walkthroughs[j].checkpoints

\* Whatever road led to the freeze, the deep verification has no structure
\* finding on the package: the parsed payload satisfies the strict preflights,
\* its issues have complete evidence, its last round passed; and it has the
\* signer and the content of the project, signature and freeze included
\* (package.go:94-107 against package.go:137-174 and 187-207).
FreezeThenVerify == status = "frozen" => VerifyPackageContent(package)

Extends(new, old) ==
    /\ Len(new) >= Len(old)
    /\ \A v \in DOMAIN old :
          /\ new[v].signRevision = old[v].signRevision
          /\ new[v].valid => old[v].valid
          /\ old[v].closed => new[v].closed

\* Evidence is a trail: no command removes a version, makes an invalidated one
\* valid again or takes a closing mark back (README.md:5, rules.go:117-250).  Only
\* a validation may, where issues share an id: it gives them all the evidence of
\* the last of them, and drops those the rule has no occurrence for.
EvidenceKept(k) ==
    /\ Len(issues'[k]) >= Len(issues[k])
    /\ \A i \in DOMAIN issues[k] : Extends(issues'[k][i].history, issues[k][i].history)
EvidenceIsATrail ==
    [][\A k \in IssueKeys : EvidenceKept(k) \/ (Validate /\ Len(issues[k]) > 1)]_vars

\* Nothing that was reviewed changes behind a walkthrough that passed: whatever
\* command follows, a validation included, survey, signs, both revisions, issues
\* with their evidence and rounds stay what they were, up to and after the
\* freeze.  A validation before the freeze does change the content, and with it
\* the candidate digest, but only by its moment; nothing else changes it
\* (project_ops.go:111-140, package.go:53-65).
Approved == status \in {"ready_for_approval", "frozen"}
Content == CanonicalPayload(walkthroughs, reviewer)
Reviewed == [Content EXCEPT !.validatedAt = NoMoment]
ApprovalKeepsContent ==
    [][Approved =>
        /\ Approved'
        /\ Reviewed' = Reviewed
        /\ Content' # Content => Validate /\ status = "ready_for_approval"]_vars

-----------------------------------------------------------------------------
(* What all of this is for. *)

PlanOK(g, S) == \A s \in S : SignOK(g, s) /\ \A t \in S : s.id = t.id => s = t
RulesQuiet(g, S) == S # {} /\ \A k \in IssueKeys : ~Fires(g, S, k)

phase == CASE status = "ready_for_walkthrough" -> "walking"
           [] status = "ready_for_approval"    -> "approved"
           [] status = "frozen"                -> "released"
           [] OTHER                            -> "editing"

walker == IF walkthroughs = <<>> THEN NoActor ELSE LastReview.reviewer
toPass == IF walkthroughs # <<>> THEN LastReview.failed
          ELSE IF survey # NoSurvey THEN NodesOf(survey) ELSE {}
untouched == IF Targeted THEN LastReview.failed \ walkthroughRemediated ELSE {}
Touches(old, new) == ChangedNodes(old, new) \cup ChangedDestinations(old, new)
released == IF status # "frozen" THEN NoPackage
            ELSE [survey |-> package.payload.survey, plan |-> package.payload.signs,
                  by     |-> package.approvedBy]

Promise == INSTANCE ReleasePromise WITH
    SurveyOK <- PreflightBaseline, PlacesOf <- NodesOf, Clean <- RulesQuiet,
    Nobody <- NoActor, NoRelease <- NoPackage, plan <- signs

\* The commands keep the promise: whatever is validated, resolved, reverified and
\* walked in whatever order, a place that failed is walked again only after an
\* edit touched it, and the released package is the clean plan that passed (README.md:3-5,
\* project_ops.go:67-140, review_ops.go:12-144).
IsReleasePromise == Promise!Spec

-----------------------------------------------------------------------------
(* What the documentation and the tests say of the program, and the code does *)
(* not do.                                                                    *)

\* "没有关联标识整改时不得取得定向复验资格" (service_test.go:143): a project is
\* ready for a targeted walkthrough only after its failed checkpoints were
\* remediated.
TargetedOnlyAfterRemediation ==
    status = "ready_for_walkthrough" /\ Targeted => TargetedRemediationComplete

\* "规则通过且证据完整后应关闭" (rules_test.go:47): an issue whose rule is
\* satisfied and whose evidence was submitted is closed by reverification.
AnsweredIssuesClose ==
    [][Reverify =>
        \A k \in IssueKeys :
            issues[k] # <<>> /\ ~Fires(survey, signs, k) /\ Eligible(issues[k][1])
                => \A i \in DOMAIN issues'[k] : issues'[k][i].status = "resolved"]_vars
=============================================================================
