--------------------------- MODULE ReleaseGateProofs ---------------------------
(***************************************************************************)
(* Theorems about ReleaseGate, for every set of surveys and plans.          *)
(***************************************************************************)
EXTENDS ReleaseGate, SurveySearchProofs

-----------------------------------------------------------------------------
(* Surveys, signs and rules. *)

\* The lists of a survey are finite and its nodes are node identifiers.
LEMMA SurveyLists ==
    ASSUME NEW g \in SurveyGraph
    PROVE  /\ IsFiniteSet(DOMAIN g.nodes) /\ IsFiniteSet(DOMAIN g.edges)
           /\ IsFiniteSet(DOMAIN g.entranceIDs) /\ IsFiniteSet(DOMAIN g.destinationIDs)
           /\ ToSet(g.destinationIDs) \subseteq AnyID
           /\ NodesOf(g) \subseteq NodeIDs
<1>1. /\ g.nodes \in Seq([id : AnyID, kind : Kinds]) /\ g.edges \in Seq(Edge)
      /\ g.entranceIDs \in Seq(AnyID) /\ g.destinationIDs \in Seq(AnyID)
  BY DEF SurveyGraph
<1>2. ToSet(g.nodes) \subseteq [id : AnyID, kind : Kinds]
  BY <1>1, ListFinite
<1>3. NodesOf(g) \subseteq NodeIDs
  BY <1>2 DEF NodesOf, AnyID
<1> QED BY <1>1, <1>3, ListFinite

\* A rule has finitely many occurrences, so counting them is meaningful.
LEMMA OccurrencesFinite ==
    ASSUME NEW g \in SurveyGraph, NEW S, IsFiniteSet(S), NEW key \in IssueKeys
    PROVE  IsFiniteSet(Occurrences(g, S, key))
<1> DEFINE E == DOMAIN g.edges
           D == (DOMAIN g.entranceIDs) \X (DOMAIN g.edges)
<1>1. /\ IsFiniteSet(E) /\ IsFiniteSet(D) /\ IsFiniteSet(DOMAIN g.nodes)
      /\ IsFiniteSet(DOMAIN g.destinationIDs)
  BY SurveyLists, FS_Product
<1>2. CASE key.rule = "CONTINUITY"
  <2>1. Occurrences(g, S, key) \in SUBSET D
    BY <1>2 DEF Occurrences
  <2> QED BY <2>1, <1>1, FS_Subset
<1>3. CASE key.rule = "DECISION_COVERAGE"
  <2>1. Occurrences(g, S, key) \in SUBSET DOMAIN g.nodes
    BY <1>3 DEF Occurrences
  <2> QED BY <2>1, <1>1, FS_Subset
<1>4. CASE key.rule = "ACCESSIBLE_CONSISTENCY"
  <2>1. Occurrences(g, S, key) \in SUBSET E
    BY <1>4 DEF Occurrences
  <2> QED BY <2>1, <1>1, FS_Subset
<1>5. CASE key.rule = "DUPLICATE_CONTENT"
  <2>1. Occurrences(g, S, key) \in SUBSET S
    BY <1>5 DEF Occurrences
  <2> QED BY <2>1, FS_Subset
<1>6. CASE key.rule = "DESTINATION_REACHABILITY"
  <2>1. Occurrences(g, S, key) \in SUBSET DOMAIN g.destinationIDs
    BY <1>6 DEF Occurrences
  <2> QED BY <2>1, <1>1, FS_Subset
<1> QED BY <1>2, <1>3, <1>4, <1>5, <1>6 DEF IssueKeys, RuleCodes

\* A rule that fires counts at least one occurrence.
LEMMA CountPositive ==
    ASSUME NEW g \in SurveyGraph, NEW S, IsFiniteSet(S), NEW key \in IssueKeys
    PROVE  /\ Count(g, S, key) \in Nat
           /\ Fires(g, S, key) => Count(g, S, key) >= 1
<1>1. IsFiniteSet(Occurrences(g, S, key))
  BY OccurrencesFinite
<1>2. Count(g, S, key) \in Nat
  BY <1>1, FS_CardinalityType DEF Count
<1>3. Fires(g, S, key) => Count(g, S, key) # 0
  BY <1>1, FS_EmptySet DEF Count, Fires
<1> QED BY <1>2, <1>3

\* Filling up a legacy request (service.go:224-234) gives sign proposals.
LEMMA LegacySigns ==
    ASSUME NEW g \in SurveyGraph, NEW plan \in Seq(SignProposal)
    PROVE  normalizeLegacySigns(g, plan) \in Seq(SignProposal)
<1>1. DOMAIN plan = 1..Len(plan) /\ Len(plan) \in Nat
  BY LenProperties
<1>2. ASSUME NEW i \in DOMAIN plan
      PROVE  normalizeLegacySigns(g, plan)[i] \in SignProposal
  <2>1. plan[i] \in SignProposal
    BY <1>1, ElementOfSeq
  <2>2. [plan[i] EXCEPT !.direction = "straight", !.dests = ToSet(g.destinationIDs)]
            \in SignProposal
    BY <2>1, SurveyLists DEF SignProposal, allowedDirections
  <2> QED BY <2>1, <2>2 DEF normalizeLegacySigns
<1>3. normalizeLegacySigns(g, plan) \in [1..Len(plan) -> SignProposal]
  BY <1>1, <1>2 DEF normalizeLegacySigns
<1> QED BY <1>1, <1>3, FunctionIsSeq

-----------------------------------------------------------------------------
(* Issue tables keep their type. *)

\* An issue with evidence has a latest version, and replacing it gives an issue.
LEMMA IssueFacts ==
    ASSUME NEW issue \in ValidationIssue, HasEvidence(issue)
    PROVE  /\ Len(issue.history) \in DOMAIN issue.history
           /\ Latest(issue) \in EvidenceVersion
           /\ \A v \in EvidenceVersion :
                /\ WithLatest(issue, v) \in ValidationIssue
                /\ WithLatest(issue, v).status = issue.status
                /\ HasEvidence(WithLatest(issue, v))
                /\ Latest(WithLatest(issue, v)) = v
<1>1. /\ issue.history \in Seq(EvidenceVersion) /\ issue.history # <<>>
      /\ issue = [status |-> issue.status, history |-> issue.history]
      /\ issue.status \in {"open", "resolved"}
  BY DEF ValidationIssue, HasEvidence
<1> DEFINE n == Len(issue.history)
<1>2. n \in 1..Len(issue.history) /\ DOMAIN issue.history = 1..n
  BY <1>1, EmptySeq, LenProperties
<1>3. Latest(issue) \in EvidenceVersion
  BY <1>1, <1>2, ElementOfSeq DEF Latest
<1>4. ASSUME NEW v \in EvidenceVersion
      PROVE  /\ WithLatest(issue, v) \in ValidationIssue
             /\ WithLatest(issue, v).status = issue.status
             /\ HasEvidence(WithLatest(issue, v))
             /\ Latest(WithLatest(issue, v)) = v
  <2> DEFINE h == [issue.history EXCEPT ![n] = v]
  <2>1. h \in Seq(EvidenceVersion) /\ Len(h) = n /\ h[n] = v
    BY <1>1, <1>2, ExceptSeq
  <2>2. h # <<>>
    BY <2>1, <1>2
  <2>3. WithLatest(issue, v) = [status |-> issue.status, history |-> h]
    BY <1>1 DEF WithLatest
  <2> HIDE DEF h
  <2> QED BY <1>1, <2>1, <2>2, <2>3 DEF ValidationIssue, HasEvidence, Latest
<1> QED BY <1>2, <1>3, <1>4

\* What an issue table holds under a key is a list of issues.
LEMMA TableEntry ==
    ASSUME NEW table \in IssueTable, NEW k \in IssueKeys
    PROVE  /\ table[k] \in Seq(ValidationIssue)
           /\ Len(table[k]) \in Nat
           /\ DOMAIN table[k] = 1..Len(table[k])
           /\ \A i \in DOMAIN table[k] : table[k][i] \in ValidationIssue
           /\ table[k] # <<>> => Len(table[k]) \in DOMAIN table[k] /\ 1 \in DOMAIN table[k]
<1>1. table[k] \in Seq(ValidationIssue)
  BY DEF IssueTable
<1>2. Len(table[k]) \in Nat /\ DOMAIN table[k] = 1..Len(table[k])
  BY <1>1, LenProperties
<1>3. \A i \in DOMAIN table[k] : table[k][i] \in ValidationIssue
  BY <1>1, <1>2, ElementOfSeq
<1> QED BY <1>1, <1>2, <1>3, EmptySeq

\* An invalidated issue is an issue, and is not resolved unless nothing was
\* invalidated (rules.go:138-162).
LEMMA InvalidatedIssueType ==
    ASSUME NEW issue \in ValidationIssue
    PROVE  /\ InvalidatedIssue(issue) \in ValidationIssue
           /\ InvalidatedIssue(issue).status = "resolved" =>
                 InvalidatedIssue(issue) = issue /\ ~Eligible(issue)
<1>1. CASE ~Eligible(issue)
  BY <1>1 DEF InvalidatedIssue
<1>2. CASE Eligible(issue)
  <2> DEFINE v == [Latest(issue) EXCEPT !.valid = FALSE]
  <2>1. HasEvidence(issue)
    BY <1>2 DEF Eligible
  <2>2. v \in EvidenceVersion
    BY <2>1, IssueFacts DEF EvidenceVersion
  <2>3. WithLatest(issue, v) \in ValidationIssue
    BY <2>1, <2>2, IssueFacts
  <2> HIDE DEF v
  <2>4. [WithLatest(issue, v) EXCEPT !.status = "open"] \in ValidationIssue
    BY <2>3 DEF ValidationIssue
  <2>5. [WithLatest(issue, v) EXCEPT !.status = "open"].status = "open"
    BY <2>3 DEF ValidationIssue
  <2> QED BY <1>2, <2>4, <2>5 DEF InvalidatedIssue, v
<1> QED BY <1>1, <1>2

\* InvalidateEvidence turns issue tables into issue tables.
LEMMA InvalidateType ==
    ASSUME NEW table \in IssueTable, NEW old, NEW new
    PROVE  InvalidateEvidence(table, old, new) \in IssueTable
<1> DEFINE touched(k) == [i \in DOMAIN table[k] |-> InvalidatedIssue(table[k][i])]
<1>1. ASSUME NEW k \in IssueKeys PROVE touched(k) \in Seq(ValidationIssue)
  <2>1. touched(k) \in [1..Len(table[k]) -> ValidationIssue]
    BY TableEntry, InvalidatedIssueType
  <2> QED BY <2>1, TableEntry, FunctionIsSeq
<1>2. ASSUME NEW k \in IssueKeys PROVE table[k] \in Seq(ValidationIssue)
  BY TableEntry
<1> QED BY <1>1, <1>2 DEF InvalidateEvidence, IssueTable

\* n copies of an issue are a list of n issues.
LEMMA CopiesType ==
    ASSUME NEW n \in Nat, NEW issue \in ValidationIssue
    PROVE  /\ Copies(n, issue) \in Seq(ValidationIssue)
           /\ Len(Copies(n, issue)) = n
           /\ \A i \in 1..n : Copies(n, issue)[i] = issue
<1>1. Copies(n, issue) \in [1..n -> ValidationIssue]
  BY DEF Copies
<1> QED BY <1>1, FunctionIsSeq DEF Copies

\* A new issue is an open issue.
LEMMA NewIssueType == NewIssue \in ValidationIssue /\ NewIssue.status = "open"
<1>1. <<>> \in Seq(EvidenceVersion)
  BY EmptySeq
<1> QED BY <1>1 DEF NewIssue, ValidationIssue

\* An issue put back to open is an open issue.
LEMMA ReopenedType ==
    ASSUME NEW issue \in ValidationIssue
    PROVE  /\ [issue EXCEPT !.status = "open"] \in ValidationIssue
           /\ [issue EXCEPT !.status = "open"].status = "open"
  BY DEF ValidationIssue

\* Reverification leaves an issue open while its rule fires and closes it on
\* valid evidence only (rules.go:164-221).
LEMMA ReverifiedIssueFacts ==
    ASSUME NEW issue \in ValidationIssue, NEW firing \in BOOLEAN
    PROVE  /\ ReverifiedIssue(issue, firing) \in ValidationIssue
           /\ firing => ReverifiedIssue(issue, firing).status = "open"
           /\ Backed(ReverifiedIssue(issue, firing))
<1>1. CASE ~(Eligible(issue) /\ ~firing)
  <2>1. ReverifiedIssue(issue, firing) = [issue EXCEPT !.status = "open"]
    BY <1>1 DEF ReverifiedIssue
  <2> QED BY <2>1, ReopenedType DEF Backed
<1>2. CASE Eligible(issue) /\ ~firing
  <2> DEFINE v == [Latest(issue) EXCEPT !.closed = TRUE]
             w == WithLatest(issue, v)
             x == [w EXCEPT !.status = "resolved"]
  <2>1. HasEvidence(issue) /\ Latest(issue).valid
    BY <1>2 DEF Eligible
  <2>2. v \in EvidenceVersion /\ v.valid /\ v.closed
    BY <2>1, IssueFacts DEF EvidenceVersion
  <2> HIDE DEF v
  <2>3. w \in ValidationIssue /\ HasEvidence(w) /\ Latest(w) = v
    BY <2>1, <2>2, IssueFacts
  <2> HIDE DEF w
  <2>4. x \in ValidationIssue /\ x.history = w.history
    BY <2>3 DEF ValidationIssue
  <2>5. HasEvidence(x) /\ Latest(x) = v
    BY <2>3, <2>4 DEF HasEvidence, Latest
  <2>6. ReverifiedIssue(issue, firing) = x
    BY <1>2 DEF ReverifiedIssue, v, w
  <2> HIDE DEF x
  <2> QED BY <1>2, <2>2, <2>4, <2>5, <2>6 DEF Backed, Eligible
<1> QED BY <1>1, <1>2

\* After ReverifyIssues every rule that fires has an open issue, and every
\* resolved issue has current, closed evidence (rules.go:164-221).
LEMMA ReverifyFacts ==
    ASSUME NEW table \in IssueTable
    PROVE  /\ ReverifyIssues(table) \in IssueTable
           /\ \A k \in IssueKeys :
                /\ Fires(survey, signs, k) =>
                     \E i \in DOMAIN ReverifyIssues(table)[k] :
                          ReverifyIssues(table)[k][i].status = "open"
                /\ \A i \in DOMAIN ReverifyIssues(table)[k] :
                     Backed(ReverifyIssues(table)[k][i])
<1> SUFFICES ASSUME NEW k \in IssueKeys
             PROVE  LET r == ReverifyIssues(table)[k]
                    IN  /\ r \in Seq(ValidationIssue)
                        /\ Fires(survey, signs, k) => \E i \in DOMAIN r : r[i].status = "open"
                        /\ \A i \in DOMAIN r : Backed(r[i])
  BY DEF ReverifyIssues, IssueTable
<1> DEFINE r == ReverifyIssues(table)[k]
           firing == Fires(survey, signs, k)
<1>1. CASE table[k] = <<>> /\ firing
  <2>1. r = <<NewIssue>>
    BY <1>1 DEF ReverifyIssues
  <2>2. r \in Seq(ValidationIssue) /\ DOMAIN r = {1} /\ r[1] = NewIssue
    BY <2>1, NewIssueType
  <2> QED BY <2>2, NewIssueType DEF Backed
<1>2. CASE ~(table[k] = <<>> /\ firing)
  <2>1. r = [i \in DOMAIN table[k] |-> ReverifiedIssue(table[k][i], firing)]
    BY <1>2 DEF ReverifyIssues
  <2>2. firing \in BOOLEAN
    BY DEF Fires
  <2> HIDE DEF r, firing
  <2>3. ASSUME NEW i \in DOMAIN table[k]
        PROVE  /\ r[i] \in ValidationIssue
               /\ firing => r[i].status = "open"
               /\ Backed(r[i])
    <3>1. table[k][i] \in ValidationIssue
      BY TableEntry
    <3> QED BY <2>1, <2>2, <3>1, ReverifiedIssueFacts
  <2>4. r \in [1..Len(table[k]) -> ValidationIssue]
    BY <2>1, <2>3, TableEntry
  <2>5. r \in Seq(ValidationIssue) /\ DOMAIN r = DOMAIN table[k]
    BY <2>4, TableEntry, FunctionIsSeq
  <2>6. firing => 1 \in DOMAIN r
    BY <1>2, <2>5, TableEntry
  <2> QED BY <2>3, <2>5, <2>6 DEF r, firing
<1> QED BY <1>1, <1>2

\* After MergeValidationIssues every rule that fires has an open issue, and no
\* issue became resolved (rules.go:223-250).
LEMMA MergeFacts ==
    ASSUME NEW table \in IssueTable, survey \in SurveyGraph, IsFiniteSet(signs)
    PROVE  /\ MergeValidationIssues(table) \in IssueTable
           /\ \A k \in IssueKeys :
                /\ Fires(survey, signs, k) =>
                     \E i \in DOMAIN MergeValidationIssues(table)[k] :
                          MergeValidationIssues(table)[k][i].status = "open"
                /\ ~Fires(survey, signs, k) => MergeValidationIssues(table)[k] = table[k]
                /\ (\A i \in DOMAIN table[k] : Backed(table[k][i])) =>
                     \A i \in DOMAIN MergeValidationIssues(table)[k] :
                          Backed(MergeValidationIssues(table)[k][i])
<1> SUFFICES ASSUME NEW k \in IssueKeys
             PROVE  LET r == MergeValidationIssues(table)[k]
                    IN  /\ r \in Seq(ValidationIssue)
                        /\ Fires(survey, signs, k) => \E i \in DOMAIN r : r[i].status = "open"
                        /\ ~Fires(survey, signs, k) => r = table[k]
                        /\ (\A i \in DOMAIN table[k] : Backed(table[k][i])) =>
                               \A i \in DOMAIN r : Backed(r[i])
  BY DEF MergeValidationIssues, IssueTable
<1> DEFINE r == MergeValidationIssues(table)[k]
           n == Count(survey, signs, k)
<1>1. CASE ~Fires(survey, signs, k)
  <2>1. r = table[k]
    BY <1>1 DEF MergeValidationIssues
  <2> QED BY <1>1, <2>1, TableEntry
<1>2. CASE Fires(survey, signs, k)
  <2>1. n \in Nat /\ n >= 1
    BY <1>2, CountPositive
  <2>2. PICK issue \in ValidationIssue : issue.status = "open" /\ r = Copies(n, issue)
    <3>1. CASE table[k] = <<>>
      BY <1>2, <3>1, NewIssueType DEF MergeValidationIssues
    <3>2. CASE table[k] # <<>>
      <4> DEFINE last == table[k][Len(table[k])]
      <4>1. last \in ValidationIssue
        BY <3>2, TableEntry
      <4>2. r = Copies(n, [last EXCEPT !.status = "open"])
        BY <1>2, <3>2 DEF MergeValidationIssues
      <4> HIDE DEF last
      <4> QED BY <4>1, <4>2, ReopenedType
    <3> QED BY <3>1, <3>2
  <2> HIDE DEF r, n
  <2>3. r \in Seq(ValidationIssue) /\ DOMAIN r = 1..n /\ \A i \in 1..n : r[i] = issue
    BY <2>1, <2>2, CopiesType, LenProperties
  <2>4. 1 \in DOMAIN r
    BY <2>1, <2>3
  <2> QED BY <1>2, <2>2, <2>3, <2>4 DEF Backed, r
<1> QED BY <1>1, <1>2

\* AppendResolution changes one issue, and that one is open afterwards
\* (rules.go:117-136).
LEMMA AppendFacts ==
    ASSUME NEW table \in IssueTable, NEW key \in IssueKeys, table[key] # <<>>, NEW rev \in Nat
    PROVE  /\ AppendResolution(table, key, rev) \in IssueTable
           /\ \A k \in IssueKeys : \A i \in DOMAIN AppendResolution(table, key, rev)[k] :
                 /\ i \in DOMAIN table[k]
                 /\ \/ AppendResolution(table, key, rev)[k][i] = table[k][i]
                    \/ AppendResolution(table, key, rev)[k][i].status = "open"
<1> DEFINE v == [signRevision |-> rev, valid |-> TRUE, closed |-> FALSE]
           x == [status |-> "open", history |-> Append(table[key][1].history, v)]
           s == [table[key] EXCEPT ![1] = x]
           r == AppendResolution(table, key, rev)
<1>1. 1 \in DOMAIN table[key] /\ table[key][1] \in ValidationIssue
      /\ DOMAIN table[key] = 1..Len(table[key]) /\ table[key] \in Seq(ValidationIssue)
  BY TableEntry
<1>2. v \in EvidenceVersion
  BY DEF EvidenceVersion
<1>3. x \in ValidationIssue /\ x.status = "open"
  <2>1. table[key][1].history \in Seq(EvidenceVersion)
    BY <1>1 DEF ValidationIssue
  <2>2. Append(table[key][1].history, v) \in Seq(EvidenceVersion)
    BY <1>2, <2>1
  <2> QED BY <2>2 DEF ValidationIssue
<1>4. r = [table EXCEPT ![key] = s]
  BY <1>1 DEF AppendResolution, IssueTable
<1> HIDE DEF x
<1>5. s \in Seq(ValidationIssue) /\ DOMAIN s = DOMAIN table[key]
      /\ \A i \in DOMAIN s : s[i] = IF i = 1 THEN x ELSE table[key][i]
  BY <1>1, <1>3, ExceptSeq, LenProperties
<1> HIDE DEF s, r
<1>6. r \in IssueTable
  BY <1>4, <1>5 DEF IssueTable
<1>7. ASSUME NEW k \in IssueKeys
      PROVE  r[k] = IF k = key THEN s ELSE table[k]
  BY <1>4 DEF IssueTable
<1> QED BY <1>3, <1>5, <1>6, <1>7 DEF r

-----------------------------------------------------------------------------
(* Type correctness. *)

\* Once a project left draft it has one of the surveys.
LEMMA KnownSurvey ==
    ASSUME TypeOK, StatusMatchesProgress, status \notin {"absent", "draft"}
    PROVE  survey \in Surveys /\ survey \in SurveyGraph /\ NodesOf(survey) \subseteq NodeIDs
<1>1. survey \in Surveys /\ survey \in SurveyGraph
  BY SurveyAssumption DEF TypeOK, StatusMatchesProgress
<1> QED BY <1>1, SurveyLists

\* The last review is a review of nodes.
LEMMA LastReviewType ==
    ASSUME TypeOK, walkthroughs # <<>>
    PROVE  /\ Len(walkthroughs) \in DOMAIN walkthroughs
           /\ LastReview \in WalkthroughReview
           /\ LastReview.failed \subseteq NodeIDs
<1>1. walkthroughs \in Seq(WalkthroughReview)
  BY DEF TypeOK
<1>2. Len(walkthroughs) \in 1..Len(walkthroughs) /\ DOMAIN walkthroughs = 1..Len(walkthroughs)
  BY <1>1, EmptySeq, LenProperties
<1>3. LastReview \in WalkthroughReview
  BY <1>1, <1>2, ElementOfSeq DEF LastReview
<1> QED BY <1>2, <1>3 DEF WalkthroughReview

\* A route consists of node identifiers.
LEMMA RouteType ==
    ASSUME TypeOK, StatusMatchesProgress, status \notin {"absent", "draft"}
    PROVE  \A reviews : RouteAfter(reviews) \subseteq NodeIDs
  BY KnownSurvey DEF RouteAfter

\* Accepted signs satisfy the strict protocol and are finite, with unique ids
\* (signs.go:52-110).
LEMMA InstallFacts ==
    ASSUME TypeOK, StatusMatchesProgress, status \notin {"absent", "draft"},
           NEW plan \in Plans \cup Repairs, InstallSigns(plan)
    PROVE  /\ signs' \subseteq SignProposal
           /\ IsFiniteSet(signs')
           /\ \A s \in signs' : SignOK(survey, s) /\ \A t \in signs' : s.id = t.id => s = t
           /\ signsRevision' \in Nat
           /\ walkthroughRemediated' \subseteq NodeIDs
<1> DEFINE c == normalizeLegacySigns(survey, plan)
<1>1. c \in Seq(SignProposal)
  BY KnownSurvey, PlanAssumption, LegacySigns
<1>2. PreflightSigns(survey, c) /\ signs' = ToSet(c)
  BY DEF InstallSigns
<1> HIDE DEF c
<1>3. signs' \subseteq SignProposal /\ IsFiniteSet(signs')
  BY <1>1, <1>2, ListFinite
<1>4. \A s \in signs' : SignOK(survey, s) /\ \A t \in signs' : s.id = t.id => s = t
  BY <1>2 DEF PreflightSigns, ToSet
<1>5. signsRevision' \in Nat
  BY DEF InstallSigns, TypeOK
<1>6. walkthroughRemediated' \subseteq NodeIDs
  <2>1. walkthroughRemediated \subseteq NodeIDs
    BY DEF TypeOK
  <2>2. Targeted => LastReview.failed \subseteq NodeIDs
    BY LastReviewType DEF Targeted
  <2> QED BY <2>1, <2>2 DEF InstallSigns, MarkWalkthroughRemediation
<1> QED BY <1>3, <1>4, <1>5, <1>6

\* The initial state has its type.
LEMMA InitType == Init => TypeOK /\ StatusMatchesProgress
<1> SUFFICES ASSUME Init PROVE TypeOK /\ StatusMatchesProgress
  OBVIOUS
<1>1. issues \in IssueTable
  BY EmptySeq DEF Init, IssueTable
<1>2. walkthroughs \in Seq(WalkthroughReview)
  BY EmptySeq DEF Init
<1>3. IsFiniteSet(signs)
  BY FS_EmptySet DEF Init
<1> QED BY <1>1, <1>2, <1>3 DEF Init, TypeOK, StatusMatchesProgress, Statuses

\* Every command keeps the types and what each status stands for.
LEMMA TypeStep ==
    TypeOK /\ StatusMatchesProgress /\ [Next]_vars => TypeOK' /\ StatusMatchesProgress'
<1> SUFFICES ASSUME TypeOK, StatusMatchesProgress, [Next]_vars
             PROVE  TypeOK' /\ StatusMatchesProgress'
  OBVIOUS
<1> USE DEF TypeOK, StatusMatchesProgress, Statuses
<1>1. ASSUME NEW d \in Actors, NEW r \in Actors, CreateProject(d, r)
      PROVE  TypeOK' /\ StatusMatchesProgress'
  BY <1>1 DEF CreateProject, Transition, allowed
<1>2. ASSUME NEW g \in Surveys, FreezeBaseline(g)
      PROVE  TypeOK' /\ StatusMatchesProgress'
  <2>1. survey = NoSurvey /\ signs = {}
    BY <1>2 DEF FreezeBaseline
  <2> QED BY <1>2, <2>1, SurveyAssumption DEF FreezeBaseline, Transition, allowed
<1>3. ASSUME NEW plan \in Plans, ReplaceSigns(plan)
      PROVE  TypeOK' /\ StatusMatchesProgress'
  <2>1. status \notin {"absent", "draft"} /\ InstallSigns(plan)
    BY <1>3 DEF ReplaceSigns
  <2>2. /\ signs' \subseteq SignProposal /\ IsFiniteSet(signs')
        /\ \A s \in signs' : SignOK(survey, s) /\ \A t \in signs' : s.id = t.id => s = t
        /\ signsRevision' \in Nat /\ walkthroughRemediated' \subseteq NodeIDs
    BY <2>1, InstallFacts
  <2>3. issues' \in IssueTable
    BY <1>3, InvalidateType DEF ReplaceSigns
  <2> QED BY <1>3, <2>1, <2>2, <2>3 DEF ReplaceSigns
<1>4. ASSUME Validate
      PROVE  TypeOK' /\ StatusMatchesProgress'
  <2>1. signs # {} /\ survey # NoSurvey /\ status \notin {"absent", "draft"}
    BY <1>4 DEF Validate
  <2>2. survey \in SurveyGraph
    BY <2>1, KnownSurvey
  <2>3. issues' \in IssueTable
    BY <1>4, <2>2, MergeFacts DEF Validate
  <2>4. ExpectedWalkthroughRoute \subseteq AnyID
    BY <2>1, RouteType DEF ExpectedWalkthroughRoute, AnyID
  <2>5. survey.destinationIDs # <<>>
    <3>1. PICK s \in signs : SignOK(survey, s)
      BY <2>1
    <3>2. ToSet(survey.destinationIDs) # {}
      BY <3>1 DEF SignOK
    <3> QED BY <3>2 DEF ToSet
  <2>6. /\ walkthroughRoute' \subseteq AnyID
        /\ status' \in Statuses /\ status' \notin {"absent", "draft"}
    BY <1>4, <2>1, <2>4 DEF Validate
  <2>7. validatedAt' \in Moments /\ validatedAt' # NoMoment
    BY <1>4, MomentAssumption DEF Validate
  <2> QED BY <1>4, <2>1, <2>3, <2>5, <2>6, <2>7 DEF Validate
<1>5. ASSUME NEW key \in IssueKeys, NEW plan \in Repairs \cup {<<>>}, ResolveIssue(key, plan)
      PROVE  TypeOK' /\ StatusMatchesProgress'
  <2>1. /\ signs' \subseteq SignProposal /\ IsFiniteSet(signs')
        /\ \A s \in signs' : SignOK(survey, s) /\ \A t \in signs' : s.id = t.id => s = t
        /\ signsRevision' \in Nat /\ walkthroughRemediated' \subseteq NodeIDs
    <3>1. CASE plan = <<>>
      BY <1>5, <3>1 DEF ResolveIssue
    <3>2. CASE plan # <<>>
      BY <1>5, <3>2, InstallFacts DEF ResolveIssue
    <3> QED BY <3>1, <3>2
  <2> DEFINE t == InvalidateEvidence(issues, signs, signs')
  <2>2. t \in IssueTable
    BY InvalidateType
  <2>3. t[key] # <<>>
    <3>1. issues[key] # <<>> /\ 1 \in DOMAIN issues[key]
      BY <1>5, TableEntry DEF ResolveIssue
    <3>2. DOMAIN t[key] = DOMAIN issues[key]
      BY DEF InvalidateEvidence
    <3> HIDE DEF t
    <3> QED BY <3>1, <3>2
  <2>4. issues' = AppendResolution(t, key, signsRevision')
    BY <1>5 DEF ResolveIssue
  <2> HIDE DEF t
  <2>5. issues' \in IssueTable
    BY <2>1, <2>2, <2>3, <2>4, AppendFacts
  <2> QED BY <1>5, <2>1, <2>5 DEF ResolveIssue
<1>6. ASSUME Reverify
      PROVE  TypeOK' /\ StatusMatchesProgress'
  <2>1. status \notin {"absent", "draft", "baseline_frozen"}
    BY <1>6 DEF Reverify
  <2>2. issues' \in IssueTable
    BY <1>6, ReverifyFacts DEF Reverify
  <2>3. ExpectedWalkthroughRoute \subseteq AnyID
    BY <2>1, RouteType DEF ExpectedWalkthroughRoute, AnyID
  <2>4. /\ walkthroughRoute' \subseteq AnyID
        /\ status' \in Statuses /\ status' \notin {"absent", "draft"}
    BY <1>6, <2>1, <2>3 DEF Reverify, Transition
  <2> QED BY <1>6, <2>1, <2>2, <2>4 DEF Reverify
<1>7. ASSUME NEW actor \in Actors, NEW failed \in SUBSET NodeIDs, Walkthrough(actor, failed)
      PROVE  TypeOK' /\ StatusMatchesProgress'
  <2>1. status = "ready_for_walkthrough"
    BY <1>7 DEF Walkthrough
  <2>2. /\ ExpectedWalkthroughRoute \subseteq NodeIDs
        /\ \A reviews : RouteAfter(reviews) \subseteq AnyID
    BY <2>1, RouteType DEF ExpectedWalkthroughRoute, AnyID
  <2> DEFINE w == [reviewer |-> actor, checkpoints |-> ExpectedWalkthroughRoute, failed |-> failed,
                   targeted |-> Targeted, signRevision |-> signsRevision, signed |-> FALSE]
  <2>3. w \in WalkthroughReview
    BY <2>2 DEF WalkthroughReview, Targeted
  <2>4. walkthroughs' = Append(walkthroughs, w)
    BY <1>7 DEF Walkthrough
  <2> HIDE DEF w
  <2>5. walkthroughs' \in Seq(WalkthroughReview)
    BY <2>3, <2>4
  <2>6. /\ walkthroughRoute' \subseteq AnyID /\ walkthroughRemediated' \subseteq NodeIDs
        /\ status' \in Statuses \ {"absent", "draft", "baseline_frozen"}
    BY <1>7, <2>2 DEF Walkthrough, Transition
  <2> QED BY <1>7, <2>1, <2>5, <2>6 DEF Walkthrough
<1>8. ASSUME NEW actor \in Actors, FreezePackage(actor)
      PROVE  TypeOK' /\ StatusMatchesProgress'
  <2>1. walkthroughs # <<>>
    BY <1>8 DEF FreezePackage, PreflightApproval, LastPassed
  <2> DEFINE n == Len(walkthroughs)
             w == [walkthroughs[n] EXCEPT !.signed = TRUE]
  <2>2. n \in 1..Len(walkthroughs) /\ w \in WalkthroughReview
    <3>1. n \in DOMAIN walkthroughs /\ walkthroughs[n] \in WalkthroughReview
      BY <2>1, LastReviewType DEF LastReview
    <3>2. DOMAIN walkthroughs = 1..Len(walkthroughs)
      BY LenProperties
    <3>3. w \in WalkthroughReview
      BY <3>1 DEF WalkthroughReview
    <3> QED BY <3>1, <3>2, <3>3
  <2>3. walkthroughs' = [walkthroughs EXCEPT ![n] = w]
    BY <1>8 DEF FreezePackage
  <2> HIDE DEF w
  <2>4. walkthroughs' \in Seq(WalkthroughReview)
    BY <2>2, <2>3, ExceptSeq
  <2>5. status' = "frozen" /\ status = "ready_for_approval"
    BY <1>8 DEF FreezePackage, Transition, PreflightApproval
  <2> QED BY <1>8, <2>4, <2>5 DEF FreezePackage
<1>9. ASSUME UNCHANGED vars
      PROVE  TypeOK' /\ StatusMatchesProgress'
  BY <1>9 DEF vars
<1> QED BY <1>1, <1>2, <1>3, <1>4, <1>5, <1>6, <1>7, <1>8, <1>9 DEF Next

\* Every command keeps the types of the project (types.go:132-153).
THEOREM TypeCorrect == Spec => []TypeOK
<1>1. Init => TypeOK /\ StatusMatchesProgress
  BY InitType
<1>2. TypeOK /\ StatusMatchesProgress /\ [Next]_vars => TypeOK' /\ StatusMatchesProgress'
  BY TypeStep
<1> QED BY <1>1, <1>2, PTL DEF Spec

\* A project has what its status stands for: a checked baseline, strict signs, a
\* validation (project_ops.go:67-140).
THEOREM ProgressMatches == Spec => []StatusMatchesProgress
<1>1. Init => TypeOK /\ StatusMatchesProgress
  BY InitType
<1>2. TypeOK /\ StatusMatchesProgress /\ [Next]_vars => TypeOK' /\ StatusMatchesProgress'
  BY TypeStep
<1> QED BY <1>1, <1>2, PTL DEF Spec

-----------------------------------------------------------------------------
(* Evidence behind every resolved issue. *)

\* InvalidateEvidence leaves no resolved issue without current evidence.
LEMMA InvalidateBacked ==
    ASSUME NEW table \in IssueTable, NEW old, NEW new,
           \A k \in IssueKeys : \A i \in DOMAIN table[k] : Backed(table[k][i])
    PROVE  \A k \in IssueKeys : \A i \in DOMAIN InvalidateEvidence(table, old, new)[k] :
              Backed(InvalidateEvidence(table, old, new)[k][i])
<1> SUFFICES ASSUME NEW k \in IssueKeys, NEW i \in DOMAIN InvalidateEvidence(table, old, new)[k]
             PROVE  Backed(InvalidateEvidence(table, old, new)[k][i])
  OBVIOUS
<1> DEFINE x == InvalidateEvidence(table, old, new)[k][i]
<1>1. i \in DOMAIN table[k] /\ (x = table[k][i] \/ x = InvalidatedIssue(table[k][i]))
  BY DEF InvalidateEvidence
<1>2. table[k][i] \in ValidationIssue /\ Backed(table[k][i])
  BY <1>1, TableEntry
<1> HIDE DEF x
<1>3. Backed(x)
  <2>1. x.status = "resolved" => x = table[k][i]
    BY <1>1, <1>2, InvalidatedIssueType
  <2>2. CASE x = table[k][i]
    BY <1>2, <2>2
  <2>3. CASE x.status # "resolved"
    BY <2>3 DEF Backed
  <2> QED BY <2>1, <2>2, <2>3
<1> QED BY <1>3 DEF x

\* No command leaves an issue resolved without current, closed evidence.
LEMMA BackedStep ==
    TypeOK /\ StatusMatchesProgress /\ ResolvedHasCurrentEvidence /\ [Next]_vars
        => ResolvedHasCurrentEvidence'
<1> SUFFICES ASSUME TypeOK, StatusMatchesProgress, ResolvedHasCurrentEvidence, [Next]_vars
             PROVE  ResolvedHasCurrentEvidence'
  OBVIOUS
<1>1. issues \in IssueTable
  BY DEF TypeOK
<1>2. CASE UNCHANGED issues
  BY <1>2 DEF ResolvedHasCurrentEvidence
<1>3. ASSUME NEW plan \in Plans, ReplaceSigns(plan)
      PROVE  ResolvedHasCurrentEvidence'
  BY <1>1, <1>3, InvalidateBacked DEF ReplaceSigns, ResolvedHasCurrentEvidence
<1>4. ASSUME Validate
      PROVE  ResolvedHasCurrentEvidence'
  <2>1. survey \in SurveyGraph /\ IsFiniteSet(signs)
    BY <1>4, KnownSurvey DEF Validate, StatusMatchesProgress
  <2> QED BY <1>1, <1>4, <2>1, MergeFacts DEF Validate, ResolvedHasCurrentEvidence
<1>5. ASSUME NEW key \in IssueKeys, NEW plan \in Repairs \cup {<<>>}, ResolveIssue(key, plan)
      PROVE  ResolvedHasCurrentEvidence'
  <2> DEFINE t == InvalidateEvidence(issues, signs, signs')
  <2>1. t \in IssueTable
    BY <1>1, InvalidateType
  <2>2. \A k \in IssueKeys : \A i \in DOMAIN t[k] : Backed(t[k][i])
    BY <1>1, InvalidateBacked DEF ResolvedHasCurrentEvidence
  <2>3. t[key] # <<>>
    <3>1. 1 \in DOMAIN issues[key]
      BY <1>1, <1>5, TableEntry DEF ResolveIssue
    <3>2. DOMAIN t[key] = DOMAIN issues[key]
      BY DEF InvalidateEvidence
    <3> HIDE DEF t
    <3> QED BY <3>1, <3>2
  <2>4. signsRevision' \in Nat
    BY TypeStep DEF TypeOK
  <2>5. issues' = AppendResolution(t, key, signsRevision')
    BY <1>5 DEF ResolveIssue
  <2> HIDE DEF t
  <2> QED BY <2>1, <2>2, <2>3, <2>4, <2>5, AppendFacts DEF ResolvedHasCurrentEvidence, Backed
<1>6. ASSUME Reverify
      PROVE  ResolvedHasCurrentEvidence'
  BY <1>1, <1>6, ReverifyFacts DEF Reverify, ResolvedHasCurrentEvidence
<1> QED BY <1>2, <1>3, <1>4, <1>5, <1>6
        DEF Next, vars, CreateProject, FreezeBaseline, Walkthrough, FreezePackage

\* No issue is ever resolved on evidence that a later sign change invalidated or
\* that was never closed.
THEOREM EvidenceBehindResolution == Spec => []ResolvedHasCurrentEvidence
<1>1. Init => TypeOK /\ StatusMatchesProgress /\ ResolvedHasCurrentEvidence
  BY InitType DEF Init, ResolvedHasCurrentEvidence
<1>2. TypeOK /\ StatusMatchesProgress /\ ResolvedHasCurrentEvidence /\ [Next]_vars
        => TypeOK' /\ StatusMatchesProgress' /\ ResolvedHasCurrentEvidence'
  BY TypeStep, BackedStep
<1> QED BY <1>1, <1>2, PTL DEF Spec

-----------------------------------------------------------------------------
(* Resolved issues about missing signs stay satisfied. *)

\* Without a baseline there are no issues.
NoIssuesInDraft == survey = NoSurvey => \A k \in IssueKeys : issues[k] = <<>>
QuietInv == ResolvedHasCurrentEvidence /\ ResolvedNodeRuleQuiet /\ NoIssuesInDraft

\* A rule about missing signs that comes to fire is one whose node has lost its
\* last sign.
LEMMA NodeRuleBreaks ==
    ASSUME NEW g, NEW old, NEW new, NEW k \in IssueKeys, k.rule \in MissingSignRules,
           ~Fires(g, old, k), Fires(g, new, k)
    PROVE  k.node \in ChangedNodes(old, new)
<1>1. k.rule = "CONTINUITY" \/ k.rule = "DECISION_COVERAGE"
  BY DEF MissingSignRules
<1>2. ASSUME hasSignAt(new, k.node) PROVE FALSE
  BY <1>1, <1>2 DEF Fires, Occurrences
<1>3. ASSUME ~hasSignAt(old, k.node) PROVE FALSE
  BY <1>1, <1>2, <1>3 DEF Fires, Occurrences
<1>4. PICK s \in old : s.node = k.node
  BY <1>3 DEF hasSignAt
<1>5. s \notin new
  BY <1>2, <1>4 DEF hasSignAt
<1> QED BY <1>4, <1>5 DEF ChangedNodes, ChangedSigns

\* A change of signs reopens every issue about missing signs that it makes true.
LEMMA InvalidateQuiet ==
    ASSUME TypeOK, ResolvedHasCurrentEvidence, ResolvedNodeRuleQuiet,
           NEW new, NEW k \in IssueKeys, k.rule \in MissingSignRules,
           NEW i \in DOMAIN InvalidateEvidence(issues, signs, new)[k],
           InvalidateEvidence(issues, signs, new)[k][i].status = "resolved"
    PROVE  ~Fires(survey, new, k)
<1> DEFINE x == InvalidateEvidence(issues, signs, new)[k][i]
<1>1. /\ i \in DOMAIN issues[k]
      /\ \/ x = issues[k][i] /\ ~Affected(survey, k, signs, new)
         \/ x = InvalidatedIssue(issues[k][i])
  <2>1. CASE issues[k] # <<>> /\ Affected(survey, k, signs, new)
    BY <2>1 DEF InvalidateEvidence
  <2>2. CASE issues[k] = <<>>
    BY <2>2 DEF InvalidateEvidence
  <2>3. CASE ~Affected(survey, k, signs, new)
    BY <2>3 DEF InvalidateEvidence
  <2> QED BY <2>1, <2>2, <2>3
<1>2. issues[k][i] \in ValidationIssue /\ Backed(issues[k][i])
  BY <1>1, TableEntry DEF TypeOK, ResolvedHasCurrentEvidence
<1>3. x.status = "resolved"
  OBVIOUS
<1> HIDE DEF x
<1>4. x = issues[k][i] /\ issues[k][i].status = "resolved"
  <2>1. CASE x = issues[k][i]
    BY <1>3, <2>1
  <2>2. CASE x = InvalidatedIssue(issues[k][i])
    BY <1>2, <1>3, <2>2, InvalidatedIssueType
  <2> QED BY <1>1, <2>1, <2>2
<1>5. ~Affected(survey, k, signs, new)
  <2>1. Eligible(issues[k][i])
    BY <1>2, <1>4 DEF Backed
  <2>2. InvalidatedIssue(issues[k][i]).status # "resolved"
    BY <1>2, <2>1, InvalidatedIssueType
  <2> QED BY <1>1, <1>3, <2>2
<1>6. ~Fires(survey, signs, k)
  BY <1>1, <1>4 DEF ResolvedNodeRuleQuiet
<1> QED BY <1>5, <1>6, NodeRuleBreaks DEF Affected

\* While a rule fires, validation and reverification leave none of its issues
\* resolved.
LEMMA JudgedOpen ==
    ASSUME NEW table \in IssueTable, survey \in SurveyGraph, IsFiniteSet(signs),
           NEW k \in IssueKeys, Fires(survey, signs, k)
    PROVE  /\ \A i \in DOMAIN MergeValidationIssues(table)[k] :
                 MergeValidationIssues(table)[k][i].status = "open"
           /\ \A i \in DOMAIN ReverifyIssues(table)[k] :
                 ReverifyIssues(table)[k][i].status = "open"
<1> DEFINE m == MergeValidationIssues(table)[k]
           r == ReverifyIssues(table)[k]
           n == Count(survey, signs, k)
<1>1. \A i \in DOMAIN m : m[i].status = "open"
  <2>1. PICK issue \in ValidationIssue : issue.status = "open" /\ m = Copies(n, issue)
    <3>1. CASE table[k] = <<>>
      BY <3>1, NewIssueType DEF MergeValidationIssues
    <3>2. CASE table[k] # <<>>
      <4> DEFINE last == table[k][Len(table[k])]
      <4>1. last \in ValidationIssue
        BY <3>2, TableEntry
      <4>2. m = Copies(n, [last EXCEPT !.status = "open"])
        BY <3>2 DEF MergeValidationIssues
      <4> HIDE DEF last
      <4> QED BY <4>1, <4>2, ReopenedType
    <3> QED BY <3>1, <3>2
  <2> HIDE DEF m, n
  <2> QED BY <2>1 DEF Copies
<1>2. \A i \in DOMAIN r : r[i].status = "open"
  <2>1. CASE table[k] = <<>>
    <3>1. r = <<NewIssue>>
      BY <2>1 DEF ReverifyIssues
    <3> HIDE DEF r
    <3> QED BY <3>1, NewIssueType
  <2>2. CASE table[k] # <<>>
    <3>1. r = [i \in DOMAIN table[k] |-> ReverifiedIssue(table[k][i], TRUE)]
      BY <2>2 DEF ReverifyIssues, Fires
    <3> HIDE DEF r
    <3>2. \A i \in DOMAIN table[k] : table[k][i] \in ValidationIssue
      BY TableEntry
    <3> QED BY <3>1, <3>2, ReverifiedIssueFacts
  <2> QED BY <2>1, <2>2
<1> QED BY <1>1, <1>2

\* What a command does with issues and signs keeps resolved issues satisfied.
LEMMA QuietStep ==
    TypeOK /\ StatusMatchesProgress /\ QuietInv /\ [Next]_vars => QuietInv'
<1> SUFFICES ASSUME TypeOK, StatusMatchesProgress, QuietInv, [Next]_vars
             PROVE  ResolvedNodeRuleQuiet' /\ NoIssuesInDraft'
  BY BackedStep DEF QuietInv
<1>1. issues \in IssueTable /\ ResolvedHasCurrentEvidence /\ ResolvedNodeRuleQuiet
      /\ NoIssuesInDraft
  BY DEF TypeOK, QuietInv
<1>2. CASE UNCHANGED <<survey, signs, issues>>
  BY <1>1, <1>2 DEF ResolvedNodeRuleQuiet, NoIssuesInDraft
<1>3. ASSUME NEW g \in Surveys, FreezeBaseline(g)
      PROVE  ResolvedNodeRuleQuiet' /\ NoIssuesInDraft'
  <2>1. survey = NoSurvey /\ survey' # NoSurvey /\ UNCHANGED issues
    BY <1>3, SurveyAssumption DEF FreezeBaseline, StatusMatchesProgress
  <2> QED BY <1>1, <2>1 DEF ResolvedNodeRuleQuiet, NoIssuesInDraft
<1>4. ASSUME NEW plan \in Plans, ReplaceSigns(plan)
      PROVE  ResolvedNodeRuleQuiet' /\ NoIssuesInDraft'
  <2>1. /\ issues' = InvalidateEvidence(issues, signs, signs') /\ survey' = survey
        /\ survey # NoSurvey
    BY <1>4 DEF ReplaceSigns, StatusMatchesProgress
  <2>2. PICK t : t = signs'
    OBVIOUS
  <2>3. \A k \in IssueKeys : \A i \in DOMAIN InvalidateEvidence(issues, signs, t)[k] :
           k.rule \in MissingSignRules
           /\ InvalidateEvidence(issues, signs, t)[k][i].status = "resolved"
              => ~Fires(survey, t, k)
    BY <1>1, InvalidateQuiet
  <2> QED BY <2>1, <2>2, <2>3 DEF ResolvedNodeRuleQuiet, NoIssuesInDraft
<1>5. ASSUME NEW key \in IssueKeys, NEW plan \in Repairs \cup {<<>>}, ResolveIssue(key, plan)
      PROVE  ResolvedNodeRuleQuiet' /\ NoIssuesInDraft'
  <2>1. PICK t : t = signs'
    OBVIOUS
  <2> DEFINE v == InvalidateEvidence(issues, signs, t)
  <2>2. \A k \in IssueKeys : \A i \in DOMAIN v[k] :
           k.rule \in MissingSignRules /\ v[k][i].status = "resolved" => ~Fires(survey, t, k)
    BY <1>1, InvalidateQuiet
  <2>3. v \in IssueTable
    BY <1>1, InvalidateType
  <2>4. v[key] # <<>>
    <3>1. 1 \in DOMAIN issues[key]
      BY <1>1, <1>5, TableEntry DEF ResolveIssue
    <3>2. DOMAIN v[key] = DOMAIN issues[key]
      BY DEF InvalidateEvidence
    <3> HIDE DEF v
    <3> QED BY <3>1, <3>2
  <2>5. PICK r \in Nat : r = signsRevision'
    BY TypeStep DEF TypeOK
  <2>6. issues' = AppendResolution(v, key, r) /\ survey' = survey /\ survey # NoSurvey
    BY <1>5, <2>1, <2>5 DEF ResolveIssue, StatusMatchesProgress
  <2> HIDE DEF v
  <2>7. \A k \in IssueKeys : \A i \in DOMAIN AppendResolution(v, key, r)[k] :
           /\ i \in DOMAIN v[k]
           /\ \/ AppendResolution(v, key, r)[k][i] = v[k][i]
              \/ AppendResolution(v, key, r)[k][i].status = "open"
    BY <2>3, <2>4, AppendFacts
  <2>8. \A k \in IssueKeys : \A i \in DOMAIN issues'[k] :
           k.rule \in MissingSignRules /\ issues'[k][i].status = "resolved"
              => ~Fires(survey, t, k)
    BY <2>2, <2>6, <2>7
  <2> QED BY <2>1, <2>6, <2>8 DEF ResolvedNodeRuleQuiet, NoIssuesInDraft
<1>6. ASSUME Validate
      PROVE  ResolvedNodeRuleQuiet' /\ NoIssuesInDraft'
  <2>1. /\ signs # {} /\ issues' = MergeValidationIssues(issues)
        /\ UNCHANGED <<survey, signs>> /\ survey # NoSurvey
        /\ survey \in SurveyGraph /\ IsFiniteSet(signs)
    BY <1>6, KnownSurvey DEF Validate, StatusMatchesProgress
  <2>2. ASSUME NEW k \in IssueKeys, NEW i \in DOMAIN issues'[k], k.rule \in MissingSignRules,
               issues'[k][i].status = "resolved"
        PROVE  ~Fires(survey, signs, k)
    BY <1>1, <2>1, <2>2, JudgedOpen
  <2> QED BY <2>1, <2>2 DEF ResolvedNodeRuleQuiet, NoIssuesInDraft
<1>7. ASSUME Reverify
      PROVE  ResolvedNodeRuleQuiet' /\ NoIssuesInDraft'
  <2>1. /\ issues' = ReverifyIssues(issues) /\ UNCHANGED <<survey, signs>> /\ survey # NoSurvey
        /\ survey \in SurveyGraph /\ IsFiniteSet(signs)
    BY <1>7, KnownSurvey DEF Reverify, StatusMatchesProgress
  <2>2. ASSUME NEW k \in IssueKeys, NEW i \in DOMAIN issues'[k], k.rule \in MissingSignRules,
               issues'[k][i].status = "resolved"
        PROVE  ~Fires(survey, signs, k)
    BY <1>1, <2>1, <2>2, JudgedOpen
  <2> QED BY <2>1, <2>2 DEF ResolvedNodeRuleQuiet, NoIssuesInDraft
<1> QED BY <1>2, <1>3, <1>4, <1>5, <1>6, <1>7
        DEF Next, vars, CreateProject, Walkthrough, FreezePackage

\* An issue about missing signs that is resolved stays satisfied by the current
\* signs, before they are validated again too (signs.go:143-161, rules.go:138-162).
THEOREM ResolvedStaysSatisfied == Spec => []ResolvedNodeRuleQuiet
<1>1. Init => TypeOK /\ StatusMatchesProgress /\ QuietInv
  BY InitType DEF Init, QuietInv, ResolvedHasCurrentEvidence, ResolvedNodeRuleQuiet,
                  NoIssuesInDraft
<1>2. TypeOK /\ StatusMatchesProgress /\ QuietInv /\ [Next]_vars
        => TypeOK' /\ StatusMatchesProgress' /\ QuietInv'
  BY TypeStep, QuietStep
<1>3. QuietInv => ResolvedNodeRuleQuiet
  BY DEF QuietInv
<1> QED BY <1>1, <1>2, <1>3, PTL DEF Spec

-----------------------------------------------------------------------------
(* Clean rules from the walkthrough on. *)

\* A checked baseline with a destination needs at least one sign: the node its
\* entrances lead to.
LEMMA NoSignsFires ==
    ASSUME NEW g \in SurveyGraph, PreflightBaseline(g), g.destinationIDs # <<>>
    PROVE  \E k \in IssueKeys : Fires(g, {}, k)
<1> DEFINE S == ToSet(g.entranceIDs)
           D == ToSet(g.destinationIDs)
<1>1. /\ g.entranceIDs \in Seq(AnyID) /\ g.destinationIDs \in Seq(AnyID)
      /\ g.edges \in Seq(Edge)
  BY DEF SurveyGraph
<1>2. S \subseteq AnyID
  BY <1>1, ListFinite
<1>3. PICK d : d \in D
  <2>1. 1 \in DOMAIN g.destinationIDs
    BY <1>1, EmptySeq, LenProperties
  <2> QED BY <2>1 DEF ToSet
<1>4. D \subseteq NodesOf(g)
  BY DEF PreflightBaseline, IdentityListOK
<1>5. d \notin S
  <2>1. PICK n \in ToSet(g.nodes) : n.id = d
    BY <1>3, <1>4 DEF NodesOf
  <2>2. n.id \in ToSet(g.destinationIDs) => n.kind = "destination"
    BY <2>1 DEF PreflightBaseline, IdentityListOK
  <2>3. n.id \in ToSet(g.entranceIDs) => n.kind = "entrance"
    BY <2>1 DEF PreflightBaseline, IdentityListOK
  <2> QED BY <1>3, <2>1, <2>2, <2>3
<1>6. d \in Reached(g, S)
  BY <1>3 DEF PreflightBaseline, Reachable
<1>7. ~Closed(g, S)
  BY <1>2, <1>5, <1>6 DEF Reached
<1>8. PICK e \in EdgesOf(g) : e.from \in S
  BY <1>7 DEF Closed
<1>9. PICK j \in DOMAIN g.edges : g.edges[j] = e
  BY <1>8 DEF EdgesOf, ToSet
<1>10. PICK i \in DOMAIN g.entranceIDs : g.entranceIDs[i] = e.from
  BY <1>8 DEF ToSet
<1> DEFINE k == [rule |-> "CONTINUITY", node |-> e.to]
<1>11. k \in IssueKeys
  <2>1. e.to \in NodesOf(g)
    BY <1>8 DEF PreflightBaseline, EdgeListOK
  <2>2. e.to \in NodeIDs
    BY <2>1, SurveyLists
  <2> QED BY <2>2 DEF IssueKeys, RuleCodes
<1>12. <<i, j>> \in Occurrences(g, {}, k)
  BY <1>9, <1>10 DEF Occurrences, hasSignAt
<1> QED BY <1>11, <1>12 DEF Fires

\* No command makes a project ready on signs that were not checked or break a
\* rule: Validate and Reverify lead there only without open issues, and no command
\* edits signs from there on.
LEMMA ReadyStep ==
    TypeOK /\ StatusMatchesProgress /\ ReadyImpliesClean /\ [Next]_vars => ReadyImpliesClean'
<1> SUFFICES ASSUME TypeOK, StatusMatchesProgress, ReadyImpliesClean, [Next]_vars
             PROVE  ReadyImpliesClean'
  OBVIOUS
<1>1. issues \in IssueTable
  BY DEF TypeOK
<1>2. ASSUME Validate
      PROVE  ReadyImpliesClean'
  <2>1. /\ signs # {} /\ survey \in SurveyGraph /\ IsFiniteSet(signs)
        /\ issues' = MergeValidationIssues(issues)
        /\ validatedAt' # NoMoment /\ validatedSignsRevision' = signsRevision'
        /\ UNCHANGED <<survey, signs>>
    BY <1>2, KnownSurvey, MomentAssumption DEF Validate, StatusMatchesProgress
  <2>2. issues' \in IssueTable
    BY <1>1, <2>1, MergeFacts
  <2>3. CASE ~HasOpen(issues')
    <3>1. \A k \in IssueKeys : ~Fires(survey, signs, k)
      BY <1>1, <2>1, <2>3, MergeFacts DEF HasOpen
    <3> QED BY <2>1, <2>3, <3>1 DEF ReadyImpliesClean
  <2>4. CASE HasOpen(issues')
    <3>1. CASE Reviewing
      <4>1. \A k \in IssueKeys : ~Fires(survey, signs, k)
        BY <3>1 DEF ReadyImpliesClean
      <4>2. \A k \in IssueKeys : issues'[k] = issues[k]
        BY <1>1, <2>1, <4>1, MergeFacts
      <4>3. ~HasOpen(issues')
        BY <3>1, <4>2 DEF ReadyImpliesClean, HasOpen
      <4> QED BY <2>4, <4>3
    <3>2. CASE ~Reviewing
      BY <1>2, <2>4, <3>2 DEF Validate, ReadyImpliesClean, Reviewing
    <3> QED BY <3>1, <3>2
  <2> QED BY <2>3, <2>4
<1>3. ASSUME Reverify
      PROVE  ReadyImpliesClean'
  <2>1. /\ status \in {"needs_remediation", "walkthrough_failed"}
        /\ issues' = ReverifyIssues(issues) /\ validatedSignsRevision' = signsRevision'
        /\ UNCHANGED <<survey, signs, validatedAt>>
    BY <1>3 DEF Reverify
  <2>2. CASE HasOpen(issues')
    BY <1>3, <2>1, <2>2 DEF Reverify, ReadyImpliesClean, Reviewing
  <2>3. CASE ~HasOpen(issues')
    <3>1. \A k \in IssueKeys : ~Fires(survey, signs, k)
      BY <1>1, <2>1, <2>3, ReverifyFacts DEF HasOpen
    <3>2. validatedAt # NoMoment /\ survey.destinationIDs # <<>> /\ PreflightBaseline(survey)
      BY <2>1 DEF StatusMatchesProgress
    <3>3. signs # {}
      BY <2>1, <3>1, <3>2, KnownSurvey, NoSignsFires
    <3> QED BY <2>1, <2>3, <3>1, <3>2, <3>3 DEF ReadyImpliesClean
  <2> QED BY <2>2, <2>3
<1>4. CASE UNCHANGED <<survey, signs, signsRevision, validatedAt, validatedSignsRevision, issues>>
           /\ (Reviewing' => Reviewing)
  BY <1>4 DEF ReadyImpliesClean, HasOpen
<1>5. ASSUME NEW d \in Actors, NEW r \in Actors, CreateProject(d, r)
      PROVE  ReadyImpliesClean'
  BY <1>5 DEF CreateProject, Transition, allowed, ReadyImpliesClean, Reviewing
<1>6. ASSUME NEW g \in Surveys, FreezeBaseline(g)
      PROVE  ReadyImpliesClean'
  BY <1>6 DEF FreezeBaseline, Transition, ReadyImpliesClean, Reviewing
<1>7. ASSUME NEW plan \in Plans, ReplaceSigns(plan)
      PROVE  ReadyImpliesClean'
  BY <1>7 DEF ReplaceSigns, ReadyImpliesClean, Reviewing
<1>8. ASSUME NEW key \in IssueKeys, NEW plan \in Repairs \cup {<<>>}, ResolveIssue(key, plan)
      PROVE  ReadyImpliesClean'
  BY <1>8 DEF ResolveIssue, ReadyImpliesClean, Reviewing
<1>9. ASSUME NEW actor \in Actors, NEW failed \in SUBSET NodeIDs, Walkthrough(actor, failed)
      PROVE  ReadyImpliesClean'
  BY <1>4, <1>9 DEF Walkthrough, Reviewing
<1>10. ASSUME NEW actor \in Actors, FreezePackage(actor)
       PROVE  ReadyImpliesClean'
  BY <1>4, <1>10 DEF FreezePackage, PreflightApproval, Reviewing
<1>11. ASSUME UNCHANGED vars
       PROVE  ReadyImpliesClean'
  BY <1>4, <1>11 DEF vars, Reviewing
<1> QED BY <1>2, <1>3, <1>5, <1>6, <1>7, <1>8, <1>9, <1>10, <1>11 DEF Next

\* A project under walkthrough, approval or freeze breaks no rule on the signs
\* it has.
THEOREM CleanFromWalkthroughOn == Spec => []ReadyImpliesClean
<1>1. Init => TypeOK /\ StatusMatchesProgress /\ ReadyImpliesClean
  BY InitType DEF Init, ReadyImpliesClean, Reviewing
<1>2. TypeOK /\ StatusMatchesProgress /\ ReadyImpliesClean /\ [Next]_vars
        => TypeOK' /\ StatusMatchesProgress' /\ ReadyImpliesClean'
  BY TypeStep, ReadyStep
<1> QED BY <1>1, <1>2, PTL DEF Spec

-----------------------------------------------------------------------------
(* What a checked baseline rules out. *)

\* A frozen baseline breaks no accessibility or reachability rule: the preflight
\* refuses whatever those rules would find (preflight.go:74-93, rules.go:47-71).
THEOREM RepairableWithSigns == Spec => []BaselineRulesQuiet
<1>1. TypeOK /\ StatusMatchesProgress => BaselineRulesQuiet
  <2> SUFFICES ASSUME TypeOK, StatusMatchesProgress, survey # NoSurvey, NEW k \in IssueKeys,
                      k.rule \in {"ACCESSIBLE_CONSISTENCY", "DESTINATION_REACHABILITY"}
               PROVE  ~Fires(survey, signs, k)
    BY DEF BaselineRulesQuiet
  <2>1. PreflightBaseline(survey)
    BY DEF StatusMatchesProgress
  <2>2. CASE k.rule = "ACCESSIBLE_CONSISTENCY"
    <3>1. \A f \in survey.accessibleEdgeFlags, e \in EdgesOf(survey) :
             EdgeKey(f) = EdgeKey(e) => f.accessible = e.accessible
      BY <2>1 DEF PreflightBaseline, FlagsOK
    <3>2. \A j \in DOMAIN survey.edges : survey.edges[j] \in EdgesOf(survey)
      BY DEF EdgesOf, ToSet
    <3> QED BY <2>2, <3>1, <3>2 DEF Fires, Occurrences
  <2>3. CASE k.rule = "DESTINATION_REACHABILITY"
    <3>1. \A i \in DOMAIN survey.destinationIDs :
             survey.destinationIDs[i] \in Reachable(survey)
      BY <2>1 DEF PreflightBaseline, ToSet
    <3> QED BY <2>3, <3>1 DEF Fires, Occurrences
  <2> QED BY <2>2, <2>3
<1> QED BY <1>1, TypeCorrect, ProgressMatches, PTL

\* The loops of a new baseline find who reaches what (rules.go:94-111,
\* impact.go:25-81): the statements are those of ReachableLoop and ImpactLoop
\* for the one survey of the project, which passed the preflight.
THEOREM LoopsAgree == Spec => []ImpactIsReachability
<1>1. TypeOK /\ StatusMatchesProgress => ImpactIsReachability
  <2> SUFFICES ASSUME TypeOK, StatusMatchesProgress, NewBaseline
               PROVE  /\ ReachableIsReached(survey)
                      /\ \A k \in IssueKeys :
                            AnalyzeIssueImpact(survey, k).destinations
                                = ImpactDestinations(survey, k)
    BY DEF ImpactIsReachability
  <2>1. status \notin {"absent", "draft"} /\ PreflightBaseline(survey)
    BY DEF NewBaseline, StatusMatchesProgress
  <2>2. survey \in SurveyGraph
    BY <2>1, KnownSurvey
  <2>3. EdgeListOK(survey) /\ ToSet(survey.entranceIDs) \subseteq NodesOf(survey)
    BY <2>1 DEF PreflightBaseline, IdentityListOK
  <2> QED BY <2>2, <2>3, ReachableLoop, ImpactLoop
<1> QED BY <1>1, TypeCorrect, ProgressMatches, PTL

\* The paths shown with an issue of a new baseline are walks, none shorter, and
\* no path means that there is none (impact.go:55-81).
THEOREM PathsFound == Spec => []PathsAreShortest
<1>1. TypeOK /\ StatusMatchesProgress => PathsAreShortest
  <2> SUFFICES ASSUME TypeOK, StatusMatchesProgress, NewBaseline,
                      NEW a \in NodesOf(survey), NEW b \in NodesOf(survey)
               PROVE  PathIsShortest(survey, a, b)
    BY DEF PathsAreShortest
  <2>1. status \notin {"absent", "draft"} /\ PreflightBaseline(survey)
    BY DEF NewBaseline, StatusMatchesProgress
  <2>2. survey \in SurveyGraph /\ EdgeListOK(survey)
    BY <2>1, KnownSurvey DEF PreflightBaseline
  <2> QED BY <2>2, PathLoop
<1> QED BY <1>1, TypeCorrect, ProgressMatches, PTL

-----------------------------------------------------------------------------
(* The package. *)

\* What a freeze leaves behind, and no later command touches.
PackageInv ==
    status = "frozen" =>
        /\ reviewer \in Actors
        /\ LastPassed(walkthroughs)
        /\ package = [approvedBy |-> reviewer, payload |-> CanonicalPayload(walkthroughs, reviewer)]

Unsigned(reviews) == [i \in DOMAIN reviews |-> [reviews[i] EXCEPT !.signed = FALSE]]

\* Neither signing the last round nor leaving the signatures out changes how
\* the last round ended.
LEMMA SignaturesKeepOutcome ==
    ASSUME NEW reviews \in Seq(WalkthroughReview), LastPassed(reviews)
    PROVE  /\ LastPassed([reviews EXCEPT ![Len(reviews)].signed = TRUE])
           /\ LastPassed(Unsigned(reviews))
<1> DEFINE n == Len(reviews)
<1>1. /\ n \in Nat /\ n \in 1..n /\ DOMAIN reviews = 1..n
      /\ reviews[n] \in WalkthroughReview /\ reviews[n].failed = {}
  BY EmptySeq, LenProperties, ElementOfSeq DEF LastPassed, Failed
<1> DEFINE signedOnes == [reviews EXCEPT ![n].signed = TRUE]
<1>2. [reviews[n] EXCEPT !.signed = TRUE] \in WalkthroughReview
  BY <1>1 DEF WalkthroughReview
<1>3. /\ signedOnes \in Seq(WalkthroughReview) /\ Len(signedOnes) = n
      /\ signedOnes[n] = [reviews[n] EXCEPT !.signed = TRUE]
  BY <1>1, <1>2, ExceptSeq
<1>4. signedOnes[n].failed = {} /\ signedOnes # <<>>
  BY <1>1, <1>3 DEF WalkthroughReview
<1>5. Unsigned(reviews) \in [1..n -> WalkthroughReview]
  <2>1. ASSUME NEW i \in 1..n
        PROVE  [reviews[i] EXCEPT !.signed = FALSE] \in WalkthroughReview
    <3>1. reviews[i] \in WalkthroughReview
      BY <1>1, ElementOfSeq
    <3> QED BY <3>1 DEF WalkthroughReview
  <2> QED BY <1>1, <2>1 DEF Unsigned
<1>6. Unsigned(reviews) \in Seq(WalkthroughReview) /\ Len(Unsigned(reviews)) = n
  BY <1>1, <1>5, FunctionIsSeq
<1>7. Unsigned(reviews)[n].failed = {} /\ Unsigned(reviews) # <<>>
  BY <1>1, <1>6, SMTT(30) DEF WalkthroughReview, Unsigned
<1> QED BY <1>3, <1>4, <1>6, <1>7 DEF LastPassed, Failed

\* Once frozen, the package stays the signed content of the project.
LEMMA PackageStep ==
    TypeOK /\ PackageInv /\ [Next]_vars => PackageInv'
<1> SUFFICES ASSUME TypeOK, PackageInv, [Next]_vars
             PROVE  PackageInv'
  OBVIOUS
<1>1. ASSUME NEW actor \in Actors, FreezePackage(actor)
      PROVE  PackageInv'
  <2>1. /\ actor = reviewer /\ LastPassed(walkthroughs) /\ reviewer' = reviewer
        /\ walkthroughs \in Seq(WalkthroughReview)
        /\ walkthroughs' = [walkthroughs EXCEPT ![Len(walkthroughs)].signed = TRUE]
    BY <1>1 DEF FreezePackage, PreflightApproval, TypeOK
  <2>2. LastPassed(walkthroughs')
    BY <2>1, SignaturesKeepOutcome
  <2>3. package' = [approvedBy |-> actor, payload |-> CanonicalPayload(walkthroughs', actor)]
    BY <1>1 DEF FreezePackage
  <2>4. CanonicalPayload(walkthroughs, reviewer)' = CanonicalPayload(walkthroughs', actor)
    BY <1>1, <2>1 DEF FreezePackage, CanonicalPayload
  <2> QED BY <2>1, <2>2, <2>3, <2>4 DEF PackageInv
<1>2. CASE UNCHANGED vars
  BY <1>2 DEF vars, PackageInv, LastPassed, Failed, CanonicalPayload
<1>3. CASE status' # "frozen"
  BY <1>3 DEF PackageInv
<1>4. ASSUME NEW d \in Actors, NEW r \in Actors, CreateProject(d, r)
      PROVE  status' # "frozen"
  BY <1>4 DEF CreateProject, Transition
<1>5. ASSUME NEW g \in Surveys, FreezeBaseline(g)
      PROVE  status' # "frozen"
  BY <1>5 DEF FreezeBaseline, Transition
<1>6. ASSUME NEW plan \in Plans, ReplaceSigns(plan)
      PROVE  status' # "frozen"
  BY <1>6 DEF ReplaceSigns
<1>7. Validate => status' # "frozen"
  BY DEF Validate
<1>8. ASSUME NEW key \in IssueKeys, NEW plan \in Repairs \cup {<<>>}, ResolveIssue(key, plan)
      PROVE  status' # "frozen"
  BY <1>8 DEF ResolveIssue
<1>9. Reverify => status' # "frozen"
  BY DEF Reverify, Transition
<1>10. ASSUME NEW actor \in Actors, NEW failed \in SUBSET NodeIDs, Walkthrough(actor, failed)
       PROVE  status' # "frozen"
  BY <1>10 DEF Walkthrough, Transition
<1> QED BY <1>1, <1>2, <1>3, <1>4, <1>5, <1>6, <1>7, <1>8, <1>9, <1>10 DEF Next

\* What the status frozen implies covers the structure of the payload and its
\* agreement with the project in signer, content and status
\* (package.go:137-174 and 187-207).
LEMMA PackageVerifies ==
    TypeOK /\ StatusMatchesProgress /\ ResolvedHasCurrentEvidence /\ ReadyImpliesClean /\ PackageInv
        => FreezeThenVerify
<1> SUFFICES ASSUME TypeOK, StatusMatchesProgress, ResolvedHasCurrentEvidence,
                    ReadyImpliesClean, PackageInv, status = "frozen"
             PROVE  VerifyPackageContent(package)
  BY DEF FreezeThenVerify
<1> DEFINE cp == CanonicalPayload(walkthroughs, reviewer)
<1>1. /\ package.payload = cp /\ package.approvedBy = reviewer
      /\ reviewer \in Actors /\ LastPassed(walkthroughs)
  BY DEF PackageInv
<1>2. /\ cp.survey = survey /\ cp.signs = signs /\ cp.issues = issues
      /\ cp.approvedBy = reviewer /\ cp.walkthroughs = Unsigned(walkthroughs)
  BY DEF CanonicalPayload, Unsigned
<1>3. PreflightBaseline(survey)
  BY DEF StatusMatchesProgress
<1>4. \A s \in signs : SignOK(survey, s) /\ \A t \in signs : s.id = t.id => s = t
  BY DEF StatusMatchesProgress
<1>5. ASSUME NEW k \in IssueKeys, NEW i \in DOMAIN issues[k]
      PROVE  /\ issues[k][i].status = "resolved"
             /\ Eligible(issues[k][i]) /\ Latest(issues[k][i]).closed
  <2>1. issues[k] \in Seq(ValidationIssue)
    BY DEF TypeOK, IssueTable
  <2>2. issues[k][i] \in ValidationIssue
    BY <2>1, LenProperties, ElementOfSeq
  <2>3. issues[k][i].status # "open"
    BY DEF ReadyImpliesClean, Reviewing, HasOpen
  <2>4. issues[k][i].status = "resolved"
    BY <2>2, <2>3 DEF ValidationIssue
  <2> QED BY <2>4 DEF ResolvedHasCurrentEvidence, Backed
<1>6. LastPassed(cp.walkthroughs)
  BY <1>1, <1>2, SignaturesKeepOutcome DEF TypeOK
<1>7. reviewer # NoActor
  BY <1>1, ActorAssumption
<1> HIDE DEF cp
<1>8. /\ \A s, t \in cp.signs : s.id = t.id => s = t
      /\ \A s \in cp.signs : SignOK(cp.survey, s)
  BY <1>2, <1>4
<1>9. cp = CanonicalPayload(walkthroughs, package.approvedBy)
  BY <1>1 DEF cp
<1> QED BY <1>1, <1>2, <1>3, <1>5, <1>6, <1>7, <1>8, <1>9 DEF VerifyPackageContent

\* The deep verification of a frozen package has no structure finding, and none on
\* its signer, its content or the status of the project, on every survey.
THEOREM FrozenVerifies == Spec => []FreezeThenVerify
<1>1. Init => PackageInv
  BY DEF Init, PackageInv
<1> QED BY <1>1, PackageStep, PackageVerifies, TypeCorrect, ProgressMatches,
           EvidenceBehindResolution, CleanFromWalkthroughOn, PTL DEF Spec

-----------------------------------------------------------------------------
(* The rounds of walkthroughs. *)

\* The last round that visited n, if any round did, passed it.
PassedLast(n) ==
    \E i \in DOMAIN walkthroughs :
        /\ n \in walkthroughs[i].checkpoints \ walkthroughs[i].failed
        /\ \A j \in DOMAIN walkthroughs : j > i => n \notin walkthroughs[j].checkpoints

\* RoundsAnswerFailures alone is not inductive: that a round is targeted rests
\* on the status a failed round leaves, that it visits all that failed on the
\* baseline being fixed, and that a pass is final on the status it leaves.
RoundsInv ==
    /\ walkthroughs # <<>> => survey # NoSurvey
    /\ \A i \in DOMAIN walkthroughs : walkthroughs[i].failed \subseteq NodesOf(survey)
    /\ RoundsAnswerFailures
    /\ Approved <=> LastPassed(walkthroughs)
    /\ Approved => LastReview.signRevision = signsRevision
    /\ walkthroughs # <<>> =>
          \A n \in NodesOf(survey) : n \in LastReview.failed \/ PassedLast(n)

\* The invariant of the rounds implies both properties of them.
LEMMA RoundsInvEnough == RoundsInv => RoundsAnswerFailures /\ EveryNodePassedAtApproval
<1> SUFFICES ASSUME RoundsInv, Approved
             PROVE  /\ walkthroughs # <<>>
                    /\ LastReview.signRevision = signsRevision
                    /\ \A n \in NodesOf(survey) : PassedLast(n)
  BY DEF RoundsInv, EveryNodePassedAtApproval, Approved, PassedLast
<1>1. LastPassed(walkthroughs)
  BY DEF RoundsInv
<1>2. walkthroughs # <<>> /\ LastReview.failed = {}
  BY <1>1 DEF LastPassed, LastReview, Failed
<1> QED BY <1>2 DEF RoundsInv

\* The commands that add no round and sign none.
LEMMA RoundsKept ==
    ASSUME TypeOK, RoundsInv, walkthroughs' = walkthroughs,
           survey' = survey \/ survey = NoSurvey, survey # NoSurvey => survey' # NoSurvey,
           Approved' <=> Approved, Approved => signsRevision' = signsRevision
    PROVE  RoundsInv'
<1>1. CASE walkthroughs = <<>>
  <2>1. DOMAIN walkthroughs = {}
    BY <1>1
  <2>2. ~Approved /\ ~LastPassed(walkthroughs)'
    BY <1>1 DEF RoundsInv, LastPassed
  <2> QED BY <1>1, <2>1, <2>2 DEF RoundsInv, RoundsAnswerFailures
<1>2. CASE walkthroughs # <<>>
  <2>1. survey' = survey
    BY <1>2 DEF RoundsInv
  <2>2. LastReview' = LastReview /\ LastPassed(walkthroughs)' = LastPassed(walkthroughs)
    BY DEF LastReview, LastPassed, Failed
  <2>3. \A n : PassedLast(n)' = PassedLast(n)
    BY DEF PassedLast
  <2>4. NodesOf(survey)' = NodesOf(survey)
    BY <2>1
  <2>5. RoundsAnswerFailures' = RoundsAnswerFailures
    BY <2>1 DEF RoundsAnswerFailures, Failed
  <2> HIDE DEF NodesOf, PassedLast, LastReview, LastPassed, RoundsAnswerFailures
  <2> QED BY <1>2, <2>1, <2>2, <2>3, <2>4, <2>5 DEF RoundsInv
<1> QED BY <1>1, <1>2

\* A new round keeps the invariant: what it visits failed before or is the whole
\* route, and what it does not visit passed earlier (walkthrough.go:24-40).
LEMMA WalkthroughRounds ==
    ASSUME TypeOK, RoundsInv, StatusMatchesProgress,
           NEW actor \in Actors, NEW failed \in SUBSET NodeIDs, Walkthrough(actor, failed)
    PROVE  RoundsInv'
<1> DEFINE m == Len(walkthroughs)
           route == ExpectedWalkthroughRoute
           round == [reviewer |-> actor, checkpoints |-> route, failed |-> failed,
                     targeted |-> Targeted, signRevision |-> signsRevision, signed |-> FALSE]
<1>1. /\ walkthroughs \in Seq(WalkthroughReview) /\ m \in Nat /\ DOMAIN walkthroughs = 1..m
      /\ walkthroughs' = Append(walkthroughs, round)
      /\ survey' = survey /\ signsRevision' = signsRevision
      /\ failed \subseteq route /\ status = "ready_for_walkthrough"
  BY LenProperties DEF TypeOK, Walkthrough
<1>2. route \subseteq NodesOf(survey)
  BY DEF ExpectedWalkthroughRoute, RouteAfter
<1>3. round \in WalkthroughReview
  <2>1. survey \in SurveyGraph
    BY <1>1, KnownSurvey DEF StatusMatchesProgress
  <2>2. route \subseteq NodeIDs
    BY <1>2, <2>1, SurveyLists
  <2>3. Targeted \in BOOLEAN /\ signsRevision \in Nat
    BY DEF Targeted, Failed, TypeOK
  <2> HIDE DEF route
  <2> QED BY <2>2, <2>3 DEF WalkthroughReview
<1> HIDE DEF round
<1>4. /\ Len(walkthroughs') = m + 1 /\ DOMAIN walkthroughs' = 1..(m + 1)
      /\ walkthroughs'[m + 1] = round
      /\ \A i \in 1..m : walkthroughs'[i] = walkthroughs[i]
      /\ walkthroughs' # <<>>
  BY <1>1, <1>3, AppendProperties, EmptySeq
<1>5. /\ round.failed = failed /\ round.checkpoints = route
      /\ round.targeted = Targeted /\ round.signRevision = signsRevision
  BY DEF round
<1>6. LastReview' = round
  BY <1>4 DEF LastReview
<1>7. m # 0 => /\ Targeted /\ m \in 1..m /\ LastReview = walkthroughs[m]
               /\ LastReview.failed \subseteq NodesOf(survey)
               /\ route = LastReview.failed
               /\ signsRevision > LastReview.signRevision
  <2> HAVE m # 0
  <2>1. walkthroughs # <<>> /\ m \in 1..m
    BY <1>1
  <2>2. ~LastPassed(walkthroughs)
    BY <1>1 DEF RoundsInv, Approved
  <2>3. Targeted
    BY <2>1, <2>2 DEF LastPassed, Targeted, LastReview
  <2>4. LastReview.failed \subseteq NodesOf(survey)
    BY <1>1, <2>1 DEF RoundsInv, LastReview
  <2>5. route = NodesOf(survey) \cap LastReview.failed
    BY <2>3 DEF ExpectedWalkthroughRoute, RouteAfter, Targeted, LastReview
  <2>6. signsRevision > LastReview.signRevision
    BY <2>3 DEF Walkthrough, TargetedRoundReady
  <2> QED BY <2>1, <2>3, <2>4, <2>5, <2>6 DEF LastReview
<1>8. m = 0 => ~Targeted /\ route = NodesOf(survey)
  BY <1>1, EmptySeq DEF Targeted, ExpectedWalkthroughRoute, RouteAfter
<1> HIDE DEF route
<1>9. \A i \in DOMAIN walkthroughs' : walkthroughs'[i].failed \subseteq NodesOf(survey')
  <2>1. \A i \in 1..m : walkthroughs[i].failed \subseteq NodesOf(survey)
    BY <1>1 DEF RoundsInv
  <2> QED BY <1>1, <1>2, <1>4, <1>5, <2>1
<1>10. RoundsAnswerFailures'
  <2> SUFFICES ASSUME NEW i \in 1..(m + 1)
               PROVE  IF i = 1
                      THEN /\ walkthroughs'[i].checkpoints = NodesOf(survey)
                           /\ ~walkthroughs'[i].targeted
                      ELSE /\ Failed(walkthroughs'[i - 1])
                           /\ walkthroughs'[i].targeted
                           /\ walkthroughs'[i].checkpoints = walkthroughs'[i - 1].failed
                           /\ walkthroughs'[i].signRevision > walkthroughs'[i - 1].signRevision
    BY <1>1, <1>4 DEF RoundsAnswerFailures
  <2>1. CASE i = m + 1
    <3>1. CASE m = 0
      BY <1>4, <1>5, <1>8, <2>1, <3>1
    <3>2. CASE m # 0
      <4>1. i # 1 /\ i - 1 = m /\ walkthroughs'[i - 1] = LastReview
        BY <1>1, <1>4, <1>7, <2>1, <3>2
      <4>2. Failed(LastReview)
        BY <1>7, <3>2 DEF Targeted
      <4> QED BY <1>4, <1>5, <1>7, <2>1, <3>2, <4>1, <4>2
    <3> QED BY <3>1, <3>2
  <2>2. CASE i # m + 1
    <3>1. i \in 1..m /\ (i # 1 => i - 1 \in 1..m)
      BY <1>1, <2>2
    <3> QED BY <1>1, <1>4, <3>1 DEF RoundsInv, RoundsAnswerFailures
  <2> QED BY <2>1, <2>2
<1>11. Approved' <=> LastPassed(walkthroughs)'
  <2>1. LastPassed(walkthroughs)' <=> failed = {}
    BY <1>4, <1>5 DEF LastPassed, Failed
  <2>2. Approved' <=> failed = {}
    BY DEF Walkthrough, Transition, Approved
  <2> QED BY <2>1, <2>2
<1>12. ASSUME NEW n \in NodesOf(survey)
       PROVE  n \in round.failed \/ PassedLast(n)'
  <2>1. CASE n \in route
    <3>1. CASE n \in failed
      BY <1>5, <3>1
    <3>2. CASE n \notin failed
      <4>1. /\ m + 1 \in DOMAIN walkthroughs'
            /\ n \in walkthroughs'[m + 1].checkpoints \ walkthroughs'[m + 1].failed
            /\ \A j \in DOMAIN walkthroughs' : ~(j > m + 1)
        BY <1>1, <1>4, <1>5, <2>1, <3>2
      <4> QED BY <4>1 DEF PassedLast
    <3> QED BY <3>1, <3>2
  <2>2. CASE n \notin route
    <3>1. m # 0 /\ n \notin LastReview.failed
      BY <1>1, <1>7, <1>8, <2>2
    <3>2. PassedLast(n)
      BY <1>1, <3>1, EmptySeq DEF RoundsInv
    <3>3. PICK i \in 1..m :
             /\ n \in walkthroughs[i].checkpoints \ walkthroughs[i].failed
             /\ \A j \in 1..m : j > i => n \notin walkthroughs[j].checkpoints
      BY <1>1, <3>2 DEF PassedLast
    <3>4. /\ i \in DOMAIN walkthroughs'
          /\ n \in walkthroughs'[i].checkpoints \ walkthroughs'[i].failed
      BY <1>1, <1>4, <3>3
    <3>5. ASSUME NEW j \in 1..(m + 1), j > i
          PROVE  n \notin walkthroughs'[j].checkpoints
      <4>1. CASE j = m + 1
        BY <1>4, <1>5, <2>2, <4>1
      <4>2. CASE j # m + 1
        <5>1. j \in 1..m
          BY <1>1, <4>2
        <5> QED BY <1>4, <3>3, <3>5, <5>1
      <4> QED BY <4>1, <4>2
    <3> QED BY <1>4, <3>4, <3>5 DEF PassedLast
  <2> QED BY <2>1, <2>2
<1>13. survey' # NoSurvey /\ LastReview'.signRevision = signsRevision'
  BY <1>1, <1>5, <1>6 DEF StatusMatchesProgress
<1> QED BY <1>1, <1>6, <1>9, <1>10, <1>11, <1>12, <1>13 DEF RoundsInv

\* Signing the last round keeps the invariant.
LEMMA FreezeRounds ==
    ASSUME TypeOK, RoundsInv, NEW actor \in Actors, FreezePackage(actor)
    PROVE  RoundsInv'
<1> DEFINE m == Len(walkthroughs)
<1>1. /\ walkthroughs \in Seq(WalkthroughReview) /\ m \in Nat /\ DOMAIN walkthroughs = 1..m
      /\ LastPassed(walkthroughs) /\ walkthroughs # <<>>
      /\ walkthroughs' = [walkthroughs EXCEPT ![m].signed = TRUE]
      /\ survey' = survey /\ signsRevision' = signsRevision
      /\ Approved /\ Approved'
  BY LenProperties
     DEF TypeOK, FreezePackage, PreflightApproval, LastPassed, Approved, Transition
<1>2. m \in 1..m
  BY <1>1, EmptySeq
<1>3. \A i \in 1..m : walkthroughs[i] \in WalkthroughReview
  BY <1>1, ElementOfSeq
<1>4. [walkthroughs[m] EXCEPT !.signed = TRUE] \in WalkthroughReview
  BY <1>2, <1>3 DEF WalkthroughReview
<1>5. /\ Len(walkthroughs') = m /\ DOMAIN walkthroughs' = 1..m
      /\ \A i \in 1..m : walkthroughs'[i] =
             IF i = m THEN [walkthroughs[m] EXCEPT !.signed = TRUE] ELSE walkthroughs[i]
  <2>1. walkthroughs' = [walkthroughs EXCEPT ![m] = [walkthroughs[m] EXCEPT !.signed = TRUE]]
    BY <1>1
  <2> QED BY <1>1, <1>2, <1>4, <2>1, ExceptSeq
<1>6. \A i \in 1..m : /\ walkthroughs'[i].checkpoints = walkthroughs[i].checkpoints
                       /\ walkthroughs'[i].failed = walkthroughs[i].failed
                       /\ walkthroughs'[i].targeted = walkthroughs[i].targeted
                       /\ walkthroughs'[i].signRevision = walkthroughs[i].signRevision
  BY <1>2, <1>3, <1>5 DEF WalkthroughReview
<1>7. /\ LastReview'.failed = LastReview.failed
      /\ LastReview'.signRevision = LastReview.signRevision
  BY <1>2, <1>5, <1>6 DEF LastReview
<1>8. RoundsAnswerFailures'
  <2> SUFFICES ASSUME NEW i \in 1..m
               PROVE  IF i = 1
                      THEN /\ walkthroughs'[i].checkpoints = NodesOf(survey)
                           /\ ~walkthroughs'[i].targeted
                      ELSE /\ Failed(walkthroughs'[i - 1])
                           /\ walkthroughs'[i].targeted
                           /\ walkthroughs'[i].checkpoints = walkthroughs'[i - 1].failed
                           /\ walkthroughs'[i].signRevision > walkthroughs'[i - 1].signRevision
    BY <1>1, <1>5 DEF RoundsAnswerFailures
  <2>1. i # 1 => i - 1 \in 1..m
    BY <1>1
  <2>2. IF i = 1
        THEN walkthroughs[i].checkpoints = NodesOf(survey) /\ ~walkthroughs[i].targeted
        ELSE /\ Failed(walkthroughs[i - 1])
             /\ walkthroughs[i].targeted
             /\ walkthroughs[i].checkpoints = walkthroughs[i - 1].failed
             /\ walkthroughs[i].signRevision > walkthroughs[i - 1].signRevision
    BY <1>1 DEF RoundsInv, RoundsAnswerFailures
  <2> QED BY <1>6, <2>1, <2>2 DEF Failed
<1>9. ASSUME NEW n, PassedLast(n)
      PROVE  PassedLast(n)'
  <2>1. PICK i \in 1..m : /\ n \in walkthroughs[i].checkpoints \ walkthroughs[i].failed
                          /\ \A j \in 1..m : j > i => n \notin walkthroughs[j].checkpoints
    BY <1>1, <1>9 DEF PassedLast
  <2>2. /\ n \in walkthroughs'[i].checkpoints \ walkthroughs'[i].failed
        /\ \A j \in 1..m : j > i => n \notin walkthroughs'[j].checkpoints
    BY <1>6, <2>1
  <2> QED BY <1>5, <2>2 DEF PassedLast
<1>10. LastPassed(walkthroughs)'
  BY <1>1, SignaturesKeepOutcome DEF LastPassed, Failed
<1>11. \A i \in DOMAIN walkthroughs' : walkthroughs'[i].failed \subseteq NodesOf(survey')
  BY <1>1, <1>5, <1>6 DEF RoundsInv
<1>12. \A n \in NodesOf(survey') : n \in LastReview'.failed \/ PassedLast(n)'
  BY <1>1, <1>7, <1>9 DEF RoundsInv
<1>13. survey' # NoSurvey /\ LastReview'.signRevision = signsRevision'
  BY <1>1, <1>7 DEF RoundsInv
<1> QED BY <1>1, <1>8, <1>10, <1>11, <1>12, <1>13 DEF RoundsInv

\* Every command keeps the invariant of the rounds.
LEMMA RoundsStep ==
    TypeOK /\ StatusMatchesProgress /\ RoundsInv /\ [Next]_vars => RoundsInv'
<1> SUFFICES ASSUME TypeOK, StatusMatchesProgress, RoundsInv, [Next]_vars
             PROVE  RoundsInv'
  OBVIOUS
<1>1. ASSUME NEW d \in Actors, NEW r \in Actors, CreateProject(d, r)
      PROVE  RoundsInv'
  BY <1>1, RoundsKept DEF CreateProject, Transition, allowed, Approved
<1>2. ASSUME NEW g \in Surveys, FreezeBaseline(g)
      PROVE  RoundsInv'
  <2>1. survey = NoSurvey
    BY <1>2 DEF FreezeBaseline, StatusMatchesProgress
  <2> QED BY <1>2, <2>1, RoundsKept DEF FreezeBaseline, Transition, Approved
<1>3. ASSUME NEW plan \in Plans, ReplaceSigns(plan)
      PROVE  RoundsInv'
  BY <1>3, RoundsKept DEF ReplaceSigns, Approved
<1>4. ASSUME Validate
      PROVE  RoundsInv'
  BY <1>4, RoundsKept DEF Validate, Approved
<1>5. ASSUME NEW key \in IssueKeys, NEW plan \in Repairs \cup {<<>>}, ResolveIssue(key, plan)
      PROVE  RoundsInv'
  BY <1>5, RoundsKept DEF ResolveIssue, Approved
<1>6. ASSUME Reverify
      PROVE  RoundsInv'
  BY <1>6, RoundsKept DEF Reverify, Transition, Approved
<1>7. ASSUME NEW actor \in Actors, NEW failed \in SUBSET NodeIDs, Walkthrough(actor, failed)
      PROVE  RoundsInv'
  BY <1>7, WalkthroughRounds
<1>8. ASSUME NEW actor \in Actors, FreezePackage(actor)
      PROVE  RoundsInv'
  BY <1>8, FreezeRounds
<1>9. ASSUME UNCHANGED vars
      PROVE  RoundsInv'
  BY <1>9, RoundsKept DEF vars, Approved
<1> QED BY <1>1, <1>2, <1>3, <1>4, <1>5, <1>6, <1>7, <1>8, <1>9 DEF Next

\* The invariant of the rounds holds of every reachable project.
LEMMA RoundsAlways == Spec => []RoundsInv
<1>1. Init => RoundsInv
  <2> SUFFICES ASSUME Init PROVE RoundsInv
    OBVIOUS
  <2>1. walkthroughs = <<>> /\ DOMAIN walkthroughs = {} /\ status = "absent"
    BY DEF Init
  <2> QED BY <2>1 DEF RoundsInv, RoundsAnswerFailures, Approved, LastPassed
<1> QED BY <1>1, RoundsStep, TypeCorrect, ProgressMatches, PTL DEF Spec

\* Every round after the first visits exactly what failed before, on a later
\* revision of the signs.
THEOREM RoundsInOrder == Spec => []RoundsAnswerFailures
BY RoundsAlways, RoundsInvEnough, PTL

\* What is approved was walked: every node passed the last round that visited
\* it, and the last round saw the signs that are approved.
THEOREM ApprovedIsWalked == Spec => []EveryNodePassedAtApproval
BY RoundsAlways, RoundsInvEnough, PTL

-----------------------------------------------------------------------------
(* What a passed walkthrough settles. *)

\* A command on an approved project, Validate or FreezePackage, keeps what was
\* reviewed, and the first alone sets the moment of validation.
LEMMA ContentStep ==
    TypeOK /\ StatusMatchesProgress /\ ReadyImpliesClean /\ [Next]_vars
        => [Approved => /\ Approved' /\ Reviewed' = Reviewed
                        /\ Content' # Content => Validate /\ status = "ready_for_approval"]_vars
<1> DEFINE Settled == /\ Approved' /\ Reviewed' = Reviewed
                      /\ Content' # Content => Validate /\ status = "ready_for_approval"
<1> SUFFICES ASSUME TypeOK, StatusMatchesProgress, ReadyImpliesClean, Next, Approved
             PROVE  Settled
  OBVIOUS
<1>1. ASSUME Validate
      PROVE  Settled
  <2>1. /\ Reviewing /\ issues \in IssueTable
    BY <1>1 DEF Approved, Reviewing, TypeOK
  <2>2. /\ validatedSignsRevision = signsRevision
        /\ \A k \in IssueKeys : ~Fires(survey, signs, k)
    BY <2>1 DEF ReadyImpliesClean
  <2>3. issues' = issues
    <3>1. issues' = [k \in IssueKeys |-> issues[k]]
      BY <1>1, <2>2 DEF Validate, MergeValidationIssues
    <3> QED BY <2>1, <3>1 DEF IssueTable
  <2>4. status' = status /\ status = "ready_for_approval"
    BY <1>1 DEF Validate, Approved
  <2>5. UNCHANGED <<survey, signs, signsRevision, validatedSignsRevision, walkthroughs, reviewer>>
    BY <1>1, <2>2 DEF Validate
  <2>6. Reviewed' = Reviewed
    <3> DEFINE Payload(moment) ==
                 [survey                 |-> survey,
                  signs                  |-> signs,
                  signsRevision          |-> signsRevision,
                  validatedSignsRevision |-> validatedSignsRevision,
                  issues                 |-> issues,
                  validatedAt            |-> moment,
                  walkthroughs           |-> Unsigned(walkthroughs),
                  approvedBy             |-> reviewer]
    <3>1. Content = Payload(validatedAt)
      BY DEF Content, CanonicalPayload, Unsigned
    <3>2. Content' = Payload(validatedAt')
      BY <2>3, <2>5 DEF Content, CanonicalPayload, Unsigned
    <3>3. Reviewed = Payload(NoMoment)
      BY <3>1 DEF Reviewed
    <3>4. Reviewed' = Payload(NoMoment)
      BY <3>2 DEF Reviewed
    <3> QED BY <3>3, <3>4
  <2>7. Approved'
    BY <2>4 DEF Approved
  <2>8. Content' # Content => Validate /\ status = "ready_for_approval"
    BY <1>1, <2>4, Zenon
  <2> QED BY <2>6, <2>7, <2>8, Zenon
<1>2. ASSUME NEW actor \in Actors, FreezePackage(actor)
      PROVE  Settled
  <2>1. actor = reviewer /\ status' = "frozen"
    BY <1>2 DEF FreezePackage, PreflightApproval, Transition
  <2>2. CanonicalPayload(walkthroughs', reviewer) = CanonicalPayload(walkthroughs, reviewer)
    BY <1>2, <2>1 DEF FreezePackage
  <2>3. Content' = CanonicalPayload(walkthroughs', reviewer)
    BY <1>2 DEF FreezePackage, Content, CanonicalPayload
  <2>4. Content' = Content
    BY <2>2, <2>3 DEF Content
  <2> QED BY <2>1, <2>4 DEF Approved, Reviewed
<1>3. ~ \E d, r \in Actors : CreateProject(d, r)
  BY DEF CreateProject, Transition, allowed, Approved
<1>4. ~ \E g \in Surveys : FreezeBaseline(g)
  BY DEF FreezeBaseline, Approved
<1>5. ~ \E plan \in Plans : ReplaceSigns(plan)
  BY DEF ReplaceSigns, Approved
<1>6. ~ \E key \in IssueKeys, plan \in Repairs \cup {<<>>} : ResolveIssue(key, plan)
  BY DEF ResolveIssue, Approved
<1>7. ~ Reverify
  BY DEF Reverify, Approved
<1>8. ~ \E actor \in Actors, failed \in SUBSET NodeIDs : Walkthrough(actor, failed)
  BY DEF Walkthrough, Approved
<1> HIDE DEF Settled
<1> QED BY <1>1, <1>2, <1>3, <1>4, <1>5, <1>6, <1>7, <1>8 DEF Next

\* From a passed walkthrough on, no command changes what was reviewed: not the
\* validation, which stays allowed until the freeze and sets only its moment in
\* the content to approve, and not the signature (project_ops.go:111-140,
\* service.go:57-105).
THEOREM ContentSettled == Spec => ApprovalKeepsContent
BY ContentStep, TypeCorrect, ProgressMatches, CleanFromWalkthroughOn, PTL
   DEF Spec, ApprovalKeepsContent

-----------------------------------------------------------------------------
(* The trail of evidence. *)

Histories == Seq(EvidenceVersion)

\* A list of issues that keeps the trail of another one, as EvidenceKept says it
\* of the lists before and after a step.
Keeps(new, old) ==
    /\ Len(new) >= Len(old)
    /\ \A i \in DOMAIN old : Extends(new[i].history, old[i].history)

\* Every history extends itself and what its predecessors extended.
LEMMA ExtendsOrder ==
    ASSUME NEW h \in Histories
    PROVE  /\ Extends(h, h)
           /\ \A i, j \in Histories : Extends(j, i) /\ Extends(i, h) => Extends(j, h)
<1>1. Len(h) \in Nat /\ DOMAIN h = 1..Len(h)
  BY LenProperties DEF Histories
<1>2. Extends(h, h)
  BY <1>1 DEF Extends
<1>3. ASSUME NEW i \in Histories, NEW j \in Histories, Extends(j, i), Extends(i, h)
      PROVE  Extends(j, h)
  <2>1. /\ Len(i) \in Nat /\ DOMAIN i = 1..Len(i)
        /\ Len(j) \in Nat /\ DOMAIN j = 1..Len(j)
    BY LenProperties DEF Histories
  <2>2. DOMAIN h \subseteq DOMAIN i
    BY <1>1, <1>3, <2>1 DEF Extends
  <2>3. Len(j) >= Len(h)
    BY <1>1, <1>3, <2>1 DEF Extends
  <2> QED BY <1>3, <2>2, <2>3 DEF Extends
<1> QED BY <1>2, <1>3

\* Closing or invalidating the latest version, or appending one, extends a history.
LEMMA LatestExtends ==
    ASSUME NEW h \in Histories, NEW v \in EvidenceVersion
    PROVE  /\ Extends(Append(h, v), h)
           /\ (/\ h # <<>>
               /\ v.signRevision = h[Len(h)].signRevision
               /\ v.valid => h[Len(h)].valid
               /\ h[Len(h)].closed => v.closed)
                 => Extends([h EXCEPT ![Len(h)] = v], h)
<1> DEFINE n == Len(h)
<1>1. n \in Nat /\ DOMAIN h = 1..n /\ h \in Seq(EvidenceVersion)
  BY LenProperties DEF Histories
<1>2. Extends(Append(h, v), h)
  <2>1. Len(Append(h, v)) = n + 1 /\ \A i \in 1..n : Append(h, v)[i] = h[i]
    BY <1>1, AppendProperties
  <2> QED BY <1>1, <2>1 DEF Extends
<1>3. ASSUME h # <<>>, v.signRevision = h[n].signRevision, v.valid => h[n].valid,
             h[n].closed => v.closed
      PROVE  Extends([h EXCEPT ![n] = v], h)
  <2> DEFINE w == [h EXCEPT ![n] = v]
  <2>1. n \in 1..n
    BY <1>1, <1>3, EmptySeq
  <2>2. Len(w) = n /\ \A i \in 1..n : w[i] = IF i = n THEN v ELSE h[i]
    BY <1>1, <2>1, ExceptSeq
  <2> HIDE DEF w
  <2>3. ASSUME NEW i \in DOMAIN h
        PROVE  /\ w[i].signRevision = h[i].signRevision
               /\ w[i].valid => h[i].valid
               /\ h[i].closed => w[i].closed
    <3>1. CASE i = n
      <4>1. w[i] = v /\ h[i] = h[n]
        BY <2>1, <2>2, <3>1
      <4> QED BY <1>3, <4>1, Zenon
    <3>2. CASE i # n
      <4>1. w[i] = h[i]
        BY <1>1, <2>2, <3>2
      <4> QED BY <4>1
    <3> QED BY <3>1, <3>2
  <2>4. Len(w) >= Len(h)
    <3>1. Len(w) = n
      BY <2>2
    <3> HIDE DEF n
    <3>2. Len(w) >= n
      BY <1>1, <3>1
    <3> QED BY <3>2 DEF n
  <2> QED BY <2>3, <2>4 DEF Extends, w
<1> QED BY <1>2, <1>3

\* An issue with another version in the place of its latest has the history one
\* expects.
LEMMA LatestReplaced ==
    ASSUME NEW issue \in ValidationIssue, NEW v
    PROVE  WithLatest(issue, v).history = [issue.history EXCEPT ![Len(issue.history)] = v]
  BY DEF WithLatest, ValidationIssue

\* Neither invalidating an issue (rules.go:138-162) nor judging it again
\* (rules.go:164-221) shortens its history or undoes a mark.
LEMMA IssueKeepsTrail ==
    ASSUME NEW issue \in ValidationIssue, NEW firing
    PROVE  /\ Extends(InvalidatedIssue(issue).history, issue.history)
           /\ Extends(ReverifiedIssue(issue, firing).history, issue.history)
<1> DEFINE h == issue.history
<1>1. h \in Histories /\ Extends(h, h)
  BY ExtendsOrder DEF ValidationIssue, Histories
<1>2. CASE ~Eligible(issue)
  <2>1. InvalidatedIssue(issue).history = h
    BY <1>2 DEF InvalidatedIssue
  <2>2. ReverifiedIssue(issue, firing).history = h
    BY <1>2 DEF ReverifiedIssue, ValidationIssue
  <2> QED BY <1>1, <2>1, <2>2
<1>3. CASE Eligible(issue)
  <2> DEFINE last == h[Len(h)]
             off == [last EXCEPT !.valid = FALSE]
             shut == [last EXCEPT !.closed = TRUE]
  <2>1. h # <<>> /\ last \in EvidenceVersion /\ Latest(issue) = last
    BY <1>3, IssueFacts DEF Eligible, HasEvidence, Latest
  <2> HIDE DEF last
  <2>2. /\ off \in EvidenceVersion /\ off.signRevision = last.signRevision
        /\ ~off.valid /\ off.closed = last.closed
        /\ shut \in EvidenceVersion /\ shut.signRevision = last.signRevision
        /\ shut.valid = last.valid /\ shut.closed
    BY <2>1 DEF EvidenceVersion
  <2> HIDE DEF off, shut
  <2>3. /\ Extends([h EXCEPT ![Len(h)] = off], h)
        /\ Extends([h EXCEPT ![Len(h)] = shut], h)
    BY <1>1, <2>1, <2>2, LatestExtends DEF last
  <2>4. InvalidatedIssue(issue).history = [h EXCEPT ![Len(h)] = off]
    <3>1. InvalidatedIssue(issue) = [WithLatest(issue, off) EXCEPT !.status = "open"]
      BY <1>3, <2>1 DEF InvalidatedIssue, off
    <3>2. WithLatest(issue, off) \in ValidationIssue
      BY <1>3, <2>2, IssueFacts DEF Eligible
    <3> QED BY <3>1, <3>2, LatestReplaced DEF ValidationIssue
  <2>5. CASE firing
    <3>1. ReverifiedIssue(issue, firing) = [issue EXCEPT !.status = "open"]
      BY <2>5 DEF ReverifiedIssue
    <3>2. ReverifiedIssue(issue, firing).history = h
      BY <3>1 DEF ValidationIssue
    <3> QED BY <1>1, <2>3, <2>4, <3>2
  <2>6. CASE ~firing
    <3>1. ReverifiedIssue(issue, firing) = [WithLatest(issue, shut) EXCEPT !.status = "resolved"]
      BY <1>3, <2>1, <2>6 DEF ReverifiedIssue, shut
    <3>2. WithLatest(issue, shut) \in ValidationIssue
      BY <1>3, <2>2, IssueFacts DEF Eligible
    <3>3. ReverifiedIssue(issue, firing).history = [h EXCEPT ![Len(h)] = shut]
      BY <3>1, <3>2, LatestReplaced DEF ValidationIssue
    <3> QED BY <2>3, <2>4, <3>3
  <2> QED BY <2>5, <2>6
<1> QED BY <1>2, <1>3

\* A change of signs and a reverification keep every trail of a table; a
\* resolution lengthens one of them.
LEMMA TableKeepsTrail ==
    ASSUME NEW table \in IssueTable, NEW k \in IssueKeys
    PROVE  /\ Keeps(table[k], table[k])
           /\ \A old, new : Keeps(InvalidateEvidence(table, old, new)[k], table[k])
           /\ Keeps(ReverifyIssues(table)[k], table[k])
           /\ \A key \in IssueKeys, rev \in Nat :
                 table[key] # <<>> => Keeps(AppendResolution(table, key, rev)[k], table[k])
<1> DEFINE l == table[k]
<1>1. /\ l \in Seq(ValidationIssue) /\ Len(l) \in Nat /\ DOMAIN l = 1..Len(l)
      /\ \A i \in DOMAIN l : l[i] \in ValidationIssue /\ l[i].history \in Histories
  BY TableEntry DEF ValidationIssue, Histories
<1>2. Keeps(l, l)
  BY <1>1, ExtendsOrder DEF Keeps
<1>3. ASSUME NEW old, NEW new
      PROVE  Keeps(InvalidateEvidence(table, old, new)[k], l)
  <2> DEFINE r == [i \in DOMAIN l |-> InvalidatedIssue(l[i])]
  <2>1. Keeps(r, l)
    <3>1. r \in [1..Len(l) -> ValidationIssue]
      BY <1>1, InvalidatedIssueType
    <3>2. Len(r) = Len(l)
      BY <1>1, <3>1, FunctionIsSeq
    <3>3. \A i \in DOMAIN l : Extends(r[i].history, l[i].history)
      BY <1>1, IssueKeepsTrail
    <3> HIDE DEF r, l
    <3> QED BY <1>1, <3>2, <3>3 DEF Keeps
  <2>2. InvalidateEvidence(table, old, new)[k] \in {r, l}
    BY DEF InvalidateEvidence
  <2> HIDE DEF r, l
  <2> QED BY <1>2, <2>1, <2>2
<1>4. Keeps(ReverifyIssues(table)[k], l)
  <2> DEFINE r == [i \in DOMAIN l |-> ReverifiedIssue(l[i], Fires(survey, signs, k))]
  <2>1. CASE l = <<>> /\ Fires(survey, signs, k)
    <3>1. ReverifyIssues(table)[k] = <<NewIssue>>
      BY <2>1 DEF ReverifyIssues
    <3>2. Len(<<NewIssue>>) = 1 /\ Len(l) = 0 /\ DOMAIN l = {}
      BY <2>1
    <3> HIDE DEF l
    <3> QED BY <3>1, <3>2 DEF Keeps
  <2>2. CASE ~(l = <<>> /\ Fires(survey, signs, k))
    <3>1. r \in [1..Len(l) -> ValidationIssue]
      <4>1. Fires(survey, signs, k) \in BOOLEAN
        BY DEF Fires
      <4> QED BY <1>1, <4>1, ReverifiedIssueFacts
    <3>2. Len(r) = Len(l)
      BY <1>1, <3>1, FunctionIsSeq
    <3>3. \A i \in DOMAIN l : Extends(r[i].history, l[i].history)
      BY <1>1, IssueKeepsTrail
    <3>4. ReverifyIssues(table)[k] = r
      BY <2>2 DEF ReverifyIssues
    <3> HIDE DEF r, l
    <3> QED BY <1>1, <3>2, <3>3, <3>4 DEF Keeps
  <2> QED BY <2>1, <2>2
<1>5. ASSUME NEW key \in IssueKeys, NEW rev \in Nat, table[key] # <<>>
      PROVE  Keeps(AppendResolution(table, key, rev)[k], l)
  <2> DEFINE v == [signRevision |-> rev, valid |-> TRUE, closed |-> FALSE]
             h == table[key][1].history
             x == [status |-> "open", history |-> Append(h, v)]
             s == [table[key] EXCEPT ![1] = x]
  <2>1. AppendResolution(table, key, rev) = [table EXCEPT ![key] = s]
    BY <1>5, TableEntry DEF AppendResolution, IssueTable
  <2>2. CASE k # key
    <3>1. AppendResolution(table, key, rev)[k] = l
      BY <2>1, <2>2 DEF IssueTable
    <3> HIDE DEF l
    <3> QED BY <1>2, <3>1
  <2>3. CASE k = key
    <3>1. h \in Histories /\ v \in EvidenceVersion /\ 1 \in 1..Len(l)
      BY <1>1, <1>5, <2>3, TableEntry DEF EvidenceVersion
    <3>2. Extends(Append(h, v), h)
      BY <3>1, LatestExtends
    <3>3. AppendResolution(table, key, rev)[k] = s
      BY <2>1, <2>3 DEF IssueTable
    <3>4. x \in ValidationIssue
      <4>1. Append(h, v) \in Seq(EvidenceVersion)
        BY <3>1, AppendProperties DEF Histories
      <4> QED BY <4>1 DEF ValidationIssue
    <3>5. x.history = Append(h, v)
      OBVIOUS
    <3> HIDE DEF x
    <3>6. Len(s) = Len(l) /\ \A i \in 1..Len(l) : s[i] = IF i = 1 THEN x ELSE l[i]
      BY <1>1, <2>3, <3>1, <3>4, ExceptSeq
    <3>7. ASSUME NEW i \in DOMAIN l
          PROVE  Extends(s[i].history, l[i].history)
      <4>1. CASE i = 1
        <5>1. s[i] = x /\ l[i].history = h
          BY <1>1, <2>3, <3>6, <4>1
        <5> QED BY <3>2, <3>5, <5>1
      <4>2. CASE i # 1
        <5>1. s[i] = l[i] /\ l[i].history \in Histories
          BY <1>1, <3>6, <4>2
        <5> QED BY <5>1, ExtendsOrder
      <4> QED BY <4>1, <4>2
    <3> HIDE DEF s, l
    <3> QED BY <1>1, <3>3, <3>6, <3>7 DEF Keeps
  <2> QED BY <2>2, <2>3
<1> HIDE DEF l
<1> QED BY <1>2, <1>3, <1>4, <1>5 DEF l

\* A validation keeps the trail of an issue that shares its id with no other
\* (rules.go:223-250).
LEMMA MergeKeepsTrail ==
    ASSUME NEW table \in IssueTable, survey \in SurveyGraph, IsFiniteSet(signs),
           NEW k \in IssueKeys, Len(table[k]) <= 1
    PROVE  Keeps(MergeValidationIssues(table)[k], table[k])
<1> DEFINE l == table[k]
           r == MergeValidationIssues(table)[k]
           n == Count(survey, signs, k)
           x == [l[1] EXCEPT !.status = "open"]
<1>1. /\ Len(l) \in Nat /\ DOMAIN l = 1..Len(l)
      /\ l # <<>> => Len(l) = 1 /\ l[1] \in ValidationIssue
  <2>1. /\ Len(l) \in Nat /\ DOMAIN l = 1..Len(l)
        /\ \A i \in DOMAIN l : l[i] \in ValidationIssue
        /\ l # <<>> => 1 \in DOMAIN l
    BY TableEntry, Zenon
  <2> HIDE DEF l
  <2>2. Len(l) <= 1
    BY DEF l
  <2> QED BY <2>1, <2>2
<1>2. CASE ~Fires(survey, signs, k)
  <2>1. r = l
    BY <1>2 DEF MergeValidationIssues
  <2> QED BY <2>1, TableKeepsTrail
<1>3. CASE Fires(survey, signs, k)
  <2>1. n \in Nat /\ n >= 1
    BY <1>3, CountPositive
  <2>2. CASE l = <<>>
    <3>1. r = Copies(n, NewIssue)
      BY <1>3, <2>2 DEF MergeValidationIssues
    <3>2. Len(Copies(n, NewIssue)) = n
      BY <2>1, CopiesType, NewIssueType
    <3>3. Len(l) = 0 /\ DOMAIN l = {}
      BY <2>2
    <3> HIDE DEF l, r, n
    <3> QED BY <2>1, <3>1, <3>2, <3>3 DEF Keeps, l, r
  <2>3. CASE l # <<>>
    <3>1. Len(l) = 1 /\ DOMAIN l = {1} /\ l[1] \in ValidationIssue
      BY <1>1, <2>3
    <3>2. r = Copies(n, x)
      BY <1>3, <2>3, <3>1 DEF MergeValidationIssues
    <3>3. x \in ValidationIssue /\ x.history = l[1].history /\ l[1].history \in Histories
      BY <3>1 DEF ValidationIssue, Histories
    <3> HIDE DEF x
    <3>4. Len(Copies(n, x)) = n /\ Copies(n, x)[1] = x
      BY <2>1, <3>3, CopiesType
    <3>5. Extends(x.history, l[1].history)
      BY <3>3, ExtendsOrder
    <3> HIDE DEF l, r, n
    <3>6. Keeps(r, l)
      BY <2>1, <3>1, <3>2, <3>4, <3>5 DEF Keeps
    <3> QED BY <3>6 DEF l, r
  <2> QED BY <2>2, <2>3
<1> QED BY <1>2, <1>3

\* Every step keeps every trail, but for a validation of issues with one id.
LEMMA TrailStep ==
    TypeOK /\ StatusMatchesProgress /\ [Next]_vars
        => [\A k \in IssueKeys : EvidenceKept(k) \/ (Validate /\ Len(issues[k]) > 1)]_vars
<1> SUFFICES ASSUME TypeOK, StatusMatchesProgress, Next, NEW k \in IssueKeys
             PROVE  EvidenceKept(k) \/ (Validate /\ Len(issues[k]) > 1)
  OBVIOUS
<1>1. issues \in IssueTable /\ Len(issues[k]) \in Nat
  BY TableEntry DEF TypeOK
<1>2. Keeps(issues'[k], issues[k]) => EvidenceKept(k)
  BY DEF Keeps, EvidenceKept
<1>3. CASE UNCHANGED issues
  <2>1. Keeps(issues[k], issues[k])
    BY <1>1, TableKeepsTrail
  <2> QED BY <1>2, <1>3, <2>1
<1>4. ASSUME NEW plan \in Plans, ReplaceSigns(plan)
      PROVE  EvidenceKept(k)
  <2>1. issues' = InvalidateEvidence(issues, signs, signs')
    BY <1>4 DEF ReplaceSigns
  <2>2. Keeps(InvalidateEvidence(issues, signs, signs')[k], issues[k])
    BY <1>1, TableKeepsTrail
  <2> QED BY <1>2, <2>1, <2>2
<1>5. ASSUME Validate
      PROVE  EvidenceKept(k) \/ Len(issues[k]) > 1
  <2>1. survey \in SurveyGraph /\ IsFiniteSet(signs)
    BY <1>5, KnownSurvey DEF Validate, StatusMatchesProgress
  <2>2. issues' = MergeValidationIssues(issues)
    BY <1>5 DEF Validate
  <2>3. Len(issues[k]) <= 1 => Keeps(MergeValidationIssues(issues)[k], issues[k])
    BY <1>1, <2>1, MergeKeepsTrail
  <2> QED BY <1>1, <1>2, <2>2, <2>3
<1>6. ASSUME NEW key \in IssueKeys, NEW plan \in Repairs \cup {<<>>}, ResolveIssue(key, plan)
      PROVE  EvidenceKept(k)
  <2> DEFINE t == InvalidateEvidence(issues, signs, signs')
  <2>1. t \in IssueTable
    BY <1>1, InvalidateType
  <2>2. Keeps(t[k], issues[k]) /\ Keeps(t[key], issues[key])
    BY <1>1, TableKeepsTrail
  <2>3. signsRevision' \in Nat
    BY <1>6, TypeStep DEF TypeOK, Next
  <2>4. issues' = AppendResolution(t, key, signsRevision') /\ issues[key] # <<>>
    BY <1>6 DEF ResolveIssue
  <2> HIDE DEF t
  <2>5. t[key] # <<>>
    BY <1>1, <2>1, <2>2, <2>4, TableEntry DEF Keeps
  <2>6. Keeps(issues'[k], t[k]) /\ issues'[k] \in Seq(ValidationIssue)
    <3>1. Keeps(AppendResolution(t, key, signsRevision')[k], t[k])
      BY <2>1, <2>3, <2>5, TableKeepsTrail
    <3>2. AppendResolution(t, key, signsRevision') \in IssueTable
      BY <2>1, <2>3, <2>5, AppendFacts
    <3> QED BY <2>4, <3>1, <3>2, TableEntry
  <2>7. Keeps(issues'[k], issues[k])
    <3>1. /\ Len(t[k]) \in Nat /\ DOMAIN t[k] = 1..Len(t[k])
          /\ DOMAIN issues[k] = 1..Len(issues[k])
          /\ Len(issues'[k]) \in Nat /\ DOMAIN issues'[k] = 1..Len(issues'[k])
      BY <1>1, <2>1, <2>6, TableEntry, LenProperties
    <3>2. Len(issues'[k]) >= Len(t[k]) /\ Len(t[k]) >= Len(issues[k])
      BY <2>2, <2>6 DEF Keeps
    <3>3. ASSUME NEW i \in DOMAIN issues[k]
          PROVE  Extends(issues'[k][i].history, issues[k][i].history)
      <4>1. i \in DOMAIN t[k] /\ i \in DOMAIN issues'[k]
        BY <1>1, <3>1, <3>2
      <4>2. /\ issues[k][i] \in ValidationIssue /\ t[k][i] \in ValidationIssue
            /\ issues'[k][i] \in ValidationIssue
        BY <1>1, <2>1, <2>6, <3>1, <4>1, TableEntry, ElementOfSeq
      <4>3. Extends(issues'[k][i].history, t[k][i].history)
            /\ Extends(t[k][i].history, issues[k][i].history)
        BY <2>2, <2>6, <4>1 DEF Keeps
      <4> QED BY <4>2, <4>3, ExtendsOrder DEF ValidationIssue, Histories
    <3> QED BY <1>1, <3>1, <3>2, <3>3 DEF Keeps
  <2> QED BY <1>2, <2>7
<1>7. ASSUME Reverify
      PROVE  EvidenceKept(k)
  <2>1. issues' = ReverifyIssues(issues)
    BY <1>7 DEF Reverify
  <2>2. Keeps(ReverifyIssues(issues)[k], issues[k])
    BY <1>1, TableKeepsTrail
  <2> QED BY <1>2, <2>1, <2>2
<1> QED BY <1>3, <1>4, <1>5, <1>6, <1>7
        DEF Next, CreateProject, FreezeBaseline, Walkthrough, FreezePackage

\* Evidence is never removed, made valid again or unmarked, whatever the survey,
\* but by a validation where several issues have one id (rules.go:117-250).
THEOREM TrailKept == Spec => EvidenceIsATrail
BY TrailStep, TypeCorrect, ProgressMatches, PTL DEF Spec, EvidenceIsATrail

-----------------------------------------------------------------------------
(* The promise of a release. *)

\* What the mapping to ReleasePromise needs besides: a project that exists has a
\* designer, and the last round was walked by its reviewer.
LastRoundInv ==
    /\ status = "absent" <=> designer = NoActor
    /\ walkthroughs # <<>> => LastReview.reviewer = reviewer

\* The last round after a walkthrough is the one just walked.
LEMMA WalkedRound ==
    ASSUME TypeOK, StatusMatchesProgress,
           NEW actor \in Actors, NEW failed \in SUBSET NodeIDs, Walkthrough(actor, failed)
    PROVE  /\ walkthroughs' # <<>>
           /\ LastReview'.reviewer = actor /\ LastReview'.failed = failed
<1> DEFINE m == Len(walkthroughs)
           round == [reviewer |-> actor, checkpoints |-> ExpectedWalkthroughRoute,
                     failed |-> failed, targeted |-> Targeted,
                     signRevision |-> signsRevision, signed |-> FALSE]
<1>1. /\ walkthroughs \in Seq(WalkthroughReview)
      /\ walkthroughs' = Append(walkthroughs, round)
  BY DEF TypeOK, Walkthrough
<1>2. round \in WalkthroughReview
  <2>1. ExpectedWalkthroughRoute \subseteq NodeIDs
    BY RouteType DEF Walkthrough, ExpectedWalkthroughRoute
  <2>2. Targeted \in BOOLEAN /\ signsRevision \in Nat
    BY DEF Targeted, Failed, TypeOK
  <2> QED BY <2>1, <2>2 DEF WalkthroughReview
<1>3. round.reviewer = actor /\ round.failed = failed
  OBVIOUS
<1> HIDE DEF round
<1>4. Len(walkthroughs') = m + 1 /\ walkthroughs'[m + 1] = round /\ walkthroughs' # <<>>
  BY <1>1, <1>2, AppendProperties
<1> QED BY <1>3, <1>4 DEF LastReview

\* The last round after a freeze is the last one before, signed.
LEMMA SignedRound ==
    ASSUME TypeOK, NEW actor \in Actors, FreezePackage(actor)
    PROVE  /\ walkthroughs # <<>> /\ walkthroughs' # <<>>
           /\ LastReview'.reviewer = LastReview.reviewer
           /\ LastReview'.failed = LastReview.failed
<1> DEFINE m == Len(walkthroughs)
           round == [walkthroughs[m] EXCEPT !.signed = TRUE]
<1>1. /\ walkthroughs \in Seq(WalkthroughReview) /\ m \in Nat /\ walkthroughs # <<>>
      /\ walkthroughs' = [walkthroughs EXCEPT ![m] = round]
  BY LenProperties DEF TypeOK, FreezePackage, PreflightApproval, LastPassed
<1>2. m \in 1..m
  BY <1>1, EmptySeq
<1>3. walkthroughs[m] \in WalkthroughReview
  BY <1>1, <1>2, ElementOfSeq
<1>4. /\ round \in WalkthroughReview
      /\ round.reviewer = walkthroughs[m].reviewer
      /\ round.failed = walkthroughs[m].failed
  BY <1>3 DEF WalkthroughReview
<1> HIDE DEF round
<1>5. Len(walkthroughs') = m /\ walkthroughs'[m] = round
  BY <1>1, <1>2, <1>4, ExceptSeq
<1>6. walkthroughs' # <<>>
  BY <1>2, <1>5, EmptySeq
<1> QED BY <1>1, <1>4, <1>5, <1>6 DEF LastReview

\* Every command keeps the invariant of the last round.
LEMMA LastRoundStep ==
    TypeOK /\ StatusMatchesProgress /\ RoundsInv /\ LastRoundInv /\ [Next]_vars
        => LastRoundInv'
<1> SUFFICES ASSUME TypeOK, StatusMatchesProgress, RoundsInv, LastRoundInv, [Next]_vars
             PROVE  LastRoundInv'
  OBVIOUS
<1>1. ASSUME UNCHANGED <<designer, reviewer, walkthroughs>>,
             status' = "absent" <=> status = "absent"
      PROVE  LastRoundInv'
  BY <1>1 DEF LastRoundInv, LastReview
<1>2. ASSUME NEW d \in Actors, NEW r \in Actors, CreateProject(d, r)
      PROVE  LastRoundInv'
  <2>1. status = "absent"
    BY <1>2 DEF CreateProject, Transition, allowed, TypeOK, Statuses
  <2>2. walkthroughs' = <<>>
    BY <1>2, <2>1 DEF CreateProject, StatusMatchesProgress, RoundsInv
  <2>3. status' # "absent" /\ designer' # NoActor
    BY <1>2, ActorAssumption DEF CreateProject, Transition
  <2> QED BY <2>2, <2>3 DEF LastRoundInv
<1>3. ASSUME NEW g \in Surveys, FreezeBaseline(g)
      PROVE  LastRoundInv'
  BY <1>1, <1>3 DEF FreezeBaseline, Transition
<1>4. ASSUME NEW plan \in Plans, ReplaceSigns(plan)
      PROVE  LastRoundInv'
  BY <1>1, <1>4 DEF ReplaceSigns
<1>5. ASSUME Validate
      PROVE  LastRoundInv'
  BY <1>1, <1>5 DEF Validate
<1>6. ASSUME NEW key \in IssueKeys, NEW plan \in Repairs \cup {<<>>}, ResolveIssue(key, plan)
      PROVE  LastRoundInv'
  BY <1>1, <1>6 DEF ResolveIssue
<1>7. ASSUME Reverify
      PROVE  LastRoundInv'
  BY <1>1, <1>7 DEF Reverify, Transition
<1>8. ASSUME NEW actor \in Actors, NEW failed \in SUBSET NodeIDs, Walkthrough(actor, failed)
      PROVE  LastRoundInv'
  <2>1. LastReview'.reviewer = actor
    BY <1>8, WalkedRound
  <2>2. /\ actor = reviewer /\ UNCHANGED <<designer, reviewer>>
        /\ status # "absent" /\ status' # "absent"
    BY <1>8 DEF Walkthrough, Transition
  <2> QED BY <2>1, <2>2 DEF LastRoundInv
<1>9. ASSUME NEW actor \in Actors, FreezePackage(actor)
      PROVE  LastRoundInv'
  <2>1. walkthroughs # <<>> /\ LastReview'.reviewer = LastReview.reviewer
    BY <1>9, SignedRound
  <2>2. /\ UNCHANGED <<designer, reviewer>>
        /\ status # "absent" /\ status' # "absent"
    BY <1>9 DEF FreezePackage, PreflightApproval, Transition
  <2> QED BY <2>1, <2>2 DEF LastRoundInv
<1>10. ASSUME UNCHANGED vars
       PROVE  LastRoundInv'
  BY <1>1, <1>10 DEF vars
<1> QED BY <1>2, <1>3, <1>4, <1>5, <1>6, <1>7, <1>8, <1>9, <1>10 DEF Next

\* The invariant of the last round holds of every reachable project.
LEMMA LastRoundAlways == Spec => []LastRoundInv
<1>1. Init => LastRoundInv
  BY DEF Init, LastRoundInv
<1> QED BY <1>1, LastRoundStep, RoundsAlways, TypeCorrect, ProgressMatches, PTL DEF Spec

\* A new project promises nothing yet.
LEMMA PromiseInit == Init => Promise!Init
  BY DEF Init, Promise!Init, phase, walker, toPass, untouched, Targeted, released

\* The walkthroughs and the status stay what they mean to the promise.
LEMMA PromiseKept ==
    ASSUME UNCHANGED <<survey, walkthroughs, walkthroughRemediated, package>>, phase' = phase,
           (status' = "frozen") <=> (status = "frozen")
    PROVE  UNCHANGED <<phase, walker, toPass, untouched, released>>
<1>1. LastReview' = LastReview
  BY DEF LastReview
<1> QED BY <1>1 DEF walker, toPass, untouched, Targeted, released

\* An accepted change of the signs is an edit of the plan (signs.go:52-110).
LEMMA PromiseEdit ==
    ASSUME TypeOK, StatusMatchesProgress, RoundsInv, LastRoundInv,
           NEW plan \in Plans \cup Repairs, InstallSigns(plan),
           UNCHANGED <<designer, survey, walkthroughs, package>>,
           phase = "editing", phase' = "editing", status \notin {"absent", "draft"}
    PROVE  Promise!Edit
<1>1. PlanOK(survey, signs') /\ survey # NoSurvey
  BY InstallFacts DEF PlanOK, StatusMatchesProgress
<1>2. LastReview' = LastReview
  BY DEF LastReview
<1>3. untouched' = untouched \ Touches(signs, signs')
  <2>1. walkthroughRemediated' = MarkWalkthroughRemediation(signs, signs')
    BY DEF InstallSigns
  <2>2. Targeted' = Targeted
    BY <1>2 DEF Targeted
  <2>3. CASE Targeted
    BY <1>2, <2>1, <2>2, <2>3 DEF untouched, MarkWalkthroughRemediation, Touches
  <2>4. CASE ~Targeted
    BY <2>2, <2>4 DEF untouched
  <2> QED BY <2>3, <2>4
<1>4. UNCHANGED <<walker, toPass>>
  BY <1>2 DEF walker, toPass
<1>5. status # "frozen" /\ status' # "frozen"
  BY DEF phase
<1>6. UNCHANGED released
  BY <1>5 DEF released
<1> QED BY <1>1, <1>3, <1>4, <1>6 DEF Promise!Edit

\* A command that leaves plan and rounds alone offers the plan to the reviewer,
\* which is then clean, or does nothing (project_ops.go:128-140,
\* review_ops.go:36-58).
LEMMA PromiseOffer ==
    ASSUME StatusMatchesProgress, ReadyImpliesClean',
           UNCHANGED <<designer, survey, signs, walkthroughs, walkthroughRemediated, package>>,
           status' = status
             \/ (status \in {"baseline_frozen", "needs_remediation", "walkthrough_failed"}
                  /\ status' \in {"needs_remediation", "ready_for_walkthrough"})
    PROVE  Promise!Offer \/ UNCHANGED Promise!promiseVars
<1>1. CASE phase' = phase
  <2>1. (status' = "frozen") <=> (status = "frozen")
    BY <1>1 DEF phase
  <2>2. UNCHANGED <<phase, walker, toPass, untouched, released>>
    BY <1>1, <2>1, PromiseKept
  <2> QED BY <2>2 DEF Promise!promiseVars
<1>2. CASE phase' # phase
  <2>1. /\ status \in {"baseline_frozen", "needs_remediation", "walkthrough_failed"}
        /\ status' = "ready_for_walkthrough"
    BY <1>2 DEF phase
  <2>2. phase = "editing" /\ phase' = "walking" /\ survey # NoSurvey
    BY <2>1 DEF phase, StatusMatchesProgress
  <2>3. RulesQuiet(survey, signs)
    <3>1. signs' # {} /\ \A k \in IssueKeys : ~Fires(survey', signs', k)
      BY <2>1 DEF ReadyImpliesClean, Reviewing
    <3> QED BY <3>1 DEF RulesQuiet
  <2>4. LastReview' = LastReview
    BY DEF LastReview
  <2>5. UNCHANGED <<walker, toPass, untouched, released>>
    BY <2>1, <2>4 DEF walker, toPass, untouched, Targeted, released
  <2> QED BY <2>2, <2>3, <2>5 DEF Promise!Offer
<1> QED BY <1>1, <1>2

\* A walkthrough is a walk of what has not passed, by someone who is not the
\* designer, after edits touched every place that failed (review_ops.go:60-107).
LEMMA PromiseWalk ==
    ASSUME TypeOK, StatusMatchesProgress, RoundsInv, LastRoundInv,
           NEW actor \in Actors, NEW failed \in SUBSET NodeIDs, Walkthrough(actor, failed)
    PROVE  Promise!Walk
<1>1. /\ walkthroughs' # <<>>
      /\ LastReview'.reviewer = actor /\ LastReview'.failed = failed
  BY WalkedRound
<1>2. /\ status = "ready_for_walkthrough" /\ actor # designer
      /\ UNCHANGED <<designer, survey, signs, package>>
      /\ failed \subseteq ExpectedWalkthroughRoute
      /\ Targeted => TargetedRoundReady
      /\ status' = IF failed # {} THEN "walkthrough_failed" ELSE "ready_for_approval"
      /\ failed # {} => walkthroughRemediated' = {}
  BY DEF Walkthrough, Transition
<1>3. walkthroughs # <<>> => Targeted
  BY <1>2 DEF RoundsInv, Approved, LastPassed, Targeted, LastReview
<1>4. untouched = {}
  BY <1>2 DEF untouched, TargetedRoundReady, TargetedRemediationComplete
<1>5. untouched' = failed
  BY <1>1, <1>2 DEF untouched, Targeted, Failed
<1>6. walker' = actor /\ actor # NoActor
  BY <1>1, ActorAssumption DEF walker
<1>7. toPass' = failed /\ failed \subseteq toPass
  <2>1. toPass' = failed
    BY <1>1 DEF toPass
  <2>2. survey # NoSurvey
    BY <1>2 DEF StatusMatchesProgress
  <2>3. ExpectedWalkthroughRoute \subseteq toPass
    BY <1>3, <2>2 DEF ExpectedWalkthroughRoute, RouteAfter, toPass, Targeted, LastReview
  <2> QED BY <1>2, <2>1, <2>3
<1>8. /\ phase = "walking"
      /\ phase' = IF toPass' = {} THEN "approved" ELSE "editing"
  BY <1>2, <1>7 DEF phase
<1>9. UNCHANGED released
  BY <1>2 DEF released
<1> QED BY <1>2, <1>4, <1>5, <1>6, <1>7, <1>8, <1>9 DEF Promise!Walk

\* A freeze releases the plan that passed, under the name of who walked it
\* (review_ops.go:109-144, package.go:53-92).
LEMMA PromiseRelease ==
    ASSUME TypeOK, LastRoundInv, NEW actor \in Actors, FreezePackage(actor)
    PROVE  Promise!Release
<1>1. /\ walkthroughs # <<>> /\ walkthroughs' # <<>>
      /\ LastReview'.reviewer = LastReview.reviewer
      /\ LastReview'.failed = LastReview.failed
  BY SignedRound
<1>2. /\ status = "ready_for_approval" /\ status' = "frozen" /\ actor = reviewer
      /\ UNCHANGED <<designer, survey, signs, walkthroughRemediated>>
  BY DEF FreezePackage, PreflightApproval, Transition
<1>3. /\ package'.approvedBy = actor
      /\ package'.payload.survey = survey
      /\ package'.payload.signs = signs
  BY DEF FreezePackage, CanonicalPayload
<1>4. walker = actor
  BY <1>1, <1>2 DEF walker, LastRoundInv
<1>5. released' = [survey |-> survey, plan |-> signs, by |-> walker]
  BY <1>2, <1>3, <1>4 DEF released
<1>6. UNCHANGED <<walker, toPass, untouched>>
  BY <1>1, <1>2 DEF walker, toPass, untouched, Targeted, Failed
<1>7. phase = "approved" /\ phase' = "released"
  BY <1>2 DEF phase
<1> QED BY <1>2, <1>5, <1>6, <1>7 DEF Promise!Release

\* Every command is a step of the promise or changes nothing it is about.
LEMMA PromiseStep ==
    TypeOK /\ StatusMatchesProgress /\ ReadyImpliesClean /\ ReadyImpliesClean' /\ RoundsInv
      /\ LastRoundInv /\ [Next]_vars => [Promise!Next]_(Promise!promiseVars)
<1> SUFFICES ASSUME TypeOK, StatusMatchesProgress, ReadyImpliesClean, ReadyImpliesClean',
                    RoundsInv, LastRoundInv, [Next]_vars
             PROVE  [Promise!Next]_(Promise!promiseVars)
  OBVIOUS
<1>1. ASSUME NEW d \in Actors, NEW r \in Actors, CreateProject(d, r)
      PROVE  Promise!Begin
  <2>1. /\ status = "absent" /\ status' = "draft" /\ designer = NoActor /\ designer' # NoActor
        /\ UNCHANGED <<survey, signs, walkthroughs, walkthroughRemediated, package>>
    BY <1>1, ActorAssumption
       DEF CreateProject, Transition, allowed, TypeOK, Statuses, LastRoundInv
  <2>2. phase' = phase /\ ((status' = "frozen") <=> (status = "frozen"))
    BY <2>1 DEF phase
  <2>3. UNCHANGED <<phase, walker, toPass, untouched, released>>
    BY <2>1, <2>2, PromiseKept
  <2> QED BY <2>1, <2>3 DEF Promise!Begin
<1>2. ASSUME NEW g \in Surveys, FreezeBaseline(g)
      PROVE  Promise!FixSurvey
  <2>1. /\ status = "draft" /\ status' = "baseline_frozen"
        /\ survey = NoSurvey /\ survey' = g /\ g # NoSurvey /\ PreflightBaseline(g)
        /\ UNCHANGED <<designer, signs, walkthroughs, walkthroughRemediated, package>>
    BY <1>2, SurveyAssumption DEF FreezeBaseline, Transition, StatusMatchesProgress
  <2>2. designer # NoActor /\ walkthroughs = <<>> /\ walkthroughs' = <<>>
    BY <2>1 DEF LastRoundInv, RoundsInv
  <2>3. UNCHANGED <<phase, walker, untouched, released>> /\ toPass' = NodesOf(survey')
    BY <2>1, <2>2 DEF phase, walker, untouched, Targeted, released, toPass
  <2> QED BY <2>1, <2>2, <2>3 DEF Promise!FixSurvey
<1>3. ASSUME NEW plan \in Plans, ReplaceSigns(plan)
      PROVE  Promise!Edit
  <2>1. /\ InstallSigns(plan) /\ status \notin {"absent", "draft"}
        /\ UNCHANGED <<designer, survey, walkthroughs, package>>
    BY <1>3 DEF ReplaceSigns
  <2>2. phase = "editing" /\ phase' = "editing"
    BY <1>3 DEF ReplaceSigns, phase
  <2> QED BY <2>1, <2>2, PromiseEdit
<1>4. ASSUME Validate
      PROVE  Promise!Offer \/ UNCHANGED Promise!promiseVars
  <2>1. /\ UNCHANGED <<designer, survey, signs, walkthroughs, walkthroughRemediated, package>>
        /\ \/ status' = status
           \/ /\ status \in {"baseline_frozen", "needs_remediation", "walkthrough_failed"}
              /\ status' \in {"needs_remediation", "ready_for_walkthrough"}
    BY <1>4 DEF Validate
  <2> QED BY <2>1, PromiseOffer
<1>5. ASSUME NEW key \in IssueKeys, NEW plan \in Repairs \cup {<<>>}, ResolveIssue(key, plan)
      PROVE  Promise!Edit \/ UNCHANGED Promise!promiseVars
  <2>1. /\ status \in {"needs_remediation", "walkthrough_failed"}
        /\ UNCHANGED <<status, designer, survey, walkthroughs, package>>
    BY <1>5 DEF ResolveIssue
  <2>2. phase = "editing" /\ phase' = "editing"
    BY <2>1 DEF phase
  <2>3. CASE plan # <<>>
    <3>1. plan \in Plans \cup Repairs /\ InstallSigns(plan)
      BY <1>5, <2>3 DEF ResolveIssue
    <3> QED BY <2>1, <2>2, <3>1, PromiseEdit
  <2>4. CASE plan = <<>>
    <3>1. UNCHANGED <<signs, walkthroughRemediated>>
      BY <1>5, <2>4 DEF ResolveIssue
    <3>2. UNCHANGED <<phase, walker, toPass, untouched, released>>
      BY <2>1, <2>2, <3>1, PromiseKept
    <3> QED BY <2>1, <3>1, <3>2 DEF Promise!promiseVars
  <2> QED BY <2>3, <2>4
<1>6. ASSUME Reverify
      PROVE  Promise!Offer \/ UNCHANGED Promise!promiseVars
  <2>1. /\ UNCHANGED <<designer, survey, signs, walkthroughs, walkthroughRemediated, package>>
        /\ \/ status' = status
           \/ /\ status \in {"baseline_frozen", "needs_remediation", "walkthrough_failed"}
              /\ status' \in {"needs_remediation", "ready_for_walkthrough"}
    BY <1>6 DEF Reverify, Transition
  <2> QED BY <2>1, PromiseOffer
<1>7. ASSUME NEW actor \in Actors, NEW failed \in SUBSET NodeIDs, Walkthrough(actor, failed)
      PROVE  Promise!Walk
  BY <1>7, PromiseWalk
<1>8. ASSUME NEW actor \in Actors, FreezePackage(actor)
      PROVE  Promise!Release
  BY <1>8, PromiseRelease
<1>9. ASSUME UNCHANGED vars
      PROVE  UNCHANGED Promise!promiseVars
  <2>1. /\ UNCHANGED <<status, designer, survey, signs, walkthroughs, walkthroughRemediated, package>>
    BY <1>9 DEF vars
  <2>2. phase' = phase
    BY <2>1 DEF phase
  <2>3. UNCHANGED <<phase, walker, toPass, untouched, released>>
    BY <2>1, <2>2, PromiseKept
  <2> QED BY <2>1, <2>3 DEF Promise!promiseVars
<1> QED BY <1>1, <1>2, <1>3, <1>4, <1>5, <1>6, <1>7, <1>8, <1>9 DEF Next, Promise!Next

\* The project keeps the promise of a release: no plan is walked that breaks a
\* rule, no place that failed is walked again before an edit touched it, and what
\* is released is the plan that passed, under the name of its reviewer
\* (project_ops.go, review_ops.go).
THEOREM KeepsPromise == Spec => IsReleasePromise
BY PromiseInit, PromiseStep, TypeCorrect, ProgressMatches, CleanFromWalkthroughOn,
   RoundsAlways, LastRoundAlways, PTL
   DEF Spec, IsReleasePromise, Promise!Spec
=============================================================================
