----------------------------- MODULE SurveyRules -----------------------------
(***************************************************************************)
(* The pure part of internal/domain: what a survey baseline must satisfy   *)
(* before it is frozen (preflight.go), which candidate signs are accepted  *)
(* and what changed between two plans (signs.go), which rules a plan       *)
(* breaks on a survey (rules.go) and whom a broken rule affects            *)
(* (impact.go).                                                            *)
(*                                                                         *)
(* Identifiers are tokens in their trimmed form; Blank is the string that  *)
(* is empty after trimming.  Lists keep their duplicates, which the code   *)
(* looks for; their order is not observed by any rule, except the order of *)
(* the sign ids, which are natural numbers here (0 is the blank id).       *)
(***************************************************************************)
EXTENDS Naturals, Integers, FiniteSets, SequencesExt

CONSTANTS NodeIDs,    \* identifiers a survey may use for its nodes
          Texts,      \* display texts, up to case and white space
          Blank       \* the trimmed empty string

ASSUME BlankAssumption == Blank \notin NodeIDs /\ Blank \notin Texts

Kinds == {"entrance", "decision", "destination"}
allowedDirections == {"straight", "forward", "left", "right", "back",
                      "u_turn", "up", "down", "arrive"}

AnyID == NodeIDs \cup {Blank}
Edge == [from : AnyID, to : AnyID, accessible : BOOLEAN]

\* accessible_edge_flags is a map from edge keys: an entry is a key and a flag.
SurveyGraph == [nodes : Seq([id : AnyID, kind : Kinds]), edges : Seq(Edge),
                entranceIDs : Seq(AnyID), destinationIDs : Seq(AnyID),
                accessibleEdgeFlags : SUBSET Edge]

EdgeKey(e) == <<e.from, e.to>>
IsFlagMap(F) == \A f, h \in F : EdgeKey(f) = EdgeKey(h) => f = h

SignProposal == [id : Nat, node : AnyID, dests : SUBSET AnyID,
                 direction : allowedDirections \cup {Blank, "unknown"},
                 text : Texts \cup {Blank}, distance : Int]

-----------------------------------------------------------------------------
(* Paths. *)

NodesOf(g) == {n.id : n \in ToSet(g.nodes)} \ {Blank}
EdgesOf(g) == ToSet(g.edges)

\* Reached(g, S): the nodes some edge path leads to from S, S included; they are
\* in every set that contains S and that no edge leaves.
Closed(g, C) == \A e \in EdgesOf(g) : e.from \in C => e.to \in C
Reached(g, S) ==
    LET enclosing == {C \in SUBSET AnyID : S \subseteq C /\ Closed(g, C)}
    IN  {n \in AnyID : \A C \in enclosing : n \in C}

Reachable(g) == Reached(g, ToSet(g.entranceIDs))

-----------------------------------------------------------------------------
(* PreflightBaseline: a survey with no blocker. *)

IdentityListOK(g, ids, wanted) ==
    /\ IsInjective(ids)                                       \* DUPLICATE_x_ID
    /\ ToSet(ids) \subseteq NodesOf(g)                        \* UNKNOWN_x_NODE
    /\ \A n \in ToSet(g.nodes) : n.id \in ToSet(ids) => n.kind = wanted

EdgeListOK(g) ==
    /\ \A e \in EdgesOf(g) : {e.from, e.to} \subseteq NodesOf(g) /\ e.from # e.to
    /\ \A i, j \in DOMAIN g.edges :                           \* DUPLICATE_EDGE
            EdgeKey(g.edges[i]) = EdgeKey(g.edges[j]) => i = j

\* Mutation: a flag may contradict the edge it is about.
FlagsOKOrphansOnly(g) ==
    \A f \in g.accessibleEdgeFlags : \E e \in EdgesOf(g) : EdgeKey(f) = EdgeKey(e)

FlagsOK(g) ==
    /\ \A f \in g.accessibleEdgeFlags, e \in EdgesOf(g) :      \* ACCESSIBLE_FLAG_MISMATCH
            EdgeKey(f) = EdgeKey(e) => f.accessible = e.accessible
    /\ \A f \in g.accessibleEdgeFlags : \E e \in EdgesOf(g) :  \* ORPHAN_ACCESSIBLE_FLAG
            EdgeKey(f) = EdgeKey(e)

PreflightBaseline(g) ==
    /\ \A n \in ToSet(g.nodes) : n.id # Blank                 \* EMPTY_NODE_ID
    /\ \A i, j \in DOMAIN g.nodes : g.nodes[i].id = g.nodes[j].id => i = j
    /\ IdentityListOK(g, g.entranceIDs, "entrance")
    /\ IdentityListOK(g, g.destinationIDs, "destination")
    /\ EdgeListOK(g)
    /\ FlagsOK(g)
    /\ ToSet(g.destinationIDs) \subseteq Reachable(g)         \* UNREACHABLE_DESTINATION

-----------------------------------------------------------------------------
(* Candidate signs. *)

\* A request that predates directions and destinations names neither.
normalizeLegacySigns(g, plan) ==
    [i \in DOMAIN plan |->
        IF plan[i].direction = Blank /\ plan[i].dests = {}
        THEN [plan[i] EXCEPT !.direction = "straight", !.dests = ToSet(g.destinationIDs)]
        ELSE plan[i]]

SignOK(g, s) ==
    /\ s.id # 0
    /\ s.node \in NodesOf(g)
    /\ s.dests # {}
    /\ s.dests \subseteq ToSet(g.destinationIDs)
    /\ s.direction \in allowedDirections
    /\ s.text # Blank
    /\ s.distance > 0

\* Mutation: the batch is checked for repeated ids only.
PreflightSignsUniqueIDs(g, plan) ==
    \A i, j \in DOMAIN plan : plan[i].id = plan[j].id => i = j

\* PreflightSigns finds no error: one bad sign rejects the whole batch.
PreflightSigns(g, plan) ==
    /\ \A i, j \in DOMAIN plan : plan[i].id = plan[j].id => i = j
    /\ \A i \in DOMAIN plan : SignOK(g, plan[i])

\* Mutation: deleted signs and the old form of modified ones are forgotten.
ChangedSignsNewOnly(old, new) == new \ old

\* The signs added, modified (old and new form) or deleted between two plans
\* with unique ids, and the nodes and destinations they name.
ChangedSigns(old, new) == (old \ new) \cup (new \ old)
ChangedNodes(old, new) == {s.node : s \in ChangedSigns(old, new)}
ChangedDestinations(old, new) == UNION {s.dests : s \in ChangedSigns(old, new)}

-----------------------------------------------------------------------------
(* ValidateRules. *)

RuleCodes == {"CONTINUITY", "DECISION_COVERAGE", "ACCESSIBLE_CONSISTENCY",
              "DUPLICATE_CONTENT", "DESTINATION_REACHABILITY"}

IssueKeys == [rule : RuleCodes, node : NodeIDs]

hasSignAt(signs, n) == \E s \in signs : s.node = n

\* The occurrences of a rule at a node: ValidateRules emits one issue, with
\* the same issue id, for each of them.
Occurrences(g, signs, key) ==
    LET n == key.node
    IN  CASE key.rule = "CONTINUITY" ->
               {p \in (DOMAIN g.entranceIDs) \X (DOMAIN g.edges) :
                    /\ g.edges[p[2]].from = g.entranceIDs[p[1]]
                    /\ g.edges[p[2]].to = n
                    /\ ~hasSignAt(signs, n)}
          [] key.rule = "DECISION_COVERAGE" ->
               {i \in DOMAIN g.nodes :
                    /\ g.nodes[i].id = n
                    /\ Cardinality({j \in DOMAIN g.edges : g.edges[j].from = n}) > 1
                    /\ ~hasSignAt(signs, n)}
          [] key.rule = "ACCESSIBLE_CONSISTENCY" ->
               {j \in DOMAIN g.edges :
                    /\ g.edges[j].from = n
                    /\ g.edges[j].accessible
                    /\ \E f \in g.accessibleEdgeFlags :
                         EdgeKey(f) = EdgeKey(g.edges[j]) /\ ~f.accessible}
          [] key.rule = "DUPLICATE_CONTENT" ->
               {s \in signs : s.node = n /\ \E t \in signs : t.text = s.text /\ t.id < s.id}
          [] key.rule = "DESTINATION_REACHABILITY" ->
               {i \in DOMAIN g.destinationIDs :
                    g.destinationIDs[i] = n /\ n \notin Reachable(g)}

Fires(g, signs, key) == Occurrences(g, signs, key) # {}

\* AnalyzeIssueImpact: the destinations a visitor who passes the node of the
\* issue on a path from some entrance is still heading for.
ImpactDestinations(g, key) ==
    IF key.rule = "DESTINATION_REACHABILITY" THEN {key.node}
    ELSE IF key.node \in Reachable(g)
         THEN ToSet(g.destinationIDs) \cap Reached(g, {key.node})
         ELSE {}
=============================================================================
