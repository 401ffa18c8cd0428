------------------------------ MODULE SurveySearch ------------------------------
(***************************************************************************)
(* The two breadth-first loops of internal/domain, Reachable (rules.go) and *)
(* deterministicPath (impact.go), one step for each turn of the loop, and  *)
(* the impact of an issue that is built from them.  SurveyRules says what  *)
(* they are to compute.                                                    *)
(*                                                                         *)
(* The neighbours of a node are taken in one order; the second loop of the *)
(* code sorts them.  Which of the shortest paths is found depends on that  *)
(* order, and nothing here does.                                           *)
(***************************************************************************)
EXTENDS SurveyRules

\* The neighbours of a node, adj[n]; a survey that was accepted repeats no edge.
Targets(g, n) == {e.to : e \in {d \in EdgesOf(g) : d.from = n}}

-----------------------------------------------------------------------------
(* Reachable. *)

\* Mutation: what a node leads to replaces the queue.
ReachStepForgetful(g, s) ==
    IF s.queue = <<>> THEN s
    ELSE IF Head(s.queue) \in s.seen THEN [s EXCEPT !.queue = Tail(@)]
    ELSE [queue |-> SetToSeq(Targets(g, Head(s.queue))), seen |-> s.seen \cup {Head(s.queue)}]

ReachStep(g, s) ==
    IF s.queue = <<>> THEN s
    ELSE IF Head(s.queue) \in s.seen THEN [s EXCEPT !.queue = Tail(@)]
    ELSE [queue |-> Tail(s.queue) \o SetToSeq(Targets(g, Head(s.queue))),
          seen  |-> s.seen \cup {Head(s.queue)}]

ReachStart(g) == [queue |-> g.entranceIDs, seen |-> {}]

\* The loop after each number of turns.
ReachRun(g) ==
    LET after[k \in Nat] == IF k = 0 THEN ReachStart(g) ELSE ReachStep(g, after[k - 1])
    IN  after

\* Every node is expanded once, so that this many turns empty the queue.
ReachEnd(g) == ReachRun(g)[Len(g.entranceIDs) + Len(g.edges)]

-----------------------------------------------------------------------------
(* deterministicPath: the queue holds paths, and nil is the empty path. *)

\* Mutation: the paths of the queue share their last cell.
SearchStepShared(g, to, s) ==
    IF s.queue = <<>> \/ s.path # <<>> THEN s
    ELSE LET path == Head(s.queue)
             new  == SetToSeq(Targets(g, Last(path)) \ s.seen)
         IN  IF Last(path) = to THEN [s EXCEPT !.path = path]
             ELSE [s EXCEPT !.queue = Tail(@) \o [i \in DOMAIN new |-> Append(path, Last(new))],
                            !.seen = @ \cup ToSet(new)]

SearchStep(g, to, s) ==
    IF s.queue = <<>> \/ s.path # <<>> THEN s
    ELSE LET path == Head(s.queue)
             new  == SetToSeq(Targets(g, Last(path)) \ s.seen)
         IN  IF Last(path) = to THEN [s EXCEPT !.path = path]
             ELSE [s EXCEPT !.queue = Tail(@) \o [i \in DOMAIN new |-> Append(path, new[i])],
                            !.seen = @ \cup ToSet(new)]

SearchStart(from) == [queue |-> << <<from>> >>, seen |-> {from}, path |-> <<>>]

SearchRun(g, from, to) ==
    LET after[k \in Nat] == IF k = 0 THEN SearchStart(from) ELSE SearchStep(g, to, after[k - 1])
    IN  after

\* Every node is in at most one path of the queue.
SearchEnd(g, from, to) == SearchRun(g, from, to)[Len(g.nodes)]

deterministicPath(g, from, to) == SearchEnd(g, from, to).path

-----------------------------------------------------------------------------
\* AnalyzeIssueImpact: for every entrance and destination the path through the
\* node of the issue, if there is one.
AnalyzeIssueImpact(g, key) ==
    LET ends == {p \in ToSet(g.entranceIDs) \X ToSet(g.destinationIDs) :
                    /\ deterministicPath(g, p[1], key.node) # <<>>
                    /\ deterministicPath(g, key.node, p[2]) # <<>>}
    IN  IF key.rule = "DESTINATION_REACHABILITY"
        THEN [entrances |-> {}, destinations |-> {key.node}, paths |-> {}]
        ELSE [entrances    |-> {p[1] : p \in ends},
              destinations |-> {p[2] : p \in ends},
              paths        |-> {deterministicPath(g, p[1], key.node)
                                    \o Tail(deterministicPath(g, key.node, p[2])) : p \in ends}]

-----------------------------------------------------------------------------
(* What the loops are to compute. *)

IsWalk(g, path, from, to) ==
    /\ path # <<>> /\ path[1] = from /\ Last(path) = to
    /\ \A i \in 1..(Len(path) - 1) :
          \E e \in EdgesOf(g) : e.from = path[i] /\ e.to = path[i + 1]

\* The nodes that k edges or fewer lead to, for each k.
Within(g, from) ==
    LET ring[k \in Nat] ==
            IF k = 0 THEN {from}
            ELSE ring[k - 1] \cup {e.to : e \in {d \in EdgesOf(g) : d.from \in ring[k - 1]}}
    IN  ring

ReachableIsReached(g) ==
    ReachEnd(g).queue = <<>> /\ ReachEnd(g).seen = Reachable(g)

PathIsShortest(g, from, to) ==
    LET path == deterministicPath(g, from, to) IN
    IF to \notin Reached(g, {from}) THEN path = <<>> /\ SearchEnd(g, from, to).queue = <<>>
    ELSE IsWalk(g, path, from, to) /\ (Len(path) > 1 => to \notin Within(g, from)[Len(path) - 2])
=============================================================================
