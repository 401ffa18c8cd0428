----------------------------- MODULE MCReleaseGate -----------------------------
(***************************************************************************)
(* Small surveys and sign plans for ReleaseGate.                            *)
(*   PathSurvey    E -> J -> D                      (rules_test.go testGraph) *)
(*   BranchSurvey  E -> J, J -> D1, J -> D2         (a decision point)      *)
(*   PorchSurvey   E1 -> H, E2 -> H, H -> D         (two entrances, one hall) *)
(***************************************************************************)
EXTENDS ReleaseGate

Node(i, k) == [id |-> i, kind |-> k]
Way(f, t) == [from |-> f, to |-> t, accessible |-> TRUE]

PathSurvey ==
    [nodes |-> <<Node("E", "entrance"), Node("J", "decision"), Node("D", "destination")>>,
     edges |-> <<Way("E", "J"), Way("J", "D")>>,
     entranceIDs |-> <<"E">>, destinationIDs |-> <<"D">>,
     accessibleEdgeFlags |-> {Way("E", "J")}]

BranchSurvey ==
    [nodes |-> <<Node("E", "entrance"), Node("J", "decision"),
                 Node("D1", "destination"), Node("D2", "destination")>>,
     edges |-> <<Way("E", "J"), Way("J", "D1"), Way("J", "D2")>>,
     entranceIDs |-> <<"E">>, destinationIDs |-> <<"D1", "D2">>,
     accessibleEdgeFlags |-> {}]

PorchSurvey ==
    [nodes |-> <<Node("E1", "entrance"), Node("E2", "entrance"),
                 Node("H", "decision"), Node("D", "destination")>>,
     edges |-> <<Way("E1", "H"), Way("E2", "H"), Way("H", "D")>>,
     entranceIDs |-> <<"E1", "E2">>, destinationIDs |-> <<"D">>,
     accessibleEdgeFlags |-> {}]

Sign(i, n, ds, t) == [id |-> i, node |-> n, dests |-> ds, direction |-> "straight",
                      text |-> t, distance |-> 8]
LegacySign(i, n, t) == [id |-> i, node |-> n, dests |-> {}, direction |-> Blank,
                        text |-> t, distance |-> 8]

\* Actors differ only in the roles a project gives them.
ActorSymmetry == Permutations(Actors)

PathNodes == {"E", "J", "D", "X"}
PathSurveys == {PathSurvey}
\* Both signs, the one that answers CONTINUITY alone, the other alone, none, a
\* legacy request, and a batch one sign of which has no distance.
PathPlans ==
    {<<>>,
     <<Sign(1, "J", {"D"}, "desk")>>,
     <<Sign(2, "D", {"D"}, "here")>>,
     <<LegacySign(1, "J", "desk"), Sign(2, "E", {"D"}, "here")>>,
     <<Sign(1, "J", {"D"}, "desk"), [Sign(2, "D", {"D"}, "here") EXCEPT !.distance = 0]>>}

PathRepairs == PathPlans

BranchNodes == {"E", "J", "D1", "D2"}
BranchSurveys == {BranchSurvey}
\* A sign at the decision point with the text of a later sign; the texts told
\* apart at the decision point; the decision point left without a sign.
BranchPlans ==
    {<<Sign(1, "J", {"D1"}, "lifts"), Sign(2, "D2", {"D2"}, "lifts")>>,
     <<Sign(1, "J", {"D1"}, "wards"), Sign(2, "D2", {"D2"}, "lifts")>>,
     <<Sign(2, "D2", {"D2"}, "lifts")>>}
BranchRepairs == {<<Sign(1, "J", {"D1"}, "wards"), Sign(2, "D2", {"D2"}, "lifts")>>}

PorchNodes == {"E1", "E2", "H", "D"}
PorchSurveys == {PorchSurvey}
PorchRepairs == {}
PorchPlans == {<<Sign(1, "H", {"D"}, "desk")>>, <<Sign(2, "D", {"D"}, "here")>>}

-----------------------------------------------------------------------------
(* Baselines for FreezeBaseline besides the path.  In none of them is D a     *)
(* destination, so that no plan of the path fits and the project stays there.  *)

\* Well formed or not: node lists with a duplicate or an empty id, self, dangling
\* and repeated edges, contradicting and orphan flags, repeated, missing and
\* mistyped entrances and destinations.
NodeLists == {<<Node("E", "entrance"), Node("D", "decision"), Node("J", "destination")>>,
              <<Node("J", "destination"), Node("E", "entrance")>>,
              <<Node("E", "entrance"), Node("J", "destination"), Node("E", "entrance")>>,
              <<Node("E", "entrance"), Node(Blank, "decision"), Node("J", "destination")>>,
              <<>>}
WayPairs == {<<"E", "D">>, <<"J", "D">>, <<"D", "J">>, <<"E", "J">>, <<"D", "D">>, <<"D", "X">>}
ChosenWays(open) == {[from |-> p[1], to |-> p[2], accessible |-> open[p]] : p \in DOMAIN open}
EdgeLists == UNION {LET ways == SetToSeq(ChosenWays(open)) IN {ways, ways \o ways} :
                        open \in UNION {[P -> BOOLEAN] : P \in SUBSET WayPairs}}
FlagMaps == {{}, {Way("E", "J")}, {[Way("D", "J") EXCEPT !.accessible = FALSE]}}
ShapeSurveys ==
    [nodes : NodeLists, edges : EdgeLists, entranceIDs : {<<"E">>, <<"E", "E">>, <<"D">>},
     destinationIDs : {<<"J">>, <<"J", "J">>, <<>>}, accessibleEdgeFlags : FlagMaps]

\* Four nodes with every choice of nine edges, where ways of one, two and three
\* edges lead to the same place and back, and with one entrance or two.
MeshWays == <<Way("E", "D"), Way("E", "X"), Way("D", "X"), Way("X", "D"), Way("D", "J"),
              Way("X", "J"), Way("E", "J"), Way("J", "E"), Way("D", "E")>>
MeshSurveys ==
    UNION {[nodes : {<<Node("E", "entrance"), Node("D", last), Node("X", "decision"),
                       Node("J", "destination")>>},
            edges : {SelectSeq(MeshWays, LAMBDA w : w \in ways) : ways \in SUBSET ToSet(MeshWays)},
            entranceIDs : {IF last = "entrance" THEN <<"E", "D">> ELSE <<"E">>},
            destinationIDs : {<<"J">>}, accessibleEdgeFlags : {{}}] :
                last \in {"entrance", "decision"}}

PathOrOtherSurveys == PathSurveys \cup ShapeSurveys \cup MeshSurveys
=============================================================================
