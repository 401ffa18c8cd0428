------------------------------- MODULE MCWorkbench -------------------------------
(* Two projects and two plans for TLC; one of the plans suits one project only. *)
EXTENDS Workbench

CONSTANTS Hall, Ward, Short, Full

TwoProjects == {Hall, Ward}
TwoPlans == {Short, Full}
FaultyPairs == {<<Ward, Short>>}
=============================================================================
