--------------------------- MODULE MCCommandPipeline ---------------------------
(***************************************************************************)
(* Commands for CommandPipeline: one project is created, gets a baseline,   *)
(* is edited and frozen.  An edit and the freeze compete for one revision,  *)
(* two request ids come with two commands each, one of them an edit of the  *)
(* frozen project, and the survey of the baseline is unsorted.              *)
(***************************************************************************)
EXTENDS CommandPipeline

Send(r, k, n, b) == [request |-> r, kind |-> k, expected |-> n, body |-> b]

AllBodies == {"sorted", "unsorted"}
SortLists == [b \in AllBodies |-> "sorted"]

AllRequests == {"r1", "r2", "r3", "r4"}
AllCommands ==
    {Send("r1", "create", 0, "sorted"),
     Send("r1", "create", 1, "sorted"),
     Send("r2", "baseline", 1, "unsorted"),
     Send("r3", "edit", 2, "sorted"),
     Send("r3", "edit", 3, "sorted"),
     Send("r4", "freeze", 2, "sorted")}

FewRequests == {"r1", "r2", "r3"}
FewCommands ==
    {Send("r1", "create", 0, "sorted"),
     Send("r2", "baseline", 1, "unsorted"),
     Send("r3", "freeze", 2, "sorted")}
=============================================================================
