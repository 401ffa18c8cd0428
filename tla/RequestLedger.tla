----------------------------- MODULE RequestLedger -----------------------------
(***************************************************************************)
(* What internal/application promises about the write requests of one       *)
(* project: a request gets one lasting answer, and the revision counts the  *)
(* requests that were accepted.                                             *)
(***************************************************************************)
EXTENDS Naturals

CONSTANTS Requests,   \* request ids
          NoAnswer

VARIABLES revision,   \* revision of the project, 0 before it exists
          ledger      \* per request, its lasting answer

ledgerVars == <<revision, ledger>>

Accepted(n) == [outcome |-> "ok", revision |-> n]
Refusals == [outcome : {"revision_conflict", "refused"}, revision : {0}]

Init ==
    /\ revision = 0
    /\ ledger = [r \in Requests |-> NoAnswer]

Accept(r) ==
    /\ ledger[r] = NoAnswer
    /\ revision' = revision + 1
    /\ ledger' = [ledger EXCEPT ![r] = Accepted(revision')]

Refuse(r) ==
    /\ ledger[r] = NoAnswer
    /\ \E a \in Refusals : ledger' = [ledger EXCEPT ![r] = a]
    /\ UNCHANGED revision

Next == \E r \in Requests : Accept(r) \/ Refuse(r)

Spec == Init /\ [][Next]_ledgerVars
=============================================================================
