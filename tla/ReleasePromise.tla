---------------------------- MODULE ReleasePromise ----------------------------
(***************************************************************************)
(* What the life of a project promises to those who hang up the signs      *)
(* (README.md:3-5): a plan is edited, then walked, then released.  It is    *)
(* walked only when it breaks no rule, a walk covers what the last one did  *)
(* not pass, each place of that only after an edit touched it, and what is  *)
(* released is the plan that passed, on the survey it was made for, under   *)
(* the name of whoever walked it, which is not the designer.  (An edit that *)
(* was taken back did touch its places.)                                    *)
(*                                                                         *)
(* Statuses, issues, evidence and validations are the means to this end     *)
(* and do not appear.                                                       *)
(***************************************************************************)
CONSTANTS SurveyOK(_),     \* a survey may be built upon
          PlacesOf(_),     \* what there is to walk
          PlanOK(_, _),    \* a plan fits a survey
          Clean(_, _),     \* a plan breaks no rule on a survey
          Touches(_, _),   \* the places that differ between two plans
          NoSurvey, Nobody, NoRelease

VARIABLES phase,      \* "editing", "walking", "approved", "released"
          survey, plan,
          designer,
          walker,     \* who walked last
          toPass,     \* what has not passed yet
          untouched,  \* of what failed, what no edit touched since
          released

promiseVars == <<phase, survey, plan, designer, walker, toPass, untouched, released>>

Init ==
    /\ phase = "editing"
    /\ survey = NoSurvey
    /\ plan = {}
    /\ designer = Nobody
    /\ walker = Nobody
    /\ toPass = {}
    /\ untouched = {}
    /\ released = NoRelease

Begin ==
    /\ designer = Nobody
    /\ designer' # Nobody
    /\ UNCHANGED <<phase, survey, plan, walker, toPass, untouched, released>>

FixSurvey ==
    /\ designer # Nobody
    /\ survey = NoSurvey
    /\ survey' # NoSurvey /\ SurveyOK(survey')
    /\ toPass' = PlacesOf(survey')
    /\ UNCHANGED <<phase, plan, designer, walker, untouched, released>>

Edit ==
    /\ phase = "editing"
    /\ survey # NoSurvey
    /\ PlanOK(survey, plan')
    /\ untouched' = untouched \ Touches(plan, plan')
    /\ UNCHANGED <<phase, survey, designer, walker, toPass, released>>

Offer ==
    /\ phase = "editing"
    /\ survey # NoSurvey
    /\ Clean(survey, plan)
    /\ phase' = "walking"
    /\ UNCHANGED <<survey, plan, designer, walker, toPass, untouched, released>>

Walk ==
    /\ phase = "walking"
    /\ untouched = {}
    /\ walker' \notin {designer, Nobody}
    /\ toPass' \subseteq toPass
    /\ untouched' = toPass'
    /\ phase' = IF toPass' = {} THEN "approved" ELSE "editing"
    /\ UNCHANGED <<survey, plan, designer, released>>

Release ==
    /\ phase = "approved"
    /\ phase' = "released"
    /\ released' = [survey |-> survey, plan |-> plan, by |-> walker]
    /\ UNCHANGED <<survey, plan, designer, walker, toPass, untouched>>

Next == Begin \/ FixSurvey \/ Edit \/ Offer \/ Walk \/ Release

Spec == Init /\ [][Next]_promiseVars
=============================================================================
