---------------------------- MODULE EpicOutcome ----------------------------
(***************************************************************************)
(* What a run of an epic promises of its stories, however it schedules     *)
(* them: the outcomes of an EpicReport (packages/flow/src/Stories.ts).     *)
(***************************************************************************)
CONSTANTS
    Stories,
    DependsOn   \* the stories each story waits for

VARIABLES
    verdict,    \* each story's outcome, final once it is there
    stage       \* "open", "stopped" (no story starts any more), "over", "abandoned"

vars == <<verdict, stage>>

Init ==
    /\ verdict = [s \in Stories |-> "none"]
    /\ stage = "open"

\* Everything that waits for s, directly or through other stories.
Upward(B) == \A t \in Stories : DependsOn[t] \cap B # {} => t \in B
DependentsOf(s) ==
    {t \in Stories \ {s} : \A B \in SUBSET Stories : s \in B /\ Upward(B) => t \in B}

\* Only a story whose dependencies are all done comes to an end of its own.
MayEnd(s) ==
    /\ stage \in {"open", "stopped"}
    /\ verdict[s] = "none"
    /\ \A d \in DependsOn[s] : verdict[d] = "done"

Finish(s) ==
    /\ MayEnd(s)
    /\ verdict' = [verdict EXCEPT ![s] = "done"]
    /\ UNCHANGED stage

\* A failure puts on hold all that depends on it, and may stop the epic.
Break(s) ==
    /\ MayEnd(s)
    /\ verdict' = [t \in Stories |->
           IF t = s THEN "failed"
           ELSE IF t \in DependentsOf(s) /\ verdict[t] = "none" THEN "waiting" ELSE verdict[t]]
    /\ stage' \in {stage, "stopped"}

\* Under failFast the first failure ends the run without a report.
Abandon ==
    /\ stage \in {"open", "stopped"}
    /\ stage' = "abandoned"
    /\ \E s \in Stories :
          /\ MayEnd(s)
          /\ verdict' = [verdict EXCEPT ![s] = "failed"]

\* The report has an outcome for every story; only a stopped epic leaves out
\* stories that could still have run.
Report ==
    /\ \/ stage = "stopped"
       \/ stage = "open" /\ \A s \in Stories : verdict[s] # "none"
    /\ stage' = "over"
    /\ verdict' = [s \in Stories |-> IF verdict[s] = "none" THEN "waiting" ELSE verdict[s]]

Next == (\E s \in Stories : Finish(s) \/ Break(s)) \/ Abandon \/ Report

Spec == Init /\ [][Next]_vars
=============================================================================
