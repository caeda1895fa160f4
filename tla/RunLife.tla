------------------------------ MODULE RunLife ------------------------------
(***************************************************************************)
(* What the registry of runs promises a reader: a run is announced before  *)
(* its process exists, and is called ended once, for good, and only when   *)
(* its process is gone.  A run whose pid never reached the registry is     *)
(* exempt: nobody can ask whether its process lives.                       *)
(***************************************************************************)
CONSTANT Runs

VARIABLES
    life,   \* what the registry says of each run
    child   \* the process behind it

Init ==
    /\ life = [r \in Runs |-> "absent"]
    /\ child = [r \in Runs |-> "none"]

Announce(r) ==
    /\ life[r] = "absent"
    /\ life' = [life EXCEPT ![r] = "starting"]
    /\ UNCHANGED child

Spawn(r) ==
    /\ life[r] = "starting" /\ child[r] = "none"
    /\ child' = [child EXCEPT ![r] = "alive"]
    /\ UNCHANGED life

Report(r) ==
    /\ life[r] = "starting" /\ child[r] # "none"
    /\ life' = [life EXCEPT ![r] = "running"]
    /\ UNCHANGED child

Exit(r) ==
    /\ child[r] = "alive"
    /\ child' = [child EXCEPT ![r] = "gone"]
    /\ UNCHANGED life

\* A server that starts up may find several.
End(S) ==
    /\ \A r \in S : life[r] = "starting" \/ (life[r] = "running" /\ child[r] = "gone")
    /\ life' = [r \in Runs |-> IF r \in S THEN "ended" ELSE life[r]]
    /\ UNCHANGED child

Next ==
    \/ \E r \in Runs : Announce(r) \/ Spawn(r) \/ Report(r) \/ Exit(r)
    \/ \E S \in SUBSET Runs : End(S)

Spec == Init /\ [][Next]_<<life, child>>
=============================================================================
