--------------------------- MODULE StoryScheduler ---------------------------
(***************************************************************************)
(* The main loop of implementStories, packages/flow/src/Stories.ts: which  *)
(* story runs when, and what becomes of each.  readyStories and            *)
(* dependentsOf are those of packages/flow/src/StoryPlan.ts.               *)
(*                                                                         *)
(* One fiber runs the loop, a fiber per story runs `attempt` and offers    *)
(* its completion to a queue.  A step of the loop ends where it awaits the *)
(* queue, the roster or the recovery of the serving engine.                *)
(***************************************************************************)
EXTENDS Integers, FiniteSets, Sequences, SequencesExt

CONSTANTS
    Stories,
    DependsOn,          \* the stories each story waits for
    Position,           \* each story's place in the plan
    Concurrency,        \* the stories the options let run at once
    MaxCapacity,        \* bound: coder slots of the round
    MaxCapacityChanges  \* bound: executors going out and coming back

Below(B) == \A s \in Stories : DependsOn[s] \subseteq B => s \in B
ASSUME PlanAssumption ==
    /\ IsFiniteSet(Stories)
    /\ DependsOn \in [Stories -> SUBSET Stories]
    /\ \A B \in SUBSET Stories : Below(B) => B = Stories    \* no cycle
    /\ Position \in [Stories -> Nat]
    /\ \A s, t \in Stories : Position[s] = Position[t] => s = t
ASSUME BoundsAssumption ==
    Concurrency \in Nat \ {0} /\ MaxCapacity \in Nat /\ MaxCapacityChanges \in Nat

VARIABLES
    options,    \* which of roster, failFast and awaitRecovery the caller gave
    pc,         \* where the loop is
    outcomes,   \* the outcomes recorded, in order
    running,    \* the stories launched and not yet taken off the queue
    alive,      \* those of them whose fiber has not ended
    queue,      \* completions offered and not yet taken
    halted,     \* no further story may start in this run
    recovered,  \* stories retried once after an outage
    starvedAt,  \* the capacity when a ready story was left waiting for it
    current,    \* the story whose serving engine the loop waits for
    capacity,   \* roster.capacity("coder")
    changesLeft,
    attempts    \* history: how often each story was launched

loop == <<pc, outcomes, halted, recovered, starvedAt, current>>
environment == <<options, capacity, changesLeft>>
vars == <<options, pc, outcomes, running, alive, queue, halted, recovered, starvedAt,
          current, capacity, changesLeft, attempts>>

Ends == {"done", "failed", "outage", "halt"}   \* "outage", "halt": failures that interrupt
Completions == [story : Stories, end : Ends]
NoStory == "no story"
Satisfied == MaxCapacity + 1                   \* starvedAt: undefined, a capacity there never is

Recorded(status) == {s \in Stories : \E o \in ToSet(outcomes) : o.story = s /\ o.status = status}
Done == Recorded("done")
Settled == {o.story : o \in ToSet(outcomes)}

-----------------------------------------------------------------------------
Init ==
    /\ options \in [roster : BOOLEAN, failFast : BOOLEAN, awaitRecovery : BOOLEAN]
    /\ pc = "launching"
    /\ outcomes = <<>> /\ running = {} /\ alive = {} /\ queue = <<>>
    /\ halted = FALSE /\ recovered = {}
    /\ starvedAt = Satisfied /\ current = NoStory
    /\ capacity \in 0..MaxCapacity /\ changesLeft = MaxCapacityChanges
    /\ attempts = [s \in Stories |-> 0]

\* readyStories: untouched, with every dependency done.
Ready == {s \in Stories \ (Settled \cup running) : DependsOn[s] \subseteq Done}

\* dependentsOf: everything that waits for s, directly or through others.
Upward(B) == \A t \in Stories : DependsOn[t] \cap B # {} => t \in B
DependentsOf(s) ==
    {t \in Stories \ {s} : \A B \in SUBSET Stories : s \in B /\ Upward(B) => t \in B}

\* How many stories may start.  With nothing running one starts all the same:
\* its lease waits for the first executor to come back.
Lower(a, b) == IF a < b THEN a ELSE b
Higher(a, b) == IF a > b THEN a ELSE b
Limit == IF options.roster THEN Lower(Concurrency, capacity) ELSE Concurrency
WholeLimit == Limit
Budget == Limit - Cardinality(running)
Slots == IF running = {} THEN Higher(1, Budget) ELSE Higher(0, Budget)

\* The first of the ready stories in plan order, as many as there are slots.
FirstReady == {s \in Ready : Cardinality({t \in Ready : Position[t] < Position[s]}) < Slots}

\* A ready story is left that capacity alone keeps from starting.
StarvedBelowLimit ==
    /\ options.roster
    /\ Ready \ FirstReady # {}
    /\ Cardinality(running \cup FirstReady) < Limit
Starved ==
    /\ options.roster
    /\ Ready \ FirstReady # {}
    /\ Cardinality(running \cup FirstReady) < Concurrency

SlotsLeft == capacity - Cardinality(running)
CapacitySeen == capacity

Launch ==
    /\ pc = "launching"
    /\ IF halted
       THEN UNCHANGED <<running, alive, attempts>> /\ starvedAt' = Satisfied
       ELSE /\ running' = running \cup FirstReady
            /\ alive' = alive \cup FirstReady
            /\ attempts' = [s \in Stories |-> attempts[s] + IF s \in FirstReady THEN 1 ELSE 0]
            /\ starvedAt' = IF Starved THEN CapacitySeen ELSE Satisfied
    /\ pc' = IF running' = {} THEN "ending" ELSE "taking"
    /\ UNCHANGED <<environment, outcomes, queue, halted, recovered, current>>

\* capacityChanged wins the race against the queue.
Grown ==
    /\ pc = "taking"
    /\ starvedAt # Satisfied /\ capacity # starvedAt
    /\ pc' = "launching"
    /\ UNCHANGED <<environment, outcomes, running, alive, queue, halted, recovered, starvedAt,
                   current, attempts>>

Outcome(s, status) == [story |-> s, status |-> status]
Waiting(held) == SetToSeq({Outcome(s, "waiting") : s \in held})

\* A failed story puts its dependents on hold; under failFast it ends the run,
\* and the stories that run are interrupted.
EveryDependent(s) == DependentsOf(s)
DirectDependents(s) == {t \in Stories : s \in DependsOn[t]} \ Settled
HeldBy(s) == DependentsOf(s) \ Settled

StillRunning(s) == running
Without(s) == running \ {s}

Record(s, end) ==
    IF end = "done"
    THEN /\ outcomes' = Append(outcomes, Outcome(s, "done"))
         /\ pc' = "launching" /\ running' = Without(s) /\ UNCHANGED alive
    ELSE IF options.failFast
    THEN /\ outcomes' = Append(outcomes, Outcome(s, "failed"))
         /\ pc' = "abandoned" /\ running' = {} /\ alive' = {}
    ELSE /\ outcomes' = Append(outcomes, Outcome(s, "failed")) \o Waiting(HeldBy(s))
         /\ pc' = "launching" /\ running' = Without(s) /\ UNCHANGED alive

MayAlwaysRecover(s) == options.awaitRecovery
MayRecover(s) == options.awaitRecovery /\ s \notin recovered

\* A completion is taken.  The first outage of a story waits for the serving
\* engine, here in the loop; any other interruption stops the launches.
Take ==
    /\ pc = "taking"
    /\ queue # <<>>
    /\ queue' = Tail(queue)
    /\ LET s == Head(queue).story
           end == Head(queue).end
       IN  IF end = "outage" /\ ~halted /\ MayRecover(s)
           THEN /\ recovered' = recovered \cup {s}
                /\ current' = s
                /\ running' = Without(s)
                /\ pc' = "recovering"
                /\ UNCHANGED <<outcomes, halted, alive>>
           ELSE /\ halted' = (halted \/ end \in {"outage", "halt"})
                /\ Record(s, end)
                /\ UNCHANGED <<recovered, current>>
    /\ UNCHANGED <<environment, starvedAt, attempts>>

\* awaitRecovery succeeds: the story is not recorded, so it is ready again.
Recover ==
    /\ pc = "recovering"
    /\ pc' = "launching"
    /\ current' = NoStory
    /\ UNCHANGED <<environment, outcomes, running, alive, queue, halted, recovered, starvedAt,
                   attempts>>

GiveUp ==
    /\ pc = "recovering"
    /\ halted' = TRUE
    /\ Record(current, "outage")
    /\ current' = NoStory
    /\ UNCHANGED <<environment, queue, recovered, starvedAt, attempts>>

\* After the loop: what a halt kept from starting waits, and the report is saved.
Report ==
    /\ pc = "ending"
    /\ outcomes' = outcomes \o (IF halted THEN Waiting(Stories \ Settled) ELSE <<>>)
    /\ pc' = "reported"
    /\ UNCHANGED <<environment, running, alive, queue, halted, recovered, starvedAt, current,
                   attempts>>

-----------------------------------------------------------------------------
\* The fiber of a story comes to its end, whatever end it is.
EndStory(s) ==
    /\ s \in alive
    /\ alive' = alive \ {s}
    /\ \E end \in Ends : queue' = Append(queue, [story |-> s, end |-> end])
    /\ UNCHANGED <<environment, loop, running, attempts>>

\* An executor goes out of the round, or comes back to it.
ChangeCapacity ==
    /\ pc \notin {"reported", "abandoned"}
    /\ changesLeft > 0
    /\ changesLeft' = changesLeft - 1
    /\ capacity' \in 0..MaxCapacity \ {capacity}
    /\ UNCHANGED <<options, loop, running, alive, queue, attempts>>

Loop == Launch \/ Grown \/ Take \/ Recover \/ GiveUp \/ Report

Next == Loop \/ (\E s \in Stories : EndStory(s)) \/ ChangeCapacity

Spec == Init /\ [][Next]_vars

\* The loop's fiber is scheduled, awaitRecovery returns, and stories end.
FairSpec == Spec /\ WF_vars(Loop) /\ \A s \in Stories : WF_vars(EndStory(s))

-----------------------------------------------------------------------------
\* Every variable keeps its type.
TypeOK ==
    /\ options \in [roster : BOOLEAN, failFast : BOOLEAN, awaitRecovery : BOOLEAN]
    /\ pc \in {"launching", "taking", "recovering", "ending", "reported", "abandoned"}
    /\ outcomes \in Seq([story : Stories, status : {"done", "failed", "waiting"}])
    /\ running \subseteq Stories /\ alive \subseteq running /\ queue \in Seq(Completions)
    /\ halted \in BOOLEAN /\ recovered \subseteq Stories
    /\ starvedAt \in 0..MaxCapacity \cup {Satisfied}
    /\ current \in Stories \cup {NoStory}
    /\ capacity \in 0..MaxCapacity /\ changesLeft \in 0..MaxCapacityChanges
    /\ attempts \in [Stories -> Nat]

\* No story gets a second outcome: the report would show the first and lose the
\* second, and a held or retried story could be counted twice.
RecordedOnce == \A i, j \in 1..Len(outcomes) : outcomes[i].story = outcomes[j].story => i = j

\* A launch never takes the stories that run above the cap of the options or
\* the round's coder slots, except for the one that starts when none runs.
LaunchesWithinLimit ==
    [][running' \subseteq running \/ Cardinality(running') <= Higher(1, Limit)]_vars

\* While the loop waits for a completion and nothing else, no ready story is
\* left that a coder slot more would let start: it runs as many as it may.
NoReadyStoryForgotten ==
    pc = "taking" /\ starvedAt = Satisfied /\ ~halted =>
        Ready = {} \/ Cardinality(running) >= Concurrency

\* A story starts twice only after an outage that was waited out, never a third
\* time, and not at all once it has an outcome.
RetriedOnce ==
    \A s \in Stories : attempts[s] <= IF s \in recovered THEN 2 ELSE 1

\* The run ends: every story that was launched is taken, and every other one
\* is started or put on hold.
EpicEnds == <>(pc \in {"reported", "abandoned"})

\* The outcomes, as the report reads them: the first recorded of each story.
Verdict(s) ==
    IF s \in Settled
    THEN LET i == CHOOSE i \in 1..Len(outcomes) :
                     outcomes[i].story = s /\ \A j \in 1..(i - 1) : outcomes[j].story # s
         IN  outcomes[i].status
    ELSE "none"

Verdicts == [s \in Stories |-> Verdict(s)]

Stage ==
    IF pc = "reported" THEN "over"
    ELSE IF pc = "abandoned" THEN "abandoned"
    ELSE IF halted THEN "stopped" ELSE "open"

Promise == INSTANCE EpicOutcome WITH verdict <- Verdicts, stage <- Stage

\* The loop keeps what a run of an epic promises of its stories.
KeepsPromise == Promise!Spec
=============================================================================
