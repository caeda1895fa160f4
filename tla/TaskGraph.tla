----------------------------- MODULE TaskGraph -----------------------------
(***************************************************************************)
(* The tasks of one story: implementTaskGraph of                           *)
(* packages/flow/src/PlanExecution.ts, with runAside of Stories.ts.        *)
(*                                                                         *)
(* The held coder works at home, in the story's worktree, on one task at a *)
(* time.  Other ready tasks run aside, each in a worktree of its own, and  *)
(* merge back while no task works at home.  The plan file and the story    *)
(* branch survive a run.                                                   *)
(***************************************************************************)
EXTENDS Naturals, FiniteSets, Sequences

CONSTANTS
    N,            \* tasks of the plan, in its order
    DependsOn,    \* the earlier tasks each task waits for
    Owns,         \* the files each task declares, none if it declares none
    Title,        \* complete marks every task of a title
    Concurrency,  \* coders the story may hold at once
    MaxRuns       \* bound: runs of the story, each ended anywhere by the next

Tasks == 1..N
NoTask == 0
ASSUME PlanAssumption ==
    /\ N \in Nat
    /\ DependsOn \in [Tasks -> SUBSET Tasks]
    /\ \A t \in Tasks : DependsOn[t] \subseteq 1..(t - 1)
    /\ DOMAIN Title = Tasks
ASSUME BoundsAssumption == Concurrency \in Nat \ {0} /\ MaxRuns \in Nat \ {0}

VARIABLES
    saved,     \* the plan file: tasks marked complete
    onBranch,  \* tasks whose work is on the story branch
    loop,      \* where the loop is
    done,
    homeOnly,  \* tasks handed back to the held coder
    last,      \* of these, tasks whose merge conflicted
    running,   \* tasks launched and not yet taken off the queue
    at,        \* where each task's fiber is
    base,      \* the work on the story branch when a task began
    home,      \* the task that holds the home semaphore
    queue,     \* finished runs not yet taken
    taken,     \* the task whose completion is being saved
    runs

disk == <<saved, onBranch>>
control == <<loop, done, homeOnly, last, running, taken>>
fibers == <<at, base, home, queue>>
vars == <<saved, onBranch, loop, done, homeOnly, last, running, at, base, home, queue,
          taken, runs>>

Ends == {"home", "merged", "declined", "conflict", "failure"}

Init ==
    /\ saved = {} /\ onBranch = {} /\ done = {}
    /\ loop = "scheduling"
    /\ homeOnly = {} /\ last = {} /\ running = {} /\ taken = NoTask
    /\ at = [t \in Tasks |-> "idle"]
    /\ base = [t \in Tasks |-> {}]
    /\ home = NoTask /\ queue = <<>>
    /\ runs = 1

-----------------------------------------------------------------------------
(* The loop.                                                               *)

\* mayRunBeside: both footprints declared, and nothing in common.
BothDeclare(t, u) == Owns[t] # {} /\ Owns[u] # {}
Apart(t, u) == Owns[t] # {} /\ Owns[u] # {} /\ Owns[t] \cap Owns[u] = {}
MayRunBeside(t, others) == Owns[t] # {} /\ \A u \in others : Apart(t, u)

ReadyEarly == {t \in Tasks \ (done \cup running) : DependsOn[t] \subseteq done \cup running}
Ready == {t \in Tasks \ (done \cup running) : DependsOn[t] \subseteq done}

First(S) == {t \in S : \A u \in S : t <= u}

\* The held coder takes the first ready task, one that conflicted only when
\* there is no other.
AtHome == {t \in running : at[t] \in {"going home", "at home", "ended at home"}}
PickUnlessLast == IF AtHome # {} THEN {} ELSE First(Ready \ last)
Pick ==
    IF AtHome # {} THEN {}
    ELSE IF Ready \subseteq last THEN First(Ready) ELSE First(Ready \ last)

CoderFree(others) == Cardinality(others) < Concurrency

\* In plan order, each task that may run beside those running when its turn comes.
Candidates == Ready \ (Pick \cup homeOnly)
StartTogether(asides) ==
    \A t \in Candidates :
        LET others == running \cup Pick \cup {u \in asides : u < t}
        IN  t \in asides <=> CoderFree(others) /\ MayRunBeside(t, others)

Schedule ==
    /\ loop = "scheduling"
    /\ IF done = Tasks
       THEN loop' = "finished" /\ UNCHANGED <<running, at>>
       ELSE /\ \E asides \in SUBSET Candidates :
                  /\ StartTogether(asides)
                  /\ running' = running \cup Pick \cup asides
                  /\ at' = [t \in Tasks |-> IF t \in Pick THEN "going home"
                                            ELSE IF t \in asides THEN "starting aside" ELSE at[t]]
            /\ loop' = IF running' = {} THEN "aborted" ELSE "taking"
    /\ UNCHANGED <<disk, done, homeOnly, last, taken, base, home, queue, runs>>

\* A failed task interrupts every other one, and ends the run.
InterruptAll ==
    /\ loop' = "failed"
    /\ at' = [t \in Tasks |-> "idle"] /\ running' = {}
    /\ home' = NoTask /\ queue' = <<>>
    /\ UNCHANGED <<homeOnly, last, taken>>

ThoughConflicting == {"home", "merged", "conflict"}
Completing == {"home", "merged"}

NotHandedBack(t) == homeOnly
HandedBack(t) == homeOnly \cup {t}

\* A finished run is taken.  What did not merge goes to the held coder only.
Take ==
    /\ loop = "taking"
    /\ queue # <<>>
    /\ LET t == Head(queue).task
           end == Head(queue).end
       IN  IF end = "failure" THEN InterruptAll
           ELSE /\ queue' = Tail(queue)
                /\ running' = running \ {t}
                /\ at' = [at EXCEPT ![t] = "idle"]
                /\ IF end \in Completing
                   THEN /\ taken' = t /\ loop' = "saving"
                        /\ UNCHANGED <<homeOnly, last>>
                   ELSE /\ homeOnly' = HandedBack(t)
                        /\ last' = IF end = "conflict" THEN last \cup {t} ELSE last
                        /\ loop' = "scheduling"
                        /\ UNCHANGED taken
                /\ UNCHANGED home
    /\ UNCHANGED <<disk, done, base, runs>>

\* complete: the plan file first, then the loop's own set.  A save that fails
\* fails the story, whose other fibers go on until its own has ended.
Marked(t) == {u \in Tasks : Title[u] = Title[t]}

Save ==
    /\ loop = "saving"
    /\ \/ /\ saved' = saved \cup Marked(taken)
          /\ done' = done \cup {taken}
          /\ taken' = NoTask
          /\ loop' = "scheduling"
       \/ loop' = "failed" /\ UNCHANGED <<saved, done, taken>>
    /\ UNCHANGED <<onBranch, homeOnly, last, running, fibers, runs>>

-----------------------------------------------------------------------------
(* The task's fiber.                                                       *)

NoSemaphore == TRUE
HomeFree == home = NoTask

Offer(t, end, point) ==
    /\ queue' = Append(queue, [task |-> t, end |-> end])
    /\ at' = [at EXCEPT ![t] = point]

GoHome(t) ==
    /\ at[t] = "going home"
    /\ HomeFree
    /\ home' = t
    /\ at' = [at EXCEPT ![t] = "at home"]
    /\ base' = [base EXCEPT ![t] = onBranch]
    /\ UNCHANGED <<disk, control, queue, runs>>

\* perTask commits its work to the story branch, or fails the story.
WorkAtHome(t) ==
    /\ at[t] = "at home"
    /\ home' = NoTask
    /\ \/ onBranch' = onBranch \cup {t} /\ Offer(t, "home", "ended at home")
       \/ UNCHANGED onBranch /\ Offer(t, "failure", "ended at home")
    /\ UNCHANGED <<saved, control, base, runs>>

\* No coder is free, or a worktree is made on the story branch as it now is.
StartAside(t) ==
    /\ at[t] = "starting aside"
    /\ \/ Offer(t, "declined", "ended aside") /\ UNCHANGED base
       \/ /\ at' = [at EXCEPT ![t] = "aside"]
          /\ base' = [base EXCEPT ![t] = onBranch]
          /\ UNCHANGED queue
    /\ UNCHANGED <<disk, control, home, runs>>

\* Whatever goes wrong aside hands the task back; otherwise it awaits its merge.
WorkAside(t) ==
    /\ at[t] = "aside"
    /\ \/ Offer(t, "declined", "ended aside")
       \/ at' = [at EXCEPT ![t] = "merging"] /\ UNCHANGED queue
    /\ UNCHANGED <<disk, control, base, home, runs>>

\* exclusive: the merge holds the semaphore a task at home holds.
BeginMerge(t) ==
    /\ at[t] = "merging"
    /\ HomeFree
    /\ home' = t
    /\ at' = [at EXCEPT ![t] = "in merge"]
    /\ UNCHANGED <<disk, control, base, queue, runs>>

\* git refuses the merge, which counts as a conflict, or fails: the branch stays as it was.
EndMerge(t) ==
    /\ at[t] = "in merge"
    /\ home' = NoTask
    /\ \/ onBranch' = onBranch \cup {t} /\ Offer(t, "merged", "ended aside")
       \/ /\ \E end \in {"conflict", "declined"} : Offer(t, end, "ended aside")
          /\ UNCHANGED onBranch
    /\ UNCHANGED <<saved, control, base, runs>>

-----------------------------------------------------------------------------
\* The story is run again, after its run ended or was cut off anywhere.
Rerun ==
    /\ runs < MaxRuns
    /\ runs' = runs + 1
    /\ done' = saved
    /\ loop' = "scheduling"
    /\ homeOnly' = {} /\ last' = {} /\ running' = {} /\ taken' = NoTask
    /\ at' = [t \in Tasks |-> "idle"]
    /\ base' = [t \in Tasks |-> {}]
    /\ home' = NoTask /\ queue' = <<>>
    /\ UNCHANGED disk

Loop == Schedule \/ Take \/ Save
Fiber(t) ==
    \/ GoHome(t) \/ WorkAtHome(t)
    \/ StartAside(t) \/ WorkAside(t) \/ BeginMerge(t) \/ EndMerge(t)

Next == Loop \/ (\E t \in Tasks : Fiber(t)) \/ Rerun

Spec == Init /\ [][Next]_vars

\* The loop and the fibers are scheduled, and what they await comes to an end.
FairSpec == Spec /\ WF_vars(Loop) /\ \A t \in Tasks : WF_vars(Fiber(t))

-----------------------------------------------------------------------------
\* Every variable keeps its type.
TypeOK ==
    /\ saved \subseteq Tasks /\ onBranch \subseteq Tasks /\ done \subseteq Tasks
    /\ loop \in {"scheduling", "taking", "saving", "finished", "failed", "aborted"}
    /\ homeOnly \subseteq Tasks /\ last \subseteq homeOnly /\ running \subseteq Tasks
    /\ at \in [Tasks -> {"idle", "going home", "at home", "ended at home", "starting aside",
                         "aside", "merging", "in merge", "ended aside"}]
    /\ base \in [Tasks -> SUBSET Tasks]
    /\ home \in Tasks \cup {NoTask} /\ taken \in Tasks \cup {NoTask}
    /\ queue \in Seq([task : Tasks, end : Ends])
    /\ runs \in 1..MaxRuns

\* A task marked complete in the plan file has its work on the story branch,
\* wherever a run was cut off: the next run skips it.
CompleteIsOnBranch == saved \cup done \subseteq onBranch

\* A coder finds the work of every task its task depends on, in the worktree it
\* works in, though other tasks merge and hand back in any order.
DependenciesFound ==
    \A t \in Tasks : at[t] \in {"at home", "aside", "merging", "in merge"} =>
        DependsOn[t] \subseteq base[t]

\* No task merges into the story's worktree while the held coder works there,
\* and no two tasks do either; the coder has the branch it began from all along.
AloneInWorktree ==
    /\ Cardinality({t \in Tasks : at[t] \in {"at home", "in merge"}}) <= 1
    /\ \A t \in Tasks : at[t] = "at home" => onBranch = base[t]

Aside == {t \in Tasks : at[t] \in {"starting aside", "aside", "merging", "in merge"}}

\* Two tasks that run aside at once declared disjoint files, whenever each started
\* and however many start in one pass of the loop.
AsidesApart == \A t, u \in Aside : t # u => Owns[t] # {} /\ Owns[t] \cap Owns[u] = {}

\* The plan is finished or its story fails; it is never given up as stuck,
\* whatever is declined, conflicts or is cut off.
PlanEnds == <>[](loop \in {"finished", "failed"})
=============================================================================
