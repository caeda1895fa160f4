-------------------------- MODULE TaskGraphProofs --------------------------
(***************************************************************************)
(* Proofs about TaskGraph, for any plan, any footprints and any number of  *)
(* runs.  The inductive invariants say who holds the home semaphore, which *)
(* tasks the loop counts as running, and what a finished run in the queue  *)
(* stands for.                                                             *)
(***************************************************************************)
EXTENDS TaskGraph, FiniteSetTheorems, SequenceTheorems, TLAPS

\* The home semaphore is held by the one task that works or merges at home.
HomeHeld == \A t \in Tasks : at[t] \in {"at home", "in merge"} <=> home = t

\* A task whose fiber is under way is one the loop counts as running.
Launched == \A t \in Tasks : at[t] # "idle" => t \in running

\* The queue holds each ended run once.
Ended ==
    /\ \A i \in 1..Len(queue) : at[queue[i].task] \in {"ended at home", "ended aside"}
    /\ \A i, j \in 1..Len(queue) : queue[i].task = queue[j].task => i = j

\* Whoever works at home has the branch as it was when it began.
BranchStill == \A t \in Tasks : at[t] = "at home" => onBranch = base[t]

\* The loop saves the completion of a task, and of nothing else.
Saving == loop = "saving" => taken \in Tasks

Control == TypeOK /\ HomeHeld /\ Launched /\ Ended /\ BranchStill /\ Saving

\* Every task has a title of its own.
DistinctTitles == \A t, u \in Tasks : Title[t] = Title[u] => t = u

\* A run that completes its task has put the task's work on the story branch,
\* in the queue and while its completion is being saved.
CompletingIsOnBranch ==
    /\ \A i \in 1..Len(queue) : queue[i].end \in Completing => queue[i].task \in onBranch
    /\ loop = "saving" => taken \in onBranch

\* Only tasks whose dependencies are all complete are under way.
DependenciesDone == \A t \in Tasks : at[t] # "idle" => DependsOn[t] \subseteq done

Work == CompleteIsOnBranch /\ CompletingIsOnBranch /\ DependenciesDone /\ DependenciesFound

-----------------------------------------------------------------------------
Runs == [task : Tasks, end : Ends]
Places == {"idle", "going home", "at home", "ended at home", "starting aside",
           "aside", "merging", "in merge", "ended aside"}
Over == {"ended at home", "ended aside"}

\* A run that ends is queued once, after every run that ended before it.
LEMMA OfferQueues ==
  ASSUME TypeOK, Ended, NEW t \in Tasks, NEW end \in Ends, NEW point \in Over,
         at[t] \notin Over, Offer(t, end, point)
  PROVE  /\ queue' \in Seq(Runs)
         /\ at' \in [Tasks -> Places]
         /\ at'[t] = point
         /\ \A u \in Tasks \ {t} : at'[u] = at[u]
         /\ Len(queue') = Len(queue) + 1
         /\ \A i \in 1..Len(queue) : queue'[i] = queue[i]
         /\ queue'[Len(queue) + 1] = [task |-> t, end |-> end]
         /\ Ended'
<1> DEFINE entry == [task |-> t, end |-> end]
<1>1. queue \in Seq(Runs) /\ entry \in Runs /\ queue' = Append(queue, entry)
  BY DEF TypeOK, Offer, Runs
<1>2. /\ queue' \in Seq(Runs)
      /\ Len(queue') = Len(queue) + 1
      /\ \A i \in 1..Len(queue) : queue'[i] = queue[i]
      /\ queue'[Len(queue) + 1] = entry
  BY <1>1, AppendProperties
<1>3. /\ at' \in [Tasks -> Places]
      /\ at'[t] = point
      /\ \A u \in Tasks \ {t} : at'[u] = at[u]
  BY DEF TypeOK, Offer, Places, Over
<1>4. Len(queue) \in Nat /\ \A i \in 1..Len(queue) : queue[i] \in Runs
  BY <1>1, LenProperties, ElementOfSeq
<1>5. \A i \in 1..Len(queue) : queue[i].task # t
  BY DEF Ended, Over
<1>6. ASSUME NEW i \in 1..Len(queue')
      PROVE  /\ queue'[i].task \in Tasks
             /\ at'[queue'[i].task] \in Over
             /\ i # Len(queue) + 1 => /\ i \in 1..Len(queue)
                                      /\ queue'[i] = queue[i] /\ queue'[i].task # t
             /\ i = Len(queue) + 1 => queue'[i].task = t
  <2>1. CASE i = Len(queue) + 1
    BY <1>2, <1>3, <1>4, <2>1
  <2>2. CASE i # Len(queue) + 1
    <3>1. i \in 1..Len(queue)
      BY <1>2, <1>4, <2>2
    <3>2. queue'[i] = queue[i] /\ queue[i] \in Runs /\ queue[i].task # t
      BY <1>2, <1>4, <1>5, <3>1
    <3>3. queue[i].task \in Tasks /\ at[queue[i].task] \in Over
      BY <3>1, <3>2 DEF Runs, Ended, Over
    <3>. QED
      BY <1>3, <2>2, <3>1, <3>2, <3>3
  <2>. QED
    BY <2>1, <2>2
<1>7. ASSUME NEW i \in 1..Len(queue'), NEW j \in 1..Len(queue'), queue'[i].task = queue'[j].task
      PROVE  i = j
  BY <1>6, <1>7 DEF Ended
<1>8. Ended'
  BY <1>6, <1>7 DEF Ended, Over
<1>. QED
  BY <1>2, <1>3, <1>8

\* Taking a run off the queue leaves the others as they were.
LEMMA TakingKeepsEnded ==
  ASSUME queue \in Seq(Runs), queue # <<>>, at \in [Tasks -> Places], Ended,
         queue' = Tail(queue), at' = [at EXCEPT ![Head(queue).task] = "idle"]
  PROVE  /\ Head(queue) \in Runs /\ Head(queue) = queue[1] /\ 1 \in 1..Len(queue)
         /\ queue' \in Seq(Runs)
         /\ \A i \in 1..Len(queue') : i + 1 \in 1..Len(queue) /\ queue'[i] = queue[i + 1]
         /\ Ended'
<1>1. /\ Head(queue) \in Runs /\ queue' \in Seq(Runs)
      /\ Len(queue') = Len(queue) - 1
      /\ \A i \in 1..Len(queue') : queue'[i] = queue[i + 1]
  BY HeadTailProperties
<1>2. Len(queue) \in Nat \ {0} /\ \A i \in 1..Len(queue) : queue[i] \in Runs
  BY EmptySeq, ElementOfSeq
<1>3. Head(queue) = queue[1] /\ 1 \in 1..Len(queue)
  BY <1>2
<1>4. \A i \in 1..Len(queue') : i + 1 \in 1..Len(queue) /\ queue'[i] = queue[i + 1]
  BY <1>1, <1>2
<1>5. ASSUME NEW i \in 1..Len(queue')
      PROVE  /\ queue'[i].task \in Tasks
             /\ queue'[i].task # Head(queue).task
             /\ at'[queue'[i].task] \in Over
  <2>1. i \in Nat /\ i + 1 # 1
    BY <1>1, <1>2
  <2>2. queue'[i] = queue[i + 1] /\ queue[i + 1] \in Runs /\ i + 1 \in 1..Len(queue)
    BY <1>2, <1>4
  <2>3. queue[i + 1].task # queue[1].task
    BY <1>3, <2>1, <2>2 DEF Ended
  <2>4. queue[i + 1].task \in Tasks /\ at[queue[i + 1].task] \in Over
    BY <2>2 DEF Ended, Over, Runs
  <2>. QED
    BY <1>1, <1>3, <2>2, <2>3, <2>4 DEF Runs
<1>6. ASSUME NEW i \in 1..Len(queue'), NEW j \in 1..Len(queue'), queue'[i].task = queue'[j].task
      PROVE  i = j
  <2>1. i \in Nat /\ j \in Nat
    BY <1>1, <1>2
  <2>2. queue[i + 1].task = queue[j + 1].task => i + 1 = j + 1
    BY <1>4 DEF Ended
  <2>. QED
    BY <1>4, <1>6, <2>1, <2>2
<1>7. Ended'
  BY <1>5, <1>6 DEF Ended, Over
<1>. QED
  BY <1>1, <1>3, <1>4, <1>7

-----------------------------------------------------------------------------
\* Nothing runs and nothing is queued at first.
LEMMA ControlInit == Init => Control
BY PlanAssumption, BoundsAssumption, EmptySeq
DEF Init, Control, TypeOK, HomeHeld, Launched, Ended, BranchStill, Saving, Tasks, NoTask, Runs

\* What the loop starts, it counts as running; it starts only what does not run.
LEMMA ControlSchedule ==
  ASSUME Control, Schedule
  PROVE  Control'
<1> USE DEF Control
<1>1. CASE done = Tasks
  BY <1>1 DEF Schedule, TypeOK, HomeHeld, Launched, Ended, BranchStill, Saving, disk
<1>2. CASE done # Tasks
  <2>1. PICK asides \in SUBSET Candidates :
          /\ running' = running \cup Pick \cup asides
          /\ at' = [t \in Tasks |-> IF t \in Pick THEN "going home"
                                    ELSE IF t \in asides THEN "starting aside" ELSE at[t]]
    BY <1>2 DEF Schedule
  <2>2. /\ Pick \subseteq Tasks \ running /\ asides \subseteq Tasks \ running
    BY <2>1 DEF Pick, First, Candidates, Ready
  <2>3. \A t \in Tasks : \/ at'[t] = at[t]
                           \/ /\ at[t] = "idle" /\ t \in running'
                              /\ at'[t] \in {"going home", "starting aside"}
    BY <2>1, <2>2 DEF Launched
  <2>4. /\ UNCHANGED <<disk, done, homeOnly, last, taken, base, home, queue, runs>>
        /\ loop' \in {"aborted", "taking"}
    BY <1>2 DEF Schedule
  <2>5. TypeOK'
    <3>1. running' \subseteq Tasks
      BY <2>1, <2>2 DEF TypeOK
    <3>2. at' \in [Tasks -> Places]
      BY <2>1 DEF TypeOK, Places
    <3>. QED
      BY <2>4, <3>1, <3>2 DEF TypeOK, disk, Places
  <2>6. HomeHeld' /\ Launched'
    BY <2>1, <2>3, <2>4 DEF HomeHeld, Launched
  <2>7. Ended'
    <3>1. queue \in Seq(Runs)
      BY DEF TypeOK, Runs
    <3>2. \A i \in 1..Len(queue) : queue[i] \in Runs
      BY <3>1, ElementOfSeq
    <3>3. \A i \in 1..Len(queue) : at'[queue[i].task] = at[queue[i].task]
      BY <2>3, <3>2 DEF Ended, Runs
    <3>. QED
      BY <2>4, <3>3 DEF Ended
  <2>8. Saving' /\ BranchStill'
    BY <2>3, <2>4 DEF Saving, BranchStill, disk
  <2>. QED
    BY <2>5, <2>6, <2>7, <2>8
<1>. QED
  BY <1>1, <1>2

\* A run that is taken off the queue no longer counts as running.
LEMMA ControlTake ==
  ASSUME Control, Take
  PROVE  Control'
<1> DEFINE t == Head(queue).task
           end == Head(queue).end
<1> USE DEF Control
<1>1. queue \in Seq(Runs) /\ queue # <<>> /\ at \in [Tasks -> Places]
  BY DEF Take, TypeOK, Runs, Places
<1>2. Head(queue) \in Runs
  BY <1>1, HeadTailProperties
<1>3. t \in Tasks
  BY <1>2 DEF Runs
<1>4. CASE end = "failure"
  <2>1. /\ loop' = "failed" /\ at' = [u \in Tasks |-> "idle"] /\ running' = {}
        /\ home' = NoTask /\ queue' = <<>>
        /\ UNCHANGED <<saved, onBranch, homeOnly, last, taken, done, base, runs>>
    BY <1>4 DEF Take, InterruptAll, disk
  <2>2. queue' \in Seq(Runs) /\ Len(queue') = 0
    BY <2>1, EmptySeq
  <2>3. TypeOK'
    BY <2>1, <2>2 DEF TypeOK, Runs
  <2>4. NoTask \notin Tasks
    BY PlanAssumption DEF Tasks, NoTask
  <2>5. HomeHeld' /\ Launched'
    BY <2>1, <2>4 DEF HomeHeld, Launched
  <2>6. 1..Len(queue') = {}
    BY <2>2
  <2>7. Ended'
    BY <2>6 DEF Ended
  <2>. QED
    BY <2>1, <2>3, <2>5, <2>7 DEF Saving, BranchStill
<1>5. CASE end # "failure"
  <2>1. /\ queue' = Tail(queue) /\ running' = running \ {t} /\ at' = [at EXCEPT ![t] = "idle"]
        /\ home' = home
    BY <1>5 DEF Take
  <2>2. UNCHANGED <<saved, onBranch, done, base, runs>>
    BY DEF Take, disk
  <2>3. /\ loop' \in {"saving", "scheduling"}
        /\ taken' \in {taken, t}
        /\ loop' = "saving" => taken' = t
        /\ homeOnly' \in {homeOnly, homeOnly \cup {t}}
        /\ last' \in {last, last \cup {t}}
        /\ last' = last \/ homeOnly' = homeOnly \cup {t}
    BY <1>5 DEF Take, HandedBack
  <2>4. queue' \in Seq(Runs) /\ Ended' /\ at[t] \in Over
    BY <1>1, <2>1, TakingKeepsEnded DEF Ended, Over
  <2>5. TypeOK'
    <3>1. running' \subseteq Tasks /\ at' \in [Tasks -> Places]
      BY <1>1, <2>1 DEF TypeOK, Places
    <3>2. homeOnly' \subseteq Tasks /\ last' \subseteq homeOnly' /\ taken' \in Tasks \cup {NoTask}
      BY <1>3, <2>3 DEF TypeOK
    <3>. QED
      BY <2>1, <2>2, <2>3, <2>4, <3>1, <3>2 DEF TypeOK, Runs, Places
  <2>6. HomeHeld' /\ Launched' /\ BranchStill'
    BY <1>1, <1>3, <2>1, <2>2, <2>4 DEF HomeHeld, Launched, BranchStill, Over
  <2>. QED
    BY <1>3, <2>3, <2>4, <2>5, <2>6 DEF Saving
<1>. QED
  BY <1>4, <1>5

\* A step of a task's fiber: it takes or leaves the semaphore as it enters or
\* leaves the story's worktree, and is queued as it ends.
LEMMA ControlFiber ==
  ASSUME Control, NEW t \in Tasks, Fiber(t)
  PROVE  Control'
<1> USE DEF Control
<1> DEFINE Kept == TypeOK' /\ HomeHeld' /\ Launched' /\ Ended' /\ BranchStill'
<1>1. NoTask \notin Tasks
  BY PlanAssumption DEF Tasks, NoTask
<1>2. ASSUME NEW point \in Places \ (Over \cup {"idle"}), at[t] \notin Over \cup {"idle"},
             at' = [at EXCEPT ![t] = point], UNCHANGED <<queue, control, disk, runs>>,
             base' \in [Tasks -> SUBSET Tasks], home' \in Tasks \cup {NoTask}
      PROVE  TypeOK' /\ Ended' /\ Launched'
  <2>1. at' \in [Tasks -> Places]
    BY <1>2 DEF TypeOK, Places
  <2>2. TypeOK'
    BY <1>2, <2>1 DEF TypeOK, control, disk, Places
  <2>3. queue \in Seq(Runs)
    BY DEF TypeOK, Runs
  <2>4. \A i \in 1..Len(queue) : queue[i] \in Runs
    BY <2>3, ElementOfSeq
  <2>5. \A i \in 1..Len(queue) : at'[queue[i].task] = at[queue[i].task]
    BY <1>2, <2>4 DEF Ended, TypeOK, Over, Runs
  <2>6. Ended'
    BY <1>2, <2>5 DEF Ended
  <2>7. Launched'
    BY <1>2 DEF Launched, TypeOK, control
  <2>. QED
    BY <2>2, <2>6, <2>7
<1>3. ASSUME NEW end \in Ends, NEW point \in Over, at[t] \notin Over \cup {"idle"},
             Offer(t, end, point), UNCHANGED <<saved, control, base, runs>>,
             onBranch' \subseteq Tasks, home' \in Tasks \cup {NoTask}
      PROVE  TypeOK' /\ Ended' /\ Launched'
  <2>1. /\ queue' \in Seq(Runs) /\ at' \in [Tasks -> Places] /\ at'[t] = point
        /\ \A u \in Tasks \ {t} : at'[u] = at[u]
        /\ Ended'
    BY <1>3, OfferQueues
  <2>2. TypeOK'
    BY <1>3, <2>1 DEF TypeOK, control, Runs, Places
  <2>3. Launched'
    BY <1>3, <2>1 DEF Launched, control
  <2>. QED
    BY <2>1, <2>2, <2>3
<1>4. ASSUME GoHome(t) PROVE Kept
  <2>1. TypeOK' /\ Ended' /\ Launched'
    BY <1>2, <1>4 DEF GoHome, Places, Over, TypeOK, disk, control
  <2>2. HomeHeld' /\ BranchStill'
    BY <1>1, <1>4 DEF GoHome, HomeFree, HomeHeld, BranchStill, disk, TypeOK
  <2>. QED
    BY <2>1, <2>2
<1>5. ASSUME WorkAtHome(t) PROVE Kept
  <2>1. PICK end \in {"home", "failure"} : Offer(t, end, "ended at home")
    BY <1>5 DEF WorkAtHome
  <2>2. TypeOK' /\ Ended' /\ Launched'
    BY <1>3, <1>5, <2>1 DEF WorkAtHome, Ends, Over, TypeOK
  <2>3. HomeHeld' /\ BranchStill'
    BY <1>1, <1>5, <2>1 DEF WorkAtHome, Offer, HomeHeld, BranchStill, disk, TypeOK
  <2>. QED
    BY <2>2, <2>3
<1>6. ASSUME StartAside(t) PROVE Kept
  <2>1. CASE at' = [at EXCEPT ![t] = "aside"] /\ UNCHANGED queue
    <3>1. base' \in {base, [base EXCEPT ![t] = onBranch]}
      BY <1>6 DEF StartAside
    <3>2. base' \in [Tasks -> SUBSET Tasks]
      BY <3>1 DEF TypeOK
    <3>3. TypeOK' /\ Ended' /\ Launched'
      BY <1>2, <1>6, <2>1, <3>2 DEF StartAside, Places, Over, TypeOK, disk, control
    <3>4. HomeHeld' /\ BranchStill'
      BY <1>6, <2>1 DEF StartAside, HomeHeld, BranchStill, disk, TypeOK
    <3>. QED
      BY <3>3, <3>4
  <2>2. CASE Offer(t, "declined", "ended aside") /\ UNCHANGED base
    <3>1. TypeOK' /\ Ended' /\ Launched'
      BY <1>3, <1>6, <2>2 DEF StartAside, Ends, Over, TypeOK, disk
    <3>2. HomeHeld' /\ BranchStill'
      BY <1>6, <2>2 DEF StartAside, Offer, HomeHeld, BranchStill, disk, TypeOK
    <3>. QED
      BY <3>1, <3>2
  <2>. QED
    BY <1>6, <2>1, <2>2 DEF StartAside
<1>7. ASSUME WorkAside(t) PROVE Kept
  <2>1. CASE at' = [at EXCEPT ![t] = "merging"] /\ UNCHANGED queue
    <3>1. TypeOK' /\ Ended' /\ Launched'
      BY <1>2, <1>7, <2>1 DEF WorkAside, Places, Over, TypeOK, disk, control
    <3>2. HomeHeld' /\ BranchStill'
      BY <1>7, <2>1 DEF WorkAside, HomeHeld, BranchStill, disk, TypeOK
    <3>. QED
      BY <3>1, <3>2
  <2>2. CASE Offer(t, "declined", "ended aside")
    <3>1. TypeOK' /\ Ended' /\ Launched'
      BY <1>3, <1>7, <2>2 DEF WorkAside, Ends, Over, TypeOK, disk
    <3>2. HomeHeld' /\ BranchStill'
      BY <1>7, <2>2 DEF WorkAside, Offer, HomeHeld, BranchStill, disk, TypeOK
    <3>. QED
      BY <3>1, <3>2
  <2>. QED
    BY <1>7, <2>1, <2>2 DEF WorkAside
<1>8. ASSUME BeginMerge(t) PROVE Kept
  <2>1. TypeOK' /\ Ended' /\ Launched'
    BY <1>2, <1>8 DEF BeginMerge, Places, Over, TypeOK, disk, control
  <2>2. HomeHeld' /\ BranchStill'
    BY <1>1, <1>8 DEF BeginMerge, HomeFree, HomeHeld, BranchStill, disk, TypeOK
  <2>. QED
    BY <2>1, <2>2
<1>9. ASSUME EndMerge(t) PROVE Kept
  <2>1. PICK end \in {"merged", "conflict", "declined"} : Offer(t, end, "ended aside")
    BY <1>9 DEF EndMerge
  <2>2. TypeOK' /\ Ended' /\ Launched'
    BY <1>3, <1>9, <2>1 DEF EndMerge, Ends, Over, TypeOK
  <2>3. HomeHeld' /\ BranchStill'
    BY <1>1, <1>9, <2>1 DEF EndMerge, Offer, HomeHeld, BranchStill, disk, TypeOK
  <2>. QED
    BY <2>2, <2>3
<1>10. UNCHANGED control
  BY DEF Fiber, GoHome, WorkAtHome, StartAside, WorkAside, BeginMerge, EndMerge
<1>11. Saving'
  BY <1>10 DEF Saving, control
<1>. QED
  BY <1>4, <1>5, <1>6, <1>7, <1>8, <1>9, <1>11 DEF Fiber

\* Every step of the loop and of a task, and a new run, keep the bookkeeping.
LEMMA ControlNext == Control /\ [Next]_vars => Control'
<1> SUFFICES ASSUME Control, [Next]_vars
             PROVE  Control'
  OBVIOUS
<1>1. CASE Schedule
  BY <1>1, ControlSchedule
<1>2. CASE Take
  BY <1>2, ControlTake
<1>3. CASE Save
  <2>1. /\ UNCHANGED <<onBranch, homeOnly, last, running, at, base, home, queue, runs>>
        /\ saved' \in {saved, saved \cup Marked(taken)} /\ done' \in {done, done \cup {taken}}
        /\ taken' \in {taken, NoTask} /\ loop' \in {"scheduling", "failed"} /\ taken \in Tasks
    BY <1>3 DEF Save, fibers, Control, Saving
  <2>2. TypeOK'
    BY <2>1 DEF Marked, Control, TypeOK
  <2>. QED
    BY <2>1, <2>2 DEF Control, HomeHeld, Launched, Ended, BranchStill, Saving
<1>4. ASSUME NEW t \in Tasks, Fiber(t)
      PROVE  Control'
  BY <1>4, ControlFiber
<1>5. CASE Rerun
  <2>1. /\ at' = [t \in Tasks |-> "idle"] /\ base' = [t \in Tasks |-> {}]
        /\ home' = NoTask /\ queue' = <<>> /\ running' = {} /\ taken' = NoTask
        /\ homeOnly' = {} /\ last' = {} /\ loop' = "scheduling"
        /\ done' = saved /\ runs' = runs + 1 /\ runs < MaxRuns /\ UNCHANGED <<saved, onBranch>>
    BY <1>5 DEF Rerun, disk
  <2>2. queue' \in Seq(Runs) /\ 1..Len(queue') = {}
    BY <2>1, EmptySeq
  <2>3. NoTask \notin Tasks
    BY PlanAssumption DEF Tasks, NoTask
  <2>4. runs' \in 1..MaxRuns
    <3>1. runs \in 1..MaxRuns
      BY DEF Control, TypeOK
    <3>2. runs' = runs + 1 /\ runs < MaxRuns
      BY <2>1
    <3>. QED
      BY <3>1, <3>2, BoundsAssumption
  <2>5. TypeOK'
    <3>1. at' \in [Tasks -> Places] /\ base' \in [Tasks -> SUBSET Tasks]
      BY <2>1 DEF Places
    <3>. QED
      BY <2>1, <2>2, <2>4, <3>1 DEF Control, TypeOK, Runs, Places
  <2>6. HomeHeld' /\ Launched' /\ BranchStill' /\ Saving'
    BY <2>1, <2>3 DEF HomeHeld, Launched, BranchStill, Saving
  <2>7. Ended'
    BY <2>2 DEF Ended
  <2>. QED
    BY <2>5, <2>6, <2>7 DEF Control
<1>6. CASE UNCHANGED vars
  BY <1>6 DEF vars, Control, TypeOK, HomeHeld, Launched, Ended, BranchStill, Saving
<1>. QED
  BY <1>1, <1>2, <1>3, <1>4, <1>5, <1>6 DEF Next, Loop

\* The bookkeeping of the loop holds through all runs of the story.
LEMMA ControlAlways == Spec => []Control
BY ControlInit, ControlNext, PTL DEF Spec

\* TaskGraph's state keeps its types, for any plan and number of runs.
THEOREM TypeCorrect == Spec => []TypeOK
BY ControlAlways, PTL DEF Control

\* Mutual exclusion in the story's worktree, by the home semaphore: at most one
\* task is at work at home or in its merge, and while the held coder works
\* nothing is merged under it, for any plan, any coders and any runs.
THEOREM WorktreeIsExclusive == Spec => []AloneInWorktree
<1>1. Control => AloneInWorktree
  <2> SUFFICES ASSUME Control
               PROVE  AloneInWorktree
    OBVIOUS
  <2> DEFINE inside == {t \in Tasks : at[t] \in {"at home", "in merge"}}
  <2>1. inside \in SUBSET {home}
    BY DEF Control, HomeHeld
  <2>2. Cardinality(inside) <= Cardinality({home}) /\ Cardinality({home}) = 1
    BY <2>1, FS_Singleton, FS_Subset
  <2>. QED
    BY <2>2 DEF AloneInWorktree, Control, BranchStill
<1>. QED
  BY <1>1, ControlAlways, PTL

-----------------------------------------------------------------------------
\* Two tasks under way aside have disjoint footprints; only the launch adds one.
LEMMA ApartNext == Control /\ AsidesApart /\ [Next]_vars => AsidesApart'
<1> SUFFICES ASSUME Control, AsidesApart, [Next]_vars
             PROVE  AsidesApart'
  OBVIOUS
<1>1. CASE Schedule /\ done # Tasks
  <2>1. PICK asides \in SUBSET Candidates :
          /\ StartTogether(asides)
          /\ at' = [t \in Tasks |-> IF t \in Pick THEN "going home"
                                    ELSE IF t \in asides THEN "starting aside" ELSE at[t]]
    BY <1>1 DEF Schedule
  <2>2. \A t \in asides : \A u \in running \cup {v \in asides : v < t} : Apart(t, u)
    BY <2>1 DEF StartTogether, MayRunBeside
  <2>3. Aside' \subseteq Aside \cup asides
    BY <2>1 DEF Aside
  <2>4. Aside \subseteq running
    BY DEF Aside, Control, Launched
  <2>5. asides \subseteq Tasks
    BY <2>1 DEF Candidates, Ready
  <2>6. ASSUME NEW t \in Aside', NEW u \in Aside', t # u
        PROVE  Owns[t] # {} /\ Owns[t] \cap Owns[u] = {}
    <3>1. CASE t \in Aside /\ u \in Aside
      BY <2>6, <3>1 DEF AsidesApart
    <3>2. CASE t \in asides /\ u \in Aside
      BY <2>2, <2>4, <3>2 DEF Apart
    <3>3. CASE t \in Aside /\ u \in asides
      BY <2>2, <2>4, <3>3 DEF Apart
    <3>4. CASE t \in asides /\ u \in asides
      <4>1. u < t \/ t < u
        BY <2>5, <2>6, <3>4, PlanAssumption DEF Tasks
      <4>. QED
        BY <2>2, <3>4, <4>1 DEF Apart
    <3>. QED
      BY <2>3, <2>6, <3>1, <3>2, <3>3, <3>4
  <2>. QED
    BY <2>6 DEF AsidesApart
<1>2. ASSUME Aside' \subseteq Aside
      PROVE  AsidesApart'
  BY <1>2 DEF AsidesApart
<1>3. CASE ~(Schedule /\ done # Tasks)
  <2>1. CASE Schedule
    BY <1>3, <2>1, <1>2 DEF Schedule, Aside
  <2>2. CASE Take
    BY <1>2, <2>2 DEF Take, InterruptAll, Aside, Control, TypeOK
  <2>3. CASE Save
    BY <1>2, <2>3 DEF Save, fibers, Aside
  <2>4. ASSUME NEW t \in Tasks, Fiber(t)
        PROVE  AsidesApart'
    BY <1>2, <2>4 DEF Fiber, GoHome, WorkAtHome, StartAside, WorkAside, BeginMerge, EndMerge,
                      Offer, Aside, Control, TypeOK
  <2>5. CASE Rerun
    BY <1>2, <2>5 DEF Rerun, Aside
  <2>6. CASE UNCHANGED vars
    BY <1>2, <2>6 DEF vars, Aside
  <2>. QED
    BY <2>1, <2>2, <2>3, <2>4, <2>5, <2>6 DEF Next, Loop
<1>. QED
  BY <1>1, <1>3

\* mayRunBeside is asked once, when a task starts aside, and of the tasks that
\* run then; that is enough for every two tasks aside to own disjoint files.
THEOREM FootprintsApart == Spec => []AsidesApart
<1>1. Init => AsidesApart
  BY DEF Init, AsidesApart, Aside
<1>. QED
  BY <1>1, ApartNext, ControlAlways, PTL DEF Spec

-----------------------------------------------------------------------------
\* What is taken as complete is on the branch; a failure leaves nothing to take.
LEMMA WorkTake ==
  ASSUME Control, Work, Take
  PROVE  Work'
<1> DEFINE t == Head(queue).task
           end == Head(queue).end
<1>1. queue \in Seq(Runs) /\ queue # <<>> /\ at \in [Tasks -> Places]
  BY DEF Take, Control, TypeOK, Runs, Places
<1>2. UNCHANGED <<saved, onBranch, done, base>>
  BY DEF Take, disk
<1>3. CASE end = "failure"
  <2>1. loop' = "failed" /\ at' = [u \in Tasks |-> "idle"] /\ queue' = <<>>
    BY <1>3 DEF Take, InterruptAll
  <2>2. 1..Len(queue') = {}
    BY <2>1, EmptySeq
  <2>3. CompletingIsOnBranch'
    BY <2>1, <2>2 DEF CompletingIsOnBranch
  <2>. QED
    BY <1>2, <2>1, <2>3 DEF Work, CompleteIsOnBranch, DependenciesDone, DependenciesFound
<1>4. CASE end # "failure"
  <2>1. /\ queue' = Tail(queue) /\ at' = [at EXCEPT ![t] = "idle"]
        /\ loop' = "saving" => taken' = t /\ end \in Completing
    BY <1>4 DEF Take
  <2>2. /\ Head(queue) = queue[1] /\ 1 \in 1..Len(queue)
        /\ \A i \in 1..Len(queue') : i + 1 \in 1..Len(queue) /\ queue'[i] = queue[i + 1]
    BY <1>1, <2>1, TakingKeepsEnded DEF Control
  <2>3. CompletingIsOnBranch'
    <3>1. \A i \in 1..Len(queue') : queue'[i].end \in Completing => queue'[i].task \in onBranch
      BY <2>2 DEF Work, CompletingIsOnBranch
    <3>2. end \in Completing => t \in onBranch
      BY <2>2 DEF Work, CompletingIsOnBranch
    <3>. QED
      BY <1>2, <2>1, <3>1, <3>2 DEF CompletingIsOnBranch, Completing
  <2>4. \A u \in Tasks : at'[u] = at[u] \/ at'[u] = "idle"
    BY <1>1, <2>1
  <2>5. DependenciesDone' /\ DependenciesFound'
    BY <1>2, <2>4 DEF Work, DependenciesDone, DependenciesFound
  <2>. QED
    BY <1>2, <2>3, <2>5 DEF Work, CompleteIsOnBranch
<1>. QED
  BY <1>3, <1>4

\* A coder finds the work of the dependencies because the loop starts a task
\* when they are complete, and what is complete is already on the branch its
\* worktree is made from; no step takes work off that branch.
LEMMA WorkFiber ==
  ASSUME Control, Work, NEW t \in Tasks, Fiber(t)
  PROVE  Work'
<1> DEFINE Working == {"at home", "aside", "merging", "in merge"}
<1>1. UNCHANGED <<saved, done, loop, taken>> /\ onBranch \subseteq onBranch'
  BY DEF Fiber, GoHome, WorkAtHome, StartAside, WorkAside, BeginMerge, EndMerge, disk, control
<1>2. CompleteIsOnBranch'
  BY <1>1 DEF Work, CompleteIsOnBranch
<1>3. at[t] # "idle" /\ \A u \in Tasks : at'[u] # "idle" => u = t \/ at[u] # "idle"
  BY DEF Fiber, GoHome, WorkAtHome, StartAside, WorkAside, BeginMerge, EndMerge, Offer,
         Control, TypeOK
<1>4. DependenciesDone'
  BY <1>1, <1>3 DEF Work, DependenciesDone
<1>5. DependsOn[t] \subseteq onBranch
  BY <1>3 DEF Work, DependenciesDone, CompleteIsOnBranch
<1>6. \A u \in Tasks : at'[u] \in Working =>
         \/ base'[u] = base[u] /\ at[u] \in Working
         \/ base'[u] = onBranch /\ u = t
  <2> USE DEF Control, TypeOK
  <2>1. CASE GoHome(t)
    BY <2>1 DEF GoHome
  <2>2. CASE StartAside(t)
    <3>1. CASE Offer(t, "declined", "ended aside") /\ UNCHANGED base
      BY <3>1 DEF Offer
    <3>2. CASE at' = [at EXCEPT ![t] = "aside"] /\ base' = [base EXCEPT ![t] = onBranch]
      BY <3>2
    <3>. QED
      BY <2>2, <3>1, <3>2 DEF StartAside
  <2>3. CASE WorkAtHome(t) \/ WorkAside(t) \/ BeginMerge(t) \/ EndMerge(t)
    BY <2>3 DEF WorkAtHome, WorkAside, BeginMerge, EndMerge, Offer
  <2>. QED
    BY <2>1, <2>2, <2>3 DEF Fiber
<1>7. DependenciesFound'
  BY <1>5, <1>6 DEF Work, DependenciesFound
<1>8. \/ UNCHANGED queue
      \/ \E end \in Ends, point \in Over :
            Offer(t, end, point) /\ (end \in Completing => t \in onBranch') /\ at[t] \notin Over
  BY DEF Fiber, GoHome, WorkAtHome, StartAside, WorkAside, BeginMerge, EndMerge,
         Ends, Over, Completing
<1>9. CompletingIsOnBranch'
  <2>1. CASE UNCHANGED queue
    BY <1>1, <2>1 DEF Work, CompletingIsOnBranch
  <2>2. ASSUME NEW end \in Ends, NEW point \in Over, at[t] \notin Over, Offer(t, end, point),
               end \in Completing => t \in onBranch'
        PROVE  CompletingIsOnBranch'
    <3>1. /\ Len(queue') = Len(queue) + 1
          /\ \A i \in 1..Len(queue) : queue'[i] = queue[i]
          /\ queue'[Len(queue) + 1] = [task |-> t, end |-> end]
      BY <2>2, OfferQueues DEF Control
    <3>2. Len(queue) \in Nat
      BY LenProperties DEF Control, TypeOK
    <3>3. \A i \in 1..Len(queue') : i \in 1..Len(queue) \/ i = Len(queue) + 1
      BY <3>1, <3>2
    <3>4. \A i \in 1..Len(queue') : queue'[i].end \in Completing => queue'[i].task \in onBranch'
      BY <1>1, <2>2, <3>1, <3>3 DEF Work, CompletingIsOnBranch
    <3>. QED
      BY <1>1, <3>4 DEF Work, CompletingIsOnBranch, Completing
  <2>. QED
    BY <1>8, <2>1, <2>2
<1>. QED
  BY <1>2, <1>4, <1>7, <1>9 DEF Work

\* A completion is saved only of what is on the branch, and a coder starts from
\* the branch, so with the dependencies complete it finds their work.
LEMMA WorkNext ==
  ASSUME DistinctTitles
  PROVE  Control /\ Work /\ [Next]_vars => Work'
<1> SUFFICES ASSUME Control, Work, [Next]_vars
             PROVE  Work'
  OBVIOUS
<1>1. CASE Schedule
  <2>1. UNCHANGED <<saved, onBranch, done, base, queue>> /\ loop' # "saving"
    BY <1>1 DEF Schedule, disk
  <2>2. \A t \in Tasks : \/ at'[t] = at[t]
                         \/ at'[t] \in {"going home", "starting aside"} /\ DependsOn[t] \subseteq done
    BY <1>1 DEF Schedule, Pick, First, Candidates, Ready, Control, TypeOK
  <2>. QED
    BY <2>1, <2>2 DEF Work, CompleteIsOnBranch, CompletingIsOnBranch, DependenciesDone,
                      DependenciesFound
<1>2. CASE Take
  BY <1>2, WorkTake
<1>3. CASE Save
  <2>1. taken \in Tasks /\ taken \in onBranch
    BY <1>3 DEF Save, Control, Saving, Work, CompletingIsOnBranch
  <2>2. Marked(taken) = {taken}
    BY <2>1 DEF Marked, DistinctTitles
  <2>3. /\ saved' \in {saved, saved \cup {taken}} /\ done' \in {done, done \cup {taken}}
        /\ loop' # "saving" /\ UNCHANGED <<onBranch, at, base, queue>>
    BY <1>3, <2>2 DEF Save, fibers
  <2>. QED
    BY <2>1, <2>3 DEF Work, CompleteIsOnBranch, CompletingIsOnBranch, DependenciesDone,
                      DependenciesFound
<1>4. ASSUME NEW t \in Tasks, Fiber(t)
      PROVE  Work'
  BY <1>4, WorkFiber
<1>5. CASE Rerun
  <2>1. /\ UNCHANGED <<saved, onBranch>> /\ done' = saved /\ loop' = "scheduling"
        /\ at' = [t \in Tasks |-> "idle"] /\ queue' = <<>>
    BY <1>5 DEF Rerun, disk
  <2>2. 1..Len(queue') = {}
    BY <2>1, EmptySeq
  <2>3. CompletingIsOnBranch'
    BY <2>1, <2>2 DEF CompletingIsOnBranch
  <2>. QED
    BY <2>1, <2>3 DEF Work, CompleteIsOnBranch, DependenciesDone, DependenciesFound
<1>6. CASE UNCHANGED vars
  BY <1>6 DEF vars, Work, CompleteIsOnBranch, CompletingIsOnBranch, DependenciesDone,
              DependenciesFound
<1>. QED
  BY <1>1, <1>2, <1>3, <1>4, <1>5, <1>6 DEF Next, Loop

\* Nothing is complete at first.
LEMMA WorkInit == Init => Work
<1> SUFFICES ASSUME Init
             PROVE  Work
  OBVIOUS
<1>1. 1..Len(queue) = {}
  BY EmptySeq DEF Init
<1>2. CompletingIsOnBranch
  BY <1>1 DEF Init, CompletingIsOnBranch
<1>. QED
  BY <1>2 DEF Init, Work, CompleteIsOnBranch, DependenciesDone, DependenciesFound

\* If no two tasks share a title, a task the plan file calls complete has its
\* work on the story branch, wherever and however often runs are cut off.
THEOREM CompleteTasksAreDone ==
  ASSUME DistinctTitles
  PROVE  Spec => []CompleteIsOnBranch
BY WorkInit, WorkNext, ControlAlways, PTL DEF Spec, Work

\* Under the same assumption every coder, at home or aside, finds in its
\* worktree the work of all the tasks its task depends on.
THEOREM CodersFindDependencies ==
  ASSUME DistinctTitles
  PROVE  Spec => []DependenciesFound
BY WorkInit, WorkNext, ControlAlways, PTL DEF Spec, Work
=============================================================================
