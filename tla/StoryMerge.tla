----------------------------- MODULE StoryMerge -----------------------------
(***************************************************************************)
(* How the stories of one epic reach its branch: implementStory, runStory, *)
(* prepareWorktree and integrate of packages/flow/src/Stories.ts, with the *)
(* gate baselines of packages/flow/src/GateTriage.ts.                      *)
(*                                                                         *)
(* Stories run concurrently, each in its worktree.  Merges and the gates   *)
(* of the merged head happen under one semaphore.  The epic branch, the    *)
(* story branches, the story state files and the baselines file survive a  *)
(* run that crashes or is interrupted; everything else starts over.        *)
(* A step ends where the fiber awaits git, the gates or the file system.   *)
(***************************************************************************)
EXTENDS Naturals, FiniteSets

CONSTANTS
    Stories,
    DependsOn,      \* the stories each story waits for
    Preexisting,    \* gate lines that are red before any story
    MergeRevisions, \* StoriesOptions.mergeRevisions
    MaxRuns,        \* bound: runs of the epic, each ended at any moment by the next
    FailingRuns     \* bound: in the first of them the epic gates, or a rollback, may fail

NoStory == "no story"
Clash == "red together" \* the gate line of stories that are green one by one
ASSUME StoriesAssumption == NoStory \notin Stories /\ Clash \notin Preexisting
ASSUME OptionsAssumption ==
    /\ DependsOn \in [Stories -> SUBSET Stories]
    /\ MergeRevisions \in Nat
    /\ MaxRuns \in Nat \ {0}
    /\ FailingRuns \in Nat

VARIABLES
    epic,       \* what the checked-out epic branch holds of each story
    branch,     \* the head commit of each story branch
    file,       \* the status in each story's state file
    baselines,  \* gates/baselines.json: the red lines recorded per commit
    pc,         \* where each story's fiber awaits
    outcome,    \* the outcome of each story in this run
    revisions,  \* merge revisions each story has had in this run
    base,       \* storyBase, the commit the story's gates are compared with
    snap,       \* the baselines each story has read and will write back
    lock,       \* the story that holds mergeLock
    checkpoint, \* the epic head integrate will roll back to
    before,     \* the red lines of that head, as its baseline has them
    runs,
    ungated,    \* history: stories whose merge was left neither found green nor undone
    clobbered,  \* history: a write of the baselines file dropped an entry of another
    early       \* history: stories found in place on a head whose gates were running

fiber == <<pc, outcome, revisions, base, snap>>
integration == <<lock, checkpoint, before>>
history == <<runs, ungated, clobbered, early>>
disk == <<epic, branch, file, baselines>>
vars == <<disk, fiber, integration, history>>

Work == {"none", "plain", "clashing"}
Content == [Stories -> Work]
Commits == [by : Stories \cup {NoStory}, has : Content]  \* by NoStory: the epic branch's own
Lines == Preexisting \cup {Clash}

\* The red gate lines of a tree: what was red before the epic, and one more when
\* it holds two stories that clash.  (Work that is red by itself goes back to the
\* coder in the worktree, and is not told apart here.)
Clashing(has) == \E s, t \in Stories : s # t /\ has[s] = "clashing" /\ has[t] = "clashing"
Red(has) == Preexisting \cup (IF Clashing(has) THEN {Clash} ELSE {})
EpicHead == [by |-> NoStory, has |-> epic]

Entries == [commit : Commits, red : SUBSET Lines]
Stored(commit) == \E b \in baselines : b.commit = commit
Recorded(commit) == (CHOOSE b \in baselines : b.commit = commit).red
Put(all, commit, red) ==
    {b \in all : b.commit # commit} \cup {[commit |-> commit, red |-> red]}

Fresh == [s \in Stories |-> "none"]

Init ==
    /\ epic = Fresh
    /\ branch = [s \in Stories |-> [by |-> NoStory, has |-> Fresh]]
    /\ file = [s \in Stories |-> "none"]
    /\ baselines = Put({}, EpicHead, Red(Fresh))
    /\ pc = [s \in Stories |-> "idle"]
    /\ outcome = [s \in Stories |-> "none"]
    /\ revisions = [s \in Stories |-> 0]
    /\ base = branch
    /\ snap = [s \in Stories |-> {}]
    /\ lock = NoStory
    /\ checkpoint = Fresh /\ before = {}
    /\ runs = 1 /\ ungated = {} /\ clobbered = FALSE /\ early = {}

-----------------------------------------------------------------------------
At(s, point) == pc[s] = point
Goto(s, point) == pc' = [pc EXCEPT ![s] = point]

LockIgnored == TRUE
LockFree == lock = NoStory
LockKept == UNCHANGED lock /\ checkpoint' = Fresh /\ before' = {}
Unlock == lock' = NoStory /\ checkpoint' = Fresh /\ before' = {}

\* writeBaseline reads the whole file, and writes it back with one entry more.
Read(s) == snap' = [snap EXCEPT ![s] = baselines]
Write(s, commit, red) ==
    /\ baselines' = Put(snap[s], commit, red)
    /\ snap' = [snap EXCEPT ![s] = {}]
    /\ clobbered' = (clobbered \/ \E b \in baselines :
                        b.commit # commit /\ b \notin snap[s])

\* attempt's handler: the story is failed, in its file too unless it merged.
Fail(s) ==
    /\ outcome' = [outcome EXCEPT ![s] = "failed"]
    /\ file' = [file EXCEPT ![s] = IF @ \in {"none", "merged"} THEN @ ELSE "failed"]
    /\ Goto(s, "over")

-----------------------------------------------------------------------------
(* The story in its worktree.                                              *)

\* prepareWorktree: skip a merged story, branch a new one, resume any other.
Start(s) ==
    /\ At(s, "idle")
    /\ \A d \in DependsOn[s] : outcome[d] = "done"
    /\ IF file[s] = "merged"
       THEN /\ outcome' = [outcome EXCEPT ![s] = "done"]
            /\ Goto(s, "over")
            /\ UNCHANGED <<branch, file>>
       ELSE /\ branch' = [branch EXCEPT ![s] = IF file[s] = "none" THEN EpicHead ELSE @]
            /\ file' = [file EXCEPT ![s] = IF @ = "none" THEN "started" ELSE @]
            /\ Goto(s, "starting")
            /\ UNCHANGED outcome
    /\ UNCHANGED <<epic, baselines, revisions, base, snap, integration, history>>

\* A merge between the epic and the branch of s: each side's own work, and of
\* any other story what the epic has, or else what the branch once took from it.
Joined(s) ==
    [t \in Stories |-> IF t = s \/ epic[t] = "none" THEN branch[s].has[t] ELSE epic[t]]

\* catchUp merges the epic branch, as it now is, into the story branch.
CaughtUp(s) == IF Joined(s) = branch[s].has THEN branch[s] ELSE [by |-> s, has |-> Joined(s)]

CatchUp(s) ==
    /\ At(s, "starting")
    /\ branch' = [branch EXCEPT ![s] = CaughtUp(s)]
    /\ base' = [base EXCEPT ![s] = CaughtUp(s)]
    /\ Goto(s, "measuring")
    /\ UNCHANGED <<epic, file, baselines, outcome, revisions, snap, integration, history>>

\* ensureBaseline: the entry of a commit if there is one.  Or else the gates run,
\* the file is read again, and written with the new entry.
Reread(s, point, to) ==
    /\ At(s, point)
    /\ Read(s)
    /\ Goto(s, to)
    /\ UNCHANGED <<disk, outcome, revisions, base, integration, history>>

\* The story's base, before the first task: the gates run in the worktree.
Measure(s) ==
    /\ At(s, "measuring")
    /\ Goto(s, IF Stored(base[s]) THEN "coding" ELSE "gating")
    /\ UNCHANGED <<disk, outcome, revisions, base, snap, integration, history>>

Record(s, recording, to) ==
    /\ At(s, recording)
    /\ Write(s, base[s], Red(branch[s].has))
    /\ Goto(s, to)
    /\ UNCHANGED <<epic, branch, file, outcome, revisions, base, integration, runs, ungated, early>>

\* The coder's work on the story, for better or worse.
Worked(s, w) == branch' = [branch EXCEPT ![s] = [by |-> s, has |-> [@.has EXCEPT ![s] = w]]]

Code(s) ==
    /\ At(s, "coding")
    /\ \E w \in {"plain", "clashing"} : Worked(s, w)
    /\ Goto(s, "checking")
    /\ UNCHANGED <<epic, file, baselines, outcome, revisions, base, snap, integration, history>>

\* A resumed story whose tasks are complete has none left for the coder.
NothingToCode(s) ==
    /\ At(s, "coding")
    /\ branch[s].has[s] # "none"
    /\ revisions[s] = 0
    /\ Goto(s, "judged")
    /\ UNCHANGED <<disk, outcome, revisions, base, snap, integration, history>>

\* The gates of the tasks are triaged against the base.  Should its entry be gone,
\* the base is measured again, in the worktree as it now is.
Remeasure(s) ==
    /\ At(s, "checking")
    /\ ~Stored(base[s])
    /\ Goto(s, "regating")
    /\ UNCHANGED <<disk, outcome, revisions, base, snap, integration, history>>

\* A red line that is not the base's goes back to the coder, who fixes it in the
\* review rounds there are or fails the story.
Gates(s) ==
    /\ At(s, "checking")
    /\ Stored(base[s])
    /\ IF Red(branch[s].has) \subseteq Recorded(base[s])
       THEN Goto(s, "judged") /\ UNCHANGED <<branch, file, outcome>>
       ELSE \/ Worked(s, "plain") /\ Goto(s, "judged") /\ UNCHANGED <<file, outcome>>
            \/ Fail(s) /\ UNCHANGED branch
    /\ UNCHANGED <<epic, baselines, revisions, base, snap, integration, history>>

\* Setup or the coder failed, a dependency is missing, or the judge never cleared.
GiveUp(s) ==
    /\ pc[s] \in {"measuring", "coding", "judged"}
    /\ Fail(s)
    /\ UNCHANGED <<epic, branch, baselines, revisions, base, snap, integration, history>>

\* The judge cleared the story, caught up once more.  With nothing left to
\* merge it was verified in place; otherwise it queues for mergeLock.
Judged(s) ==
    /\ At(s, "judged")
    /\ branch' = [branch EXCEPT ![s] = CaughtUp(s)]
    /\ IF CaughtUp(s).has = epic
       THEN Goto(s, "merged") /\ early' = IF LockFree THEN early ELSE early \cup {s}
       ELSE Goto(s, "queued") /\ UNCHANGED early
    /\ UNCHANGED <<epic, file, baselines, outcome, revisions, base, snap, integration,
                   runs, ungated, clobbered>>

-----------------------------------------------------------------------------
(* integrate, under mergeLock.                                             *)

Merge(s) ==
    /\ At(s, "queued")
    /\ LockFree
    /\ lock' = s
    /\ checkpoint' = epic
    /\ epic' = Joined(s)
    /\ Goto(s, "merging")
    /\ UNCHANGED <<branch, file, baselines, outcome, revisions, base, snap, before, history>>

\* The epic moved since the story caught up, and git aborts the conflicting merge.
MergeConflict(s) ==
    /\ At(s, "queued")
    /\ LockFree
    /\ \E t \in Stories \ {s} : epic[t] # branch[s].has[t]
    /\ Fail(s)
    /\ UNCHANGED <<epic, branch, baselines, revisions, base, snap, integration, history>>

\* The gates ran on the merged head.  A head before it without an entry gets
\* one with nothing red.
MergedHead == EpicHead
CheckpointHead == [by |-> NoStory, has |-> checkpoint]

EpicGates(s) ==
    /\ At(s, "merging")
    /\ IF Stored(CheckpointHead)
       THEN before' = Recorded(CheckpointHead) /\ Goto(s, "triaging")
       ELSE Goto(s, "missing") /\ UNCHANGED before
    /\ UNCHANGED <<disk, outcome, revisions, base, snap, lock, checkpoint, history>>

NoteEmpty(s) ==
    /\ At(s, "noting")
    /\ Write(s, CheckpointHead, {})
    /\ before' = {}
    /\ Goto(s, "triaging")
    /\ UNCHANGED <<epic, branch, file, outcome, revisions, base, lock, checkpoint, runs, ungated, early>>

LeftUngated == ungated' = ungated \cup {t \in Stories : epic[t] # checkpoint[t]}

\* The gates could not run, or git not roll back: integrate fails, and so does its story.
IntegrateFails(s) ==
    /\ runs <= FailingRuns
    /\ pc[s] \in {"merging", "undoing"}
    /\ Unlock
    /\ Fail(s)
    /\ LeftUngated
    /\ UNCHANGED <<epic, branch, baselines, revisions, base, snap, runs, clobbered, early>>

Blocking == Red(epic) \ before

Triage(s) ==
    /\ At(s, "triaging")
    /\ IF Blocking = {} THEN Goto(s, "keeping") /\ Read(s)
       ELSE Goto(s, "undoing") /\ UNCHANGED snap
    /\ UNCHANGED <<disk, outcome, revisions, base, integration, history>>

Keep(s) ==
    /\ At(s, "keeping")
    /\ Write(s, EpicHead, Red(epic))
    /\ Unlock
    /\ Goto(s, "merged")
    /\ UNCHANGED <<epic, branch, file, outcome, revisions, base, runs, ungated, early>>

RedHeadLeft == UNCHANGED epic
Rollback == epic' = checkpoint

OneTooMany(s) == revisions[s] <= MergeRevisions
Revisable(s) == revisions[s] < MergeRevisions

\* Red: the merge is undone, and the story sent back while it has revisions left.
Undo(s) ==
    /\ At(s, "undoing")
    /\ Rollback
    /\ Unlock
    /\ IF Revisable(s)
       THEN /\ revisions' = [revisions EXCEPT ![s] = @ + 1]
            /\ Goto(s, "starting")
            /\ UNCHANGED <<file, outcome>>
       ELSE Fail(s) /\ UNCHANGED revisions
    /\ UNCHANGED <<branch, baselines, base, snap, history>>

\* runStory, after integrate: only now does the state file say merged.
SaveMerged(s) ==
    /\ At(s, "merged")
    /\ file' = [file EXCEPT ![s] = "merged"]
    /\ outcome' = [outcome EXCEPT ![s] = "done"]
    /\ Goto(s, "over")
    /\ UNCHANGED <<epic, branch, baselines, revisions, base, snap, integration, history>>

-----------------------------------------------------------------------------
\* The run ends here, wherever it is (its end, a crash, or a failure under
\* failFast, which interrupts every story), and the epic is run again.
NewRun ==
    /\ runs < MaxRuns
    /\ runs' = runs + 1
    /\ IF LockFree \/ pc[lock] = "keeping" THEN UNCHANGED ungated ELSE LeftUngated
    /\ baselines' = IF Stored(EpicHead) THEN baselines ELSE Put(baselines, EpicHead, Red(epic))
    /\ pc' = [s \in Stories |-> "idle"]
    /\ outcome' = [s \in Stories |-> "none"]
    /\ revisions' = [s \in Stories |-> 0]
    /\ snap' = [s \in Stories |-> {}]
    /\ base' = branch
    /\ Unlock
    /\ UNCHANGED <<epic, branch, file, clobbered, early>>

Step(s) ==
    \/ Start(s) \/ CatchUp(s)
    \/ Measure(s) \/ Reread(s, "gating", "recording") \/ Record(s, "recording", "coding")
    \/ Code(s) \/ NothingToCode(s)
    \/ Remeasure(s) \/ Reread(s, "regating", "rerecording") \/ Record(s, "rerecording", "judged")
    \/ Gates(s) \/ GiveUp(s) \/ Judged(s)
    \/ Merge(s) \/ MergeConflict(s) \/ EpicGates(s) \/ IntegrateFails(s)
    \/ Reread(s, "missing", "noting") \/ NoteEmpty(s)
    \/ Triage(s) \/ Keep(s) \/ Undo(s) \/ SaveMerged(s)

Next == (\E s \in Stories : Step(s)) \/ NewRun

Spec == Init /\ [][Next]_vars
FairSpec == Spec /\ \A s \in Stories : WF_vars(Step(s))

-----------------------------------------------------------------------------
Points == {"idle", "starting", "measuring", "gating", "recording", "coding",
           "checking", "regating", "rerecording", "judged",
           "queued", "merging", "missing", "noting", "triaging",
           "keeping", "undoing", "merged", "over"}

\* Every variable keeps its type: baselines name commits and gate lines.
TypeOK ==
    /\ epic \in Content /\ checkpoint \in Content
    /\ branch \in [Stories -> Commits] /\ base \in [Stories -> Commits]
    /\ file \in [Stories -> {"none", "started", "failed", "merged"}]
    /\ baselines \subseteq Entries
    /\ pc \in [Stories -> Points]
    /\ outcome \in [Stories -> {"none", "done", "failed"}]
    /\ revisions \in [Stories -> 0..MergeRevisions]
    /\ snap \in [Stories -> SUBSET Entries]
    /\ lock \in Stories \cup {NoStory} /\ before \subseteq Lines
    /\ runs \in 1..MaxRuns /\ ungated \subseteq Stories /\ clobbered \in BOOLEAN
    /\ early \subseteq Stories

Done(s) == file[s] = "merged" \/ outcome[s] = "done"

\* What is done, in this run or an earlier one, is on the epic branch: a story that was
\* not found in place on a head that could still be undone, for such a story can lose
\* the only copy of its work.  The state file says done only some steps after the merge.
MergedIsOnEpic == \A s \in Stories \ early : Done(s) => epic[s] # "none"

\* Such a story stays on the epic branch as it was merged, whatever other
\* stories merge or undo after it, over any number of runs.
MergesSurvive == [][\A s \in Stories \ early : file[s] = "merged" => epic'[s] = epic[s]]_vars

\* integrate: a red epic head is never left for the next story to inherit, as
\* long as the gates of every merge got to decide and every rollback worked.
HeadStaysGreen == LockFree /\ ungated = {} => ~Clashing(epic)

\* The epic head is red between merges only if some merge was left neither found
\* green nor undone, or the baselines file lost an entry.
RedOnlyAfterTrouble == LockFree /\ ~clobbered /\ Clashing(epic) => ungated # {}

\* A story is sent back for exactly what its merge broke, never for what was
\* red before it, as long as every merge was found green or undone and
\* the baselines file lost no entry: otherwise a head is left without one.
ChargedForAdded ==
    ungated = {} /\ ~clobbered => \A s \in Stories :
        pc[s] = "undoing" => Blocking = Red(epic) \ Red(checkpoint)

\* Every story of the last run is done or failed, or waits for one that
\* is not done: nobody waits for the merge lock or for itself for ever.
EveryStorySettles ==
    <>[](\A s \in Stories : outcome[s] # "none" \/ \E d \in DependsOn[s] : outcome[d] # "done")
=============================================================================
