---------------------------- MODULE StoryReview ----------------------------
(***************************************************************************)
(* The review of one story over the runs of its epic: the story review of  *)
(* implementStory (packages/flow/src/Stories.ts), the review loop it runs  *)
(* (Review.ts) with its memory (Recheck.ts), and prepareWorktree before it.*)
(*                                                                         *)
(* A run may be cut off between any two steps.  What survives is on disk:  *)
(* the story's state, its branch, the checkpoint of its tasks and the      *)
(* memory of its reviewers.  The plan's entry may be edited between runs.  *)
(***************************************************************************)
EXTENDS Naturals

CONSTANTS
    Files,
    Diffs,           \* what the branch may change: functions from Files to versions
    Absent,          \* the version of a file that the branch does not change
    Lenses, Sees,    \* the files each lens is for
    Judge,
    MaxRounds,       \* --review-rounds
    MergeRevisions,  \* --merge-revisions
    MaxRuns,         \* bound: runs of the story
    MaxEdits         \* bound: edits of its entry

Reviewers == Lenses \cup {Judge}
Present(diff) == {f \in Files : diff[f] # Absent}

ASSUME ReviewAssumption ==
    /\ Judge \notin Lenses
    /\ Sees \in [Lenses -> SUBSET Files]
    /\ \A d \in Diffs : DOMAIN d = Files /\ Present(d) # {}
    /\ Diffs # {}
    /\ MaxRounds \in Nat \ {0}
    /\ MergeRevisions \in Nat /\ MaxRuns \in Nat \ {0} /\ MaxEdits \in Nat

VARIABLES
    entry,     \* the plan's entry of the story, as the user last wrote it
    stored,    \* the story's state file: its status, and the entry it is of
    branch,    \* whether the story's branch exists
    tasks,     \* the checkpoint of its tasks: open or done
    memo,      \* the reviewers' memory; its copy in the loop is written along with it
    code,      \* the diff of the branch
    deferring, \* --defer-findings
    pc, runs,
    round,     \* the round under way, or the one after the fix under way
    answers,   \* what the reviewers of the round said
    missing,   \* the judge's last verdict in this run scores a piece as missing
    revisions, \* merge revisions of this run; the failures of the merge are not saved
    verdict,   \* history: the judge's last answer since tasks last wrote code
    shown,     \* history: the files each lens was shown since the story's work began anew
    outlived   \* history: the memory is of a branch that is no more

disk == <<entry, stored, branch, tasks, memo, code>>
run == <<round, answers, missing, revisions>>
history == <<verdict, shown, outlived>>
vars == <<disk, deferring, pc, runs, run, history>>

Answers == {"not asked", "clean", "minor", "blocking"}
Silence == [r \in Reviewers |-> "not asked"]
NoMemo == [round |-> 0, diff |-> [f \in Files |-> Absent], fixed |-> FALSE,
           said |-> [r \in Reviewers |-> "not asked"], seen |-> [r \in Reviewers |-> {}]]
NothingShown == [l \in Lenses |-> {}]
Unwritten == [f \in Files |-> Absent]

Init ==
    /\ entry = 1 /\ stored = [status |-> "none", entry |-> 1]
    /\ branch = FALSE /\ tasks = "open" /\ memo = NoMemo /\ code = Unwritten
    /\ deferring \in BOOLEAN
    /\ pc = "out" /\ runs = 0
    /\ round = 0 /\ answers = Silence /\ missing = FALSE /\ revisions = 0
    /\ verdict = "none" /\ shown = NothingShown /\ outlived = FALSE

\* The round after: the last one may be taken up again after a restart.
OneMore(n) == n + 1
RoundAfter(n) == IF n < MaxRounds THEN n + 1 ELSE n
SameRound == round
NextRound == RoundAfter(round)
Goto(from, to) == pc = from /\ pc' = to

-----------------------------------------------------------------------------
(* runStory and prepareWorktree.                                            *)

Resting == pc \in {"out", "failed", "done"}

Begin ==
    /\ Resting /\ runs < MaxRuns
    /\ pc' = "preparing" /\ runs' = runs + 1
    /\ round' = 0 /\ answers' = Silence /\ missing' = FALSE /\ revisions' = 0
    /\ UNCHANGED <<disk, deferring, history>>

Edit ==
    /\ Resting /\ runs < MaxRuns /\ entry <= MaxEdits
    /\ entry' = entry + 1
    /\ UNCHANGED <<stored, branch, tasks, memo, code, deferring, pc, runs, run, history>>

Changed == stored.status # "none" /\ stored.entry # entry

Prepare ==
    /\ pc = "preparing"
    /\ \/ Changed /\ pc' = "clearing" /\ branch' = FALSE /\ code' = Unwritten
       \/ /\ ~Changed
          /\ \/ stored.status = "merged" /\ pc' = "done"
             \/ stored.status = "started" /\ pc' = "working"
             \/ stored.status = "none" /\ pc' = "branching"
          /\ UNCHANGED <<branch, code>>
    /\ UNCHANGED <<entry, stored, tasks, memo, deferring, runs, run, history>>

\* The files of the old branch that go with it; the memory of its review stays.
ClearOld ==
    /\ Goto("clearing", "branching")
    /\ tasks' = "open"
    /\ UNCHANGED <<entry, stored, branch, memo, code, deferring, runs, run, history>>

\* Git makes no branch that exists.
MakeBranch ==
    /\ Goto("branching", IF branch THEN "failing" ELSE "starting")
    /\ branch' = TRUE
    /\ IF branch THEN UNCHANGED history
       ELSE verdict' = "none" /\ shown' = NothingShown /\ outlived' = (memo.round # 0)
    /\ UNCHANGED <<entry, stored, tasks, memo, code, deferring, runs, run>>

SaveStarted ==
    /\ Goto("starting", "working")
    /\ stored' = [status |-> "started", entry |-> entry]
    /\ UNCHANGED <<entry, branch, tasks, memo, code, deferring, runs, run, history>>

-----------------------------------------------------------------------------
(* implementStory up to its review.                                         *)

Forgets == memo' = NoMemo /\ outlived' = FALSE
KeepsMemory == UNCHANGED <<memo, outlived>>
ForgetsReview == IF revisions = 0 THEN KeepsMemory ELSE Forgets

\* catchUp.  After a merge that was undone, the memory is removed first.
Work ==
    /\ Goto("working", IF revisions = 0 THEN "coding" ELSE "revising")
    /\ ForgetsReview
    /\ UNCHANGED <<entry, stored, branch, tasks, code, deferring, runs, run, verdict, shown>>

\* appendRevision: the story's work begins anew.
Revise ==
    /\ Goto("revising", "coding")
    /\ tasks' = "open"
    /\ shown' = NothingShown
    /\ UNCHANGED <<entry, stored, branch, memo, code, deferring, runs, run, verdict, outlived>>

\* implementTasks, and catchUp: the epic may have moved though every task is done.
Code ==
    /\ Goto("coding", "loading")
    /\ code' \in Diffs
    /\ tasks' = "done"
    /\ verdict' = IF tasks = "open" THEN "none" ELSE verdict
    /\ UNCHANGED <<entry, stored, branch, memo, deferring, runs, run, shown, outlived>>

-----------------------------------------------------------------------------
(* reviewAndFixLoop with the memory of the story review.                    *)

Dirty(m) == {r \in Reviewers : m.said[r] \in {"minor", "blocking"}}
Blocking(m) == {r \in Reviewers : m.said[r] = "blocking"}

\* A restart takes up the round after the last one answered, once that one's fix is in.
FixLost == FALSE
FixOwed == ~memo.fixed /\ Dirty(memo) # {}

Load ==
    /\ Goto("loading", IF FixOwed THEN "fixing" ELSE "gating")
    /\ round' = RoundAfter(memo.round)
    /\ answers' = Silence /\ missing' = FALSE
    /\ UNCHANGED <<disk, deferring, runs, revisions, history>>

\* The gates are red: nobody is asked, and the memory stays as it is.
RedGates ==
    /\ Goto("gating", IF round >= MaxRounds THEN "failing" ELSE "fixing")
    /\ round' = NextRound
    /\ UNCHANGED <<disk, deferring, runs, answers, missing, revisions, history>>

Touched == IF memo.round = 0 THEN {} ELSE {f \in Files : memo.diff[f] # code[f]}
IsFor(r, files) == IF r = Judge THEN TRUE ELSE files \cap Sees[r] # {}

\* planRound.
FirstTime(r) == memo.said[r] = "not asked" /\ IsFor(r, Present(code))
Recheck(r) == r \in Dirty(memo)
NewFiles(r) == r # Judge /\ memo.said[r] = "clean" /\ IsFor(r, Touched \ memo.seen[r])
OnlyDirty == {r \in Reviewers : FirstTime(r) \/ Recheck(r)}
Asked == {r \in Reviewers : FirstTime(r) \/ Recheck(r) \/ NewFiles(r)}

\* The judge scores whether a piece is missing beside what it finds, and its
\* finding on a missing piece blocks: judgeSeverity.
MayMiss(answer) == IF answer = "blocking" THEN BOOLEAN ELSE {FALSE}

Review ==
    /\ Goto("gating", "answered")
    /\ answers' \in {a \in [Reviewers -> Answers] :
                        \A r \in Reviewers : a[r] = "not asked" <=> r \notin Asked}
    /\ IF Judge \in Asked
       THEN verdict' = answers'[Judge] /\ missing' \in MayMiss(answers'[Judge])
       ELSE UNCHANGED <<verdict, missing>>
    /\ shown' = [l \in Lenses |-> shown[l] \cup IF l \in Asked THEN Present(code) ELSE {}]
    /\ UNCHANGED <<disk, deferring, runs, round, revisions, outlived>>

\* remember: who ran takes this round's answer, everyone else keeps theirs.
Remembered ==
    [round |-> round, diff |-> code, fixed |-> FALSE,
     said |-> [r \in Reviewers |-> IF answers[r] = "not asked" THEN memo.said[r] ELSE answers[r]],
     seen |-> [r \in Reviewers |-> memo.seen[r] \cup IF answers[r] = "not asked" THEN {}
                                                     ELSE Present(code)]]
Settled(m) == Dirty(m) = {} \/ round >= MaxRounds \/ (deferring /\ Blocking(m) = {})
NotCleared(m) == Judge \in (IF deferring THEN Blocking(m) ELSE Dirty(m))

Remember ==
    LET m == Remembered
    IN  /\ pc = "answered"
        /\ \/ ~Settled(m) /\ pc' = "fixing"
           \/ Settled(m) /\ NotCleared(m) /\ pc' = "failing"
           \/ Settled(m) /\ ~NotCleared(m) /\ pc' = "merging"
        /\ memo' = m
        /\ round' = IF Settled(m) THEN round ELSE NextRound
        /\ answers' = Silence
        /\ UNCHANGED <<entry, stored, branch, tasks, code, deferring, runs, missing, revisions,
                       history>>

\* fixWith: a fix turn, or a revision task when a piece is missing.
Fix ==
    /\ ~missing
    /\ Goto("fixing", "fixed")
    /\ code' \in Diffs
    /\ UNCHANGED <<entry, stored, branch, tasks, memo, deferring, runs, run, history>>

AddRevision ==
    /\ missing
    /\ Goto("fixing", "adding")
    /\ missing' = FALSE
    /\ tasks' = "open"
    /\ UNCHANGED <<entry, stored, branch, memo, code, deferring, runs, round, answers, revisions,
                   history>>

Add ==
    /\ Goto("adding", "fixed")
    /\ code' \in Diffs
    /\ tasks' = "done"
    /\ verdict' = "none"
    /\ UNCHANGED <<entry, stored, branch, memo, deferring, runs, run, shown, outlived>>

\* applyFix: with a memory, that the fix landed is saved.
Landed ==
    /\ Goto("fixed", "gating")
    /\ memo' = IF memo.round = 0 THEN memo ELSE [memo EXCEPT !.fixed = TRUE]
    /\ UNCHANGED <<entry, stored, branch, tasks, code, deferring, runs, run, history>>

-----------------------------------------------------------------------------
(* What becomes of the story.                                               *)

\* integrate keeps the merge or undoes it.
Integrate ==
    /\ pc = "merging"
    /\ \/ pc' = "merged" /\ stored' = [stored EXCEPT !.status = "merged"] /\ UNCHANGED revisions
       \/ /\ pc' = IF revisions < MergeRevisions THEN "working" ELSE "failing"
          /\ revisions' = revisions + 1
          /\ UNCHANGED stored
    /\ UNCHANGED <<entry, branch, tasks, memo, code, deferring, runs, round, answers, missing,
                   history>>

Merged ==
    /\ Goto("merged", "done")
    /\ Forgets
    /\ UNCHANGED <<entry, stored, branch, tasks, code, deferring, runs, run, verdict, shown>>

\* Anything a step awaits may fail, and the story with it.
Fails ==
    /\ ~Resting /\ pc # "failing"
    /\ pc' = "failing"
    /\ UNCHANGED <<disk, deferring, runs, run, history>>

\* A story that failed starts its review over next time, if its memory can be removed.
Failed ==
    /\ Goto("failing", "failed")
    /\ Forgets \/ KeepsMemory
    /\ UNCHANGED <<entry, stored, branch, tasks, code, deferring, runs, run, verdict, shown>>

\* A crash or an interruption.
CutOff ==
    /\ ~Resting
    /\ pc' = "out"
    /\ UNCHANGED <<disk, deferring, runs, run, history>>

Step ==
    \/ Prepare \/ ClearOld \/ MakeBranch \/ SaveStarted
    \/ Work \/ Revise \/ Code
    \/ Load \/ RedGates \/ Review \/ Remember \/ Fix \/ AddRevision \/ Add \/ Landed
    \/ Integrate \/ Merged \/ Failed

Next == Begin \/ Edit \/ Step \/ Fails \/ CutOff

Spec == Init /\ [][Next]_vars

\* What a step awaits comes to an end.
FairSpec == Spec /\ WF_vars(Step)

-----------------------------------------------------------------------------
Points == {"out", "preparing", "clearing", "branching", "starting", "working", "revising",
           "coding", "loading", "gating", "answered", "fixing", "adding", "fixed", "merging",
           "merged", "failing", "failed", "done"}

\* Every variable keeps its type; the rounds stay within their limit.
TypeOK ==
    /\ entry \in 1..(MaxEdits + 1)
    /\ stored \in [status : {"none", "started", "merged"}, entry : 1..(MaxEdits + 1)]
    /\ branch \in BOOLEAN /\ tasks \in {"open", "done"} /\ code \in Diffs \cup {Unwritten}
    /\ memo \in [round : 0..MaxRounds, diff : Diffs \cup {Unwritten}, fixed : BOOLEAN,
                  said : [Reviewers -> Answers], seen : [Reviewers -> SUBSET Files]]
    /\ deferring \in BOOLEAN /\ pc \in Points /\ runs \in 0..MaxRuns
    /\ round \in 0..MaxRounds /\ answers \in [Reviewers -> Answers]
    /\ missing \in BOOLEAN /\ revisions \in 0..(MergeRevisions + 1)
    /\ verdict \in Answers \cup {"none"} /\ shown \in [Lenses -> SUBSET Files]
    /\ outlived \in BOOLEAN

Cleared == IF deferring THEN {"clean", "minor"} ELSE {"clean"}

\* What the tasks wrote is merged only when the judge, asked since they wrote it, cleared
\* it: though runs are cut off, fixes replace a re-check and a merge is undone.
\* Not so on the memory of an earlier branch.
MergedIsJudged == pc = "merging" /\ ~outlived => verdict \in Cleared

\* Of what is merged, each lens was shown every file it is for, whoever was asked in
\* which round and however often the loop was taken up again.
NothingUnseen ==
    pc = "merging" /\ ~outlived =>
        \A l \in Lenses : Present(code) \cap Sees[l] \subseteq shown[l]

\* A reviewer is asked about its findings again only after a fix for them landed,
\* also when the run that found them did not live to fix them.
RecheckFollowsFix == pc = "gating" /\ Dirty(memo) # {} => memo.fixed

\* Every run of the story ends: the loop gives up after its rounds.
StoryEnds == <>[]Resting

\* Stories.ts:1988: when the tasks run again, what the review remembered no longer holds.
JudgedBeforeMerge == pc = "merging" => verdict \in Cleared
=============================================================================
