------------------------- MODULE StoryReviewProofs -------------------------
(***************************************************************************)
(* Proofs about StoryReview, for any files, lenses and rounds, any number  *)
(* of runs cut off anywhere and any number of edits of the plan's entry:   *)
(* what is merged was judged and seen, and no re-check precedes its fix.   *)
(***************************************************************************)
EXTENDS StoryReview, TLAPS

Reviewing == {"loading", "gating", "answered", "fixing", "adding", "fixed"}
OnBranch == {"starting", "working", "revising", "coding", "merging", "merged"} \cup Reviewing

\* A round is under way from the loading on, the memory of no round is empty,
\* and a story goes back for another merge only while a revision is left.
Counted ==
    /\ pc \in Reviewing \ {"loading"} => round >= 1
    /\ memo.round = 0 => memo = NoMemo
    /\ pc = "revising" => memo = NoMemo
    /\ ~Resting /\ pc # "failing" => revisions <= MergeRevisions

\* The branch is there when the story is worked on, and when its state says so.
BranchThere ==
    /\ pc \in OnBranch => branch
    /\ pc = "clearing" => ~branch
    /\ stored.entry <= entry
    /\ stored.status = "started" /\ stored.entry = entry => branch

\* A piece is missing where the judge has just said so, and it is asked for once.
MissingSaid ==
    /\ pc \in {"gating", "adding", "fixed"} => ~missing
    /\ pc = "answered" /\ missing => answers[Judge] = "blocking"
    /\ pc = "fixing" /\ missing => memo.said[Judge] = "blocking"

\* The tasks of the story are done while it is reviewed, but for a piece being added.
TasksDone == pc \in Reviewing => (tasks = "done" <=> pc # "adding")

\* The answers of a round are those of the reviewers planRound named.
AnswersAsked ==
    pc = "answered" =>
        /\ \A r \in Reviewers : answers[r] = "not asked" <=> r \notin Asked
        /\ Judge \in Asked => verdict = answers[Judge]
        /\ \A l \in Lenses : l \in Asked => Present(code) \subseteq shown[l]

Fresh == branch /\ ~outlived

\* A judge remembered as clean said so of what the tasks wrote last.
JudgeClean == Fresh /\ memo.said[Judge] = "clean" => verdict = "clean" /\ tasks = "done"

\* What the memory calls seen was shown, and of the diff it is of, every lens
\* was shown all it is for.
MemoryShown ==
    Fresh => \A l \in Lenses : /\ memo.seen[l] \subseteq shown[l]
                               /\ Present(memo.diff) \cap Sees[l] \subseteq shown[l]

\* The inductive invariant.
Reviewed ==
    /\ TypeOK /\ Counted /\ BranchThere /\ MissingSaid /\ TasksDone
    /\ AnswersAsked /\ JudgeClean /\ MemoryShown
    /\ MergedIsJudged /\ NothingUnseen /\ RecheckFollowsFix

Memories ==
    [round : 0..MaxRounds, diff : Diffs \cup {Unwritten}, fixed : BOOLEAN,
     said : [Reviewers -> Answers], seen : [Reviewers -> SUBSET Files]]

\* What the assumptions on the constants give the proofs below.
LEMMA ConstantTypes ==
  /\ Judge \in Reviewers /\ Lenses \subseteq Reviewers /\ Judge \notin Lenses
  /\ MaxRounds \in Nat \ {0} /\ MergeRevisions \in Nat /\ MaxRuns \in Nat \ {0} /\ MaxEdits \in Nat
BY ReviewAssumption DEF Reviewers

\* The empty memory: nobody was asked, and nothing was seen.
LEMMA NoMemoType ==
  /\ NoMemo \in Memories /\ NoMemo.round = 0 /\ ~NoMemo.fixed
  /\ Present(NoMemo.diff) = {}
  /\ \A r \in Reviewers : NoMemo.seen[r] = {} /\ NoMemo.said[r] = "not asked"
<1>1. NoMemo.diff = Unwritten /\ NoMemo.round = 0 /\ NoMemo.fixed = FALSE
  BY DEF NoMemo, Unwritten
<1>2. NoMemo.said = [r \in Reviewers |-> "not asked"] /\ NoMemo.seen = [r \in Reviewers |-> {}]
  BY DEF NoMemo
<1>3. NoMemo.said \in [Reviewers -> Answers] /\ NoMemo.seen \in [Reviewers -> SUBSET Files]
  BY <1>2 DEF Answers
<1>4. NoMemo \in Memories
  <2>1. ASSUME NEW said \in [Reviewers -> Answers], NEW seen \in [Reviewers -> SUBSET Files]
        PROVE  [round |-> 0, diff |-> Unwritten, fixed |-> FALSE, said |-> said, seen |-> seen]
                   \in Memories
    BY ConstantTypes DEF Memories
  <2>2. [r \in Reviewers |-> "not asked"] \in [Reviewers -> Answers]
        /\ [r \in Reviewers |-> {}] \in [Reviewers -> SUBSET Files]
    BY <1>2, <1>3
  <2>. QED
    BY <2>1, <2>2 DEF NoMemo, Unwritten
<1>5. Present(NoMemo.diff) = {}
  BY <1>1 DEF Present, Unwritten
<1>. QED
  BY <1>1, <1>2, <1>4, <1>5

\* The round after stays within the limit.
LEMMA NextRoundType ==
  ASSUME NEW n \in 0..MaxRounds
  PROVE  RoundAfter(n) \in 1..MaxRounds
BY ConstantTypes DEF RoundAfter

\* A story starts with its state well typed.
LEMMA TypeInit == Init => TypeOK
<1> SUFFICES ASSUME Init
             PROVE  TypeOK
  OBVIOUS
<1>1. memo \in Memories
  BY NoMemoType DEF Init
<1>2. answers \in [Reviewers -> Answers] /\ shown \in [Lenses -> SUBSET Files]
  BY DEF Init, Silence, NothingShown, Answers
<1>3. stored \in [status : {"none", "started", "merged"}, entry : 1..(MaxEdits + 1)]
  BY ConstantTypes DEF Init
<1>4. entry \in 1..(MaxEdits + 1) /\ runs \in 0..MaxRuns /\ round \in 0..MaxRounds
      /\ revisions \in 0..(MergeRevisions + 1)
  BY ConstantTypes DEF Init
<1>5. branch \in BOOLEAN /\ tasks \in {"open", "done"} /\ code \in Diffs \cup {Unwritten}
      /\ deferring \in BOOLEAN /\ pc \in Points /\ missing \in BOOLEAN
      /\ verdict \in Answers \cup {"none"} /\ outlived \in BOOLEAN
  BY DEF Init, Points
<1>. QED
  BY <1>1, <1>2, <1>3, <1>4, <1>5 DEF TypeOK, Memories

\* What a memory becomes after a round is a memory, and it has a round.
LEMMA RememberedType ==
  ASSUME TypeOK
  PROVE  Remembered \in Memories
<1>1. [r \in Reviewers |-> IF answers[r] = "not asked" THEN memo.said[r] ELSE answers[r]]
          \in [Reviewers -> Answers]
  BY DEF TypeOK, Answers
<1>2. [r \in Reviewers |-> memo.seen[r] \cup IF answers[r] = "not asked" THEN {}
                                            ELSE Present(code)]
          \in [Reviewers -> SUBSET Files]
  BY DEF TypeOK, Present
<1>3. round \in 0..MaxRounds /\ code \in Diffs \cup {Unwritten}
  BY DEF TypeOK
<1>. QED
  BY <1>1, <1>2, <1>3 DEF Remembered, Memories

\* The memory is emptied, or becomes that of a round, or notes that a fix landed.
LEMMA MemoryTypeStep ==
  ASSUME TypeOK, [Next]_vars
  PROVE  memo' \in Memories
<1>1. memo \in Memories /\ [memo EXCEPT !.fixed = TRUE] \in Memories
  BY DEF TypeOK, Memories
<1>2. memo' \in {memo, NoMemo, Remembered, [memo EXCEPT !.fixed = TRUE]}
  BY DEF Next, Step, Begin, Edit, Prepare, ClearOld, MakeBranch, SaveStarted, Work, Revise, Code,
         Load, RedGates, Review, Remember, Fix, AddRevision, Add, Landed, Integrate, Merged,
         Failed, Fails, CutOff, ForgetsReview, KeepsMemory, Forgets, vars, disk
<1>. QED
  BY <1>1, <1>2, NoMemoType, RememberedType

\* The point, the round and what the round's reviewers said keep their types.
LEMMA RoundTypeStep ==
  ASSUME TypeOK, [Next]_vars
  PROVE  /\ pc' \in Points /\ round' \in 0..MaxRounds
         /\ answers' \in [Reviewers -> Answers] /\ missing' \in BOOLEAN
         /\ verdict' \in Answers \cup {"none"} /\ shown' \in [Lenses -> SUBSET Files]
<1>1. pc' \in Points
  BY DEF TypeOK, Points, Next, Step, Begin, Edit, Prepare, ClearOld, MakeBranch, SaveStarted, Work,
         Revise, Code, Load, RedGates, Review, Remember, Fix, AddRevision, Add, Landed, Integrate,
         Merged, Failed, Fails, CutOff, Goto, vars
<1>2. round' \in 0..MaxRounds
  <2>1. round' \in {round, 0, RoundAfter(round), RoundAfter(memo.round)}
    BY DEF Next, Step, Begin, Edit, Prepare, ClearOld, MakeBranch, SaveStarted, Work, Revise, Code,
           Load, RedGates, Review, Remember, Fix, AddRevision, Add, Landed, Integrate, Merged,
           Failed, Fails, CutOff, NextRound, vars, run
  <2>2. round \in 0..MaxRounds /\ memo.round \in 0..MaxRounds /\ 0 \in 0..MaxRounds
    BY ConstantTypes DEF TypeOK
  <2>3. RoundAfter(round) \in 1..MaxRounds /\ RoundAfter(memo.round) \in 1..MaxRounds
    BY <2>2, NextRoundType
  <2>. QED
    BY <2>1, <2>2, <2>3
<1>3. CASE Review
  <2>1. answers' \in [Reviewers -> Answers]
    BY <1>3 DEF Review
  <2>2. missing' \in BOOLEAN /\ verdict' \in Answers \cup {"none"}
    <3>1. CASE Judge \in Asked
      <4>1. verdict' = answers'[Judge] /\ missing' \in MayMiss(answers'[Judge])
        BY <1>3, <3>1 DEF Review
      <4>2. answers'[Judge] \in Answers
        BY <2>1, ConstantTypes
      <4>. QED
        BY <4>1, <4>2 DEF MayMiss
    <3>2. CASE Judge \notin Asked
      BY <1>3, <3>2 DEF Review, TypeOK
    <3>. QED
      BY <3>1, <3>2
  <2>3. shown' \in [Lenses -> SUBSET Files]
    BY <1>3 DEF Review, TypeOK, Present
  <2>. QED
    BY <1>1, <1>2, <2>1, <2>2, <2>3
<1>4. CASE ~Review
  <2>1. answers' \in {answers, Silence} /\ missing' \in {missing, FALSE}
        /\ verdict' \in {verdict, "none"} /\ shown' \in {shown, NothingShown}
    BY <1>4 DEF Next, Step, Begin, Edit, Prepare, ClearOld, MakeBranch, SaveStarted, Work, Revise,
           Code, Load, RedGates, Remember, Fix, AddRevision, Add, Landed, Integrate, Merged,
           Failed, Fails, CutOff, vars, run, history
  <2>2. Silence \in [Reviewers -> Answers] /\ NothingShown \in [Lenses -> SUBSET Files]
    BY DEF Silence, NothingShown, Answers
  <2>. QED
    BY <1>1, <1>2, <2>1, <2>2 DEF TypeOK
<1>. QED
  BY <1>3, <1>4

\* The story's state, its branch and its revisions keep their types.
LEMMA StoryTypeStep ==
  ASSUME TypeOK, Counted, [Next]_vars
  PROVE  /\ entry' \in 1..(MaxEdits + 1) /\ runs' \in 0..MaxRuns
         /\ revisions' \in 0..(MergeRevisions + 1)
         /\ stored' \in [status : {"none", "started", "merged"}, entry : 1..(MaxEdits + 1)]
         /\ branch' \in BOOLEAN /\ tasks' \in {"open", "done"}
         /\ code' \in Diffs \cup {Unwritten}
         /\ deferring' \in BOOLEAN /\ outlived' \in BOOLEAN
<1>1. entry' \in 1..(MaxEdits + 1) /\ runs' \in 0..MaxRuns
  <2>1. entry' = entry \/ (entry' = entry + 1 /\ entry <= MaxEdits)
    BY DEF Next, Step, Begin, Edit, Prepare, ClearOld, MakeBranch, SaveStarted, Work, Revise, Code,
           Load, RedGates, Review, Remember, Fix, AddRevision, Add, Landed, Integrate, Merged,
           Failed, Fails, CutOff, vars, disk
  <2>2. runs' = runs \/ (runs' = runs + 1 /\ runs < MaxRuns)
    BY DEF Next, Step, Begin, Edit, Prepare, ClearOld, MakeBranch, SaveStarted, Work, Revise, Code,
           Load, RedGates, Review, Remember, Fix, AddRevision, Add, Landed, Integrate, Merged,
           Failed, Fails, CutOff, vars
  <2>. QED
    BY <2>1, <2>2, ConstantTypes DEF TypeOK
<1>2. revisions' \in 0..(MergeRevisions + 1)
  <2>1. \/ revisions' \in {revisions, 0}
        \/ pc = "merging" /\ revisions' = revisions + 1
    BY DEF Next, Step, Begin, Edit, Prepare, ClearOld, MakeBranch, SaveStarted, Work, Revise, Code,
           Load, RedGates, Review, Remember, Fix, AddRevision, Add, Landed, Integrate, Merged,
           Failed, Fails, CutOff, vars, run
  <2>2. pc = "merging" => revisions <= MergeRevisions
    BY DEF Counted, Resting
  <2>. QED
    BY <2>1, <2>2, ConstantTypes DEF TypeOK
<1>3. stored' \in [status : {"none", "started", "merged"}, entry : 1..(MaxEdits + 1)]
  <2>1. stored' \in {stored, [stored EXCEPT !.status = "merged"],
                    [status |-> "started", entry |-> entry]}
    BY DEF Next, Step, Begin, Edit, Prepare, ClearOld, MakeBranch, SaveStarted, Work, Revise, Code,
           Load, RedGates, Review, Remember, Fix, AddRevision, Add, Landed, Integrate, Merged,
           Failed, Fails, CutOff, vars, disk
  <2>. QED
    BY <2>1 DEF TypeOK
<1>4. branch' \in BOOLEAN /\ tasks' \in {"open", "done"} /\ code' \in Diffs \cup {Unwritten}
  BY DEF TypeOK, Next, Step, Begin, Edit, Prepare, ClearOld, MakeBranch, SaveStarted, Work, Revise,
         Code, Load, RedGates, Review, Remember, Fix, AddRevision, Add, Landed, Integrate, Merged,
         Failed, Fails, CutOff, vars, disk
<1>5. deferring' \in BOOLEAN /\ outlived' \in BOOLEAN
  BY DEF TypeOK, Next, Step, Begin, Edit, Prepare, ClearOld, MakeBranch, SaveStarted, Work, Revise,
         Code, Load, RedGates, Review, Remember, Fix, AddRevision, Add, Landed, Integrate, Merged,
         Failed, Fails, CutOff, ForgetsReview, KeepsMemory, Forgets, vars, history
<1>. QED
  BY <1>1, <1>2, <1>3, <1>4, <1>5

\* Every step keeps the types.
LEMMA TypeStep ==
  ASSUME TypeOK, Counted, [Next]_vars
  PROVE  TypeOK'
BY MemoryTypeStep, RoundTypeStep, StoryTypeStep DEF TypeOK, Memories

\* Rounds count from one, an empty memory stays empty, and the memory is gone before a revision
\* is opened.
LEMMA CountedStep ==
  ASSUME TypeOK, Counted, [Next]_vars
  PROVE  Counted'
<1>1. pc' \in Reviewing \ {"loading"} => round' >= 1
  <2>1. RoundAfter(round) >= 1 /\ RoundAfter(memo.round) >= 1
    BY NextRoundType DEF TypeOK, Memories
  <2>2. pc \in Reviewing \ {"loading"} => round >= 1
    BY DEF Counted
  <2>3. \/ round' = RoundAfter(round) \/ round' = RoundAfter(memo.round)
        \/ round' = round /\ (pc' \in Reviewing \ {"loading"} => pc \in Reviewing \ {"loading"})
        \/ pc' = "preparing"
    BY DEF Reviewing, Next, Step, Begin, Edit, Prepare, ClearOld, MakeBranch,
       SaveStarted, Work, Revise, Code, Load, RedGates, Review, Remember, Fix, AddRevision, Add,
       Landed, Integrate, Merged, Failed, Fails, CutOff, Goto, NextRound, vars, run
  <2>. QED
    BY <2>1, <2>2, <2>3 DEF Reviewing
<1>2. memo'.round = 0 => memo' = NoMemo
  <2>0. memo.round = 0 => memo = NoMemo
    BY DEF Counted
  <2>1. CASE Remember
    <3>1. Remembered.round = round
      BY DEF Remembered
    <3>2. round >= 1
      BY <2>1 DEF Counted, Remember, Goto, Reviewing
    <3>. QED
      BY <2>1, <3>1, <3>2 DEF Remember, TypeOK
  <2>2. CASE Landed
    <3>1. memo' = memo \/ (memo.round # 0 /\ memo'.round = memo.round)
      BY <2>2 DEF Landed, TypeOK
    <3>. QED
      BY <3>1, <2>0
  <2>3. CASE ~Remember /\ ~Landed
    <3>1. memo' \in {memo, NoMemo}
      BY <2>3 DEF Next, Step, Begin, Edit, Prepare, ClearOld, MakeBranch, SaveStarted, Work,
         Revise, Code, Load, RedGates, Review, Fix, AddRevision, Add, Integrate, Merged, Failed,
         Fails, CutOff, ForgetsReview, KeepsMemory, Forgets, vars, disk
    <3>. QED
      BY <3>1, <2>0
  <2>. QED
    BY <2>1, <2>2, <2>3
<1>3. pc' = "revising" => memo' = NoMemo
  <2>1. \/ pc' # "revising"
        \/ memo' = NoMemo
        \/ pc = "revising" /\ memo' = memo
    BY DEF Next, Step, Begin, Edit, Prepare, ClearOld, MakeBranch, SaveStarted, Work,
     Revise, Code, Load, RedGates, Review, Remember, Fix, AddRevision, Add, Landed, Integrate,
     Merged, Failed, Fails, CutOff, Goto, ForgetsReview, KeepsMemory, Forgets, vars, disk
  <2>. QED
    BY <2>1 DEF Counted
<1>4. (~Resting)' /\ pc' # "failing" => revisions' <= MergeRevisions
  <2>1. \/ pc' \in {"out", "failed", "done", "failing"} \/ revisions' = 0
        \/ revisions' = revisions /\ pc \notin {"out", "failed", "done", "failing"}
        \/ revisions' = revisions + 1 /\ revisions < MergeRevisions
        \/ revisions' = revisions /\ pc' = pc
    BY DEF Resting, Next, Step, Begin, Edit, Prepare, ClearOld,
       MakeBranch, SaveStarted, Work, Revise, Code, Load, RedGates, Review, Remember, Fix,
       AddRevision, Add, Landed, Integrate, Merged, Failed, Fails, CutOff, Goto, vars, run
  <2>2. pc \notin {"out", "failed", "done", "failing"} => revisions <= MergeRevisions
    BY DEF Counted, Resting
  <2>. QED
    BY <2>1, <2>2, ConstantTypes DEF TypeOK, Resting
<1>. QED
  BY <1>1, <1>2, <1>3, <1>4 DEF Counted, Reviewing

\* The branch is deleted only for an entry that changed, and made before it is worked on.
LEMMA BranchThereStep ==
  ASSUME TypeOK, BranchThere, [Next]_vars
  PROVE  BranchThere'
<1>1. stored'.entry <= entry'
  <2>1. stored.entry \in Nat /\ entry \in Nat /\ stored.entry <= entry
    BY ConstantTypes DEF TypeOK, BranchThere
  <2>2. \/ stored' = stored /\ entry' \in {entry, entry + 1}
        \/ stored' = [stored EXCEPT !.status = "merged"] /\ entry' = entry
        \/ stored' = [status |-> "started", entry |-> entry] /\ entry' = entry
    BY DEF Next, Step, Begin, Edit, Prepare, ClearOld, MakeBranch, SaveStarted, Work, Revise,
     Code, Load, RedGates, Review, Remember, Fix, AddRevision, Add, Landed, Integrate, Merged,
     Failed, Fails, CutOff, vars, disk
  <2>3. [stored EXCEPT !.status = "merged"].entry = stored.entry
    BY DEF TypeOK
  <2>4. [status |-> "started", entry |-> entry].entry = entry
    OBVIOUS
  <2>5. /\ stored'.entry = stored.entry \/ stored'.entry = entry
        /\ entry' = entry \/ entry' = entry + 1
    BY <2>2, <2>3, <2>4, Zenon
  <2>. QED
    BY <2>1, <2>5
<1>2. pc' = "clearing" => ~branch'
  <2>1. \/ pc' # "clearing"
        \/ branch' = FALSE
        \/ pc = "clearing" /\ branch' = branch
    BY DEF Next, Step, Begin, Edit, Prepare, ClearOld, MakeBranch, SaveStarted, Work,
     Revise, Code, Load, RedGates, Review, Remember, Fix, AddRevision, Add, Landed, Integrate,
     Merged, Failed, Fails, CutOff, Goto, Resting, vars, disk
  <2>. QED
    BY <2>1 DEF BranchThere, TypeOK
<1>3. pc' \in OnBranch => branch'
  <2>1. CASE Prepare
    BY <2>1 DEF Prepare, Changed, BranchThere, OnBranch, Reviewing, TypeOK
  <2>2. CASE ~Prepare
    <3>1. \/ pc' \notin OnBranch \/ branch' = TRUE
          \/ pc \in OnBranch /\ branch' = branch
      BY <2>2 DEF OnBranch, Reviewing, Next, Step, Begin, Edit, ClearOld,
        MakeBranch, SaveStarted, Work, Revise, Code, Load, RedGates, Review, Remember, Fix,
        AddRevision, Add, Landed, Integrate, Merged, Failed, Fails, CutOff, Goto, Resting, vars, disk
    <3>. QED
      BY <3>1 DEF BranchThere
  <2>. QED
    BY <2>1, <2>2
<1>4. stored'.status = "started" /\ stored'.entry = entry' => branch'
  <2>0. stored.status = "started" /\ stored.entry = entry => branch
    BY DEF BranchThere
  <2>1. CASE Edit
    <3>1. stored' = stored /\ entry' = entry + 1
      BY <2>1 DEF Edit
    <3>2. stored.entry \in Nat /\ entry \in Nat /\ stored.entry <= entry
      BY ConstantTypes DEF TypeOK, BranchThere
    <3>. QED
      BY <3>1, <3>2
  <2>2. CASE Prepare
    BY <2>0, <2>2 DEF Prepare, Changed
  <2>3. CASE SaveStarted
    BY <2>3 DEF SaveStarted, Goto, BranchThere, OnBranch
  <2>4. CASE Integrate
    BY <2>4 DEF Integrate, BranchThere, OnBranch
  <2>5. CASE ~Edit /\ ~Prepare /\ ~SaveStarted /\ ~Integrate
    <3>1. stored' = stored /\ entry' = entry /\ (branch' = TRUE \/ branch' = branch)
      BY <2>5 DEF Next, Step, Begin, ClearOld, MakeBranch, Work, Revise, Code, Load, RedGates,
         Review, Remember, Fix, AddRevision, Add, Landed, Merged, Failed, Fails, CutOff, vars,
         disk
    <3>. QED
      BY <3>1, <2>0 DEF TypeOK
  <2>. QED
    BY <2>1, <2>2, <2>3, <2>4, <2>5
<1>. QED
  BY <1>1, <1>2, <1>3, <1>4 DEF BranchThere

\* The judge's verdict is asked for a missing piece in the round that said it, and not after.
LEMMA MissingSaidStep ==
  ASSUME TypeOK, MissingSaid, [Next]_vars
  PROVE  MissingSaid'
<1>1. CASE Review
  <2>1. Judge \notin Asked => ~missing
    BY <1>1 DEF Review, Goto, MissingSaid
  <2>2. missing' => answers'[Judge] = "blocking"
    BY <1>1, <2>1 DEF Review, MayMiss
  <2>. QED
    BY <1>1, <2>2 DEF Review, Goto, MissingSaid
<1>2. CASE Remember
  <2>1. missing => answers[Judge] = "blocking"
    BY <1>2 DEF Remember, Goto, MissingSaid
  <2>2. missing => Remembered.said[Judge] = "blocking"
    BY <2>1, ConstantTypes DEF Remembered
  <2>3. memo' = Remembered /\ missing' = missing
        /\ pc' \in {"fixing", "failing", "merging"}
    BY <1>2 DEF Remember, Goto
  <2>. QED
    BY <2>2, <2>3 DEF MissingSaid
<1>3. CASE ~Review /\ ~Remember
  <2>1. \/ pc' \notin {"gating", "adding", "fixed", "answered", "fixing"}
        \/ missing' = FALSE
        \/ missing' = missing /\ memo' = memo /\ answers' = answers /\ pc' = pc
        \/ pc = "fixing" /\ pc' = "fixed" /\ ~missing /\ missing' = missing
        \/ pc \in {"gating", "adding", "fixed"} /\ missing' = missing
    BY <1>3 DEF Next, Step, Begin, Edit, Prepare, ClearOld, MakeBranch, SaveStarted,
     Work, Revise, Code, Load, RedGates, Fix, AddRevision, Add, Landed, Integrate, Merged, Failed,
     Fails, CutOff, Goto, Resting, ForgetsReview, KeepsMemory, Forgets, vars, disk, run
  <2>. QED
    BY <2>1 DEF MissingSaid
<1>. QED
  BY <1>1, <1>2, <1>3

\* The tasks are done before the review begins, and again once a piece is added.
LEMMA TasksDoneStep ==
  ASSUME TasksDone, [Next]_vars
  PROVE  TasksDone'
<1>1. \/ pc' \notin Reviewing
      \/ tasks' = "done" /\ pc' # "adding"
      \/ tasks' = "open" /\ pc' = "adding"
      \/ tasks' = tasks /\ pc \in Reviewing /\ (pc = "adding" <=> pc' = "adding")
  BY DEF Reviewing, Next, Step, Begin, Edit, Prepare, ClearOld, MakeBranch, SaveStarted, Work,
     Revise, Code, Load, RedGates, Review, Remember, Fix, AddRevision, Add, Landed, Integrate,
     Merged, Failed, Fails, CutOff, Goto, vars, disk
<1>. QED
  BY <1>1 DEF TasksDone

\* A round answers for exactly the reviewers planRound named.
LEMMA AnswersAskedStep ==
  ASSUME AnswersAsked, [Next]_vars
  PROVE  AnswersAsked'
<1>1. CASE Review
  <2>1. memo' = memo /\ code' = code
    BY <1>1 DEF Review, disk
  <2>2. Asked' = Asked /\ Present(code)' = Present(code)
    BY <2>1 DEF Asked, FirstTime, Recheck, Dirty, NewFiles, IsFor, Touched, Present
  <2>3. ASSUME NEW r \in Reviewers
        PROVE  answers'[r] = "not asked" <=> r \notin Asked
    BY <1>1 DEF Review
  <2>4. Judge \in Asked => verdict' = answers'[Judge]
    BY <1>1 DEF Review
  <2>5. ASSUME NEW l \in Lenses, l \in Asked
        PROVE  Present(code) \subseteq shown'[l]
    BY <1>1, <2>5 DEF Review
  <2>. QED
    BY <2>2, <2>3, <2>4, <2>5 DEF AnswersAsked
<1>2. CASE ~Review
  <2>1. \/ pc' # "answered"
        \/ pc' = pc /\ UNCHANGED <<memo, code, answers, verdict, shown>>
    BY <1>2 DEF Next, Step, Begin, Edit, Prepare, ClearOld, MakeBranch, SaveStarted, Work, Revise,
       Code, Load, RedGates, Remember, Fix, AddRevision, Add, Landed, Integrate, Merged, Failed,
       Fails, CutOff, Goto, Resting, vars, disk, run, history
  <2>. QED
    BY <2>1 DEF AnswersAsked, Asked, FirstTime, Recheck, Dirty, NewFiles, IsFor, Touched, Present
<1>. QED
  BY <1>1, <1>2

\* What a round's memory says of a reviewer: its answer, or what it said before.
LEMMA RememberedSaid ==
  ASSUME NEW r \in Reviewers
  PROVE  /\ Remembered.said[r] = IF answers[r] = "not asked" THEN memo.said[r] ELSE answers[r]
         /\ Remembered.seen[r] = memo.seen[r] \cup (IF answers[r] = "not asked" THEN {}
                                                    ELSE Present(code))
         /\ Remembered.diff = code
BY DEF Remembered

\* That a fix landed changes nothing else of a memory.
LEMMA LandedMemory ==
  ASSUME TypeOK, Landed
  PROVE  memo'.said = memo.said /\ memo'.seen = memo.seen /\ memo'.diff = memo.diff
BY DEF TypeOK, Landed

\* A judge that was not asked had cleared the story before.
LEMMA JudgeNotAsked ==
  ASSUME TypeOK, Judge \notin Asked
  PROVE  memo.said[Judge] = "clean"
<1>1. memo.said[Judge] \in Answers
  BY ConstantTypes DEF TypeOK
<1>. QED
  BY <1>1, ConstantTypes DEF Asked, FirstTime, Recheck, Dirty, IsFor, Answers

\* The judge's word on what the tasks wrote is forgotten when they write again.
LEMMA JudgeCleanStep ==
  ASSUME Reviewed, [Next]_vars
  PROVE  JudgeClean'
<1>1. SUFFICES ASSUME Fresh', memo'.said[Judge] = "clean"
               PROVE  verdict' = "clean" /\ tasks' = "done"
  BY DEF JudgeClean
<1>2. memo' # NoMemo
  BY <1>1, NoMemoType, ConstantTypes
<1>3. Fresh /\ memo.said[Judge] = "clean" => verdict = "clean" /\ tasks = "done"
  BY DEF Reviewed, JudgeClean
<1>4. CASE Remember
  <2>1. memo' = Remembered /\ Fresh /\ UNCHANGED <<verdict, tasks>> /\ pc = "answered"
    BY <1>1, <1>4 DEF Remember, Fresh, history
  <2>2. CASE answers[Judge] = "not asked"
    BY <1>1, <1>3, <2>1, <2>2, RememberedSaid, ConstantTypes
  <2>3. CASE answers[Judge] # "not asked"
    <3>1. answers[Judge] = "clean"
      BY <1>1, <2>1, <2>3, RememberedSaid, ConstantTypes
    <3>2. verdict = answers[Judge]
      BY <2>1, <2>3, ConstantTypes DEF Reviewed, AnswersAsked
    <3>3. tasks = "done"
      BY <2>1 DEF Reviewed, TasksDone, Reviewing
    <3>. QED
      BY <2>1, <3>1, <3>2, <3>3
  <2>. QED
    BY <2>2, <2>3
<1>5. CASE Landed
  <2>1. memo'.said = memo.said /\ Fresh /\ UNCHANGED <<verdict, tasks>>
    BY <1>1, <1>5, LandedMemory DEF Reviewed, Landed, Fresh, history
  <2>. QED
    BY <1>1, <1>3, <2>1
<1>6. CASE MakeBranch
  <2>1. branch /\ UNCHANGED <<memo, verdict, outlived, tasks>>
    BY <1>1, <1>2, <1>6 DEF MakeBranch, Fresh, Reviewed, Counted, TypeOK, history
  <2>. QED
    BY <1>1, <1>3, <2>1 DEF Fresh
<1>7. CASE Review
  <2>1. UNCHANGED <<memo, tasks>> /\ Fresh
    BY <1>1, <1>7 DEF Review, disk, Fresh
  <2>2. Judge \notin Asked
    BY <1>1, <2>1 DEF Asked, FirstTime, Recheck, Dirty, NewFiles
  <2>3. verdict' = verdict
    BY <1>7, <2>2 DEF Review
  <2>. QED
    BY <1>1, <1>3, <2>1, <2>3
<1>8. CASE ~Remember /\ ~Landed /\ ~MakeBranch /\ ~Review
  <2>1. memo' = memo \/ memo' = NoMemo
    BY <1>8 DEF Next, Step, Begin, Edit, Prepare, ClearOld, SaveStarted, Work, Revise, Code,
       Load, RedGates, Fix, AddRevision, Add, Integrate, Merged, Failed, Fails, CutOff,
       ForgetsReview, KeepsMemory, Forgets, vars, disk
  <2>2. memo' = memo
    BY <1>2, <2>1
  <2>3. \/ UNCHANGED <<tasks, verdict>>
        \/ tasks' = "done" /\ (tasks = "done" => verdict' = verdict)
        \/ pc \in {"clearing", "revising"}
        \/ pc = "fixing" /\ missing
        \/ pc = "adding"
    BY <1>8 DEF Next, Step, Begin, Edit, Prepare, ClearOld, SaveStarted, Work, Revise, Code,
       Load, RedGates, Fix, AddRevision, Add, Integrate, Merged, Failed, Fails, CutOff, Goto,
       vars, disk, history
  <2>4. Fresh
    <3>1. \/ UNCHANGED <<branch, outlived>>
          \/ branch' = FALSE
          \/ memo' = NoMemo
      BY <1>8 DEF Next, Step, Begin, Edit, Prepare, ClearOld, SaveStarted, Work, Revise, Code,
       Load, RedGates, Fix, AddRevision, Add, Integrate, Merged, Failed, Fails, CutOff,
       ForgetsReview, KeepsMemory, Forgets, vars, disk, history
    <3>2. branch \in BOOLEAN /\ outlived \in BOOLEAN
      BY DEF Reviewed, TypeOK
    <3>3. branch' = branch /\ outlived' = outlived
      BY <1>1, <1>2, <3>1 DEF Fresh
    <3>. QED
      BY <1>1, <3>2, <3>3 DEF Fresh
  <2>5. verdict = "clean" /\ tasks = "done"
    BY <1>1, <1>3, <2>2, <2>4
  <2>6. pc \notin {"clearing", "revising", "adding"} /\ ~(pc = "fixing" /\ missing)
    BY <1>1, <1>2, <2>2, <2>4, <2>5 DEF Reviewed, Counted, BranchThere, TasksDone, MissingSaid,
       Reviewing, Fresh
  <2>. QED
    BY <2>3, <2>5, <2>6
<1>. QED
  BY <1>4, <1>5, <1>6, <1>7, <1>8

\* A lens that was not asked was shown before whatever it is for of the diff: the files
\* that did not change with the memory's diff, the others when they were last shown.
LEMMA LensNotAsked ==
  ASSUME Reviewed, Fresh, NEW l \in Lenses, l \notin Asked
  PROVE  Present(code) \cap Sees[l] \subseteq shown[l]
<1>1. l \in Reviewers /\ l # Judge /\ memo.said[l] \in Answers
  BY ConstantTypes DEF Reviewed, TypeOK
<1>2. /\ memo.seen[l] \subseteq shown[l]
      /\ Present(memo.diff) \cap Sees[l] \subseteq shown[l]
  BY DEF Reviewed, MemoryShown
<1>3. CASE memo.said[l] = "not asked"
  <2>1. ~IsFor(l, Present(code))
    BY <1>1, <1>3 DEF Asked, FirstTime
  <2>. QED
    BY <1>1, <2>1 DEF IsFor
<1>4. CASE memo.said[l] # "not asked"
  <2>1. memo.said[l] = "clean"
    BY <1>1, <1>4 DEF Asked, Recheck, Dirty, Answers
  <2>2. ~IsFor(l, Touched \ memo.seen[l])
    BY <1>1, <2>1 DEF Asked, NewFiles
  <2>3. (Touched \ memo.seen[l]) \cap Sees[l] = {}
    BY <1>1, <2>2 DEF IsFor
  <2>4. memo.round # 0
    <3>1. memo # NoMemo
      BY <1>1, <1>4, NoMemoType
    <3>. QED
      BY <3>1 DEF Reviewed, Counted
  <2>5. ASSUME NEW f \in Present(code), f \in Sees[l]
        PROVE  f \in shown[l]
    <3>1. CASE f \in Touched
      BY <1>2, <2>3, <2>5, <3>1
    <3>2. CASE f \notin Touched
      <4>1. f \in Files /\ memo.diff[f] = code[f] /\ code[f] # Absent
        BY <2>4, <2>5, <3>2 DEF Touched, Present
      <4>2. f \in Present(memo.diff)
        BY <4>1 DEF Present
      <4>. QED
        BY <1>2, <2>5, <4>2
    <3>. QED
      BY <3>1, <3>2
  <2>. QED
    BY <2>5
<1>. QED
  BY <1>3, <1>4

\* What is remembered as seen was shown, also of the round just answered.
LEMMA MemoryShownStep ==
  ASSUME Reviewed, [Next]_vars
  PROVE  MemoryShown'
<1>1. SUFFICES ASSUME Fresh', NEW l \in Lenses
               PROVE  /\ memo'.seen[l] \subseteq shown'[l]
                      /\ Present(memo'.diff) \cap Sees[l] \subseteq shown'[l]
  BY DEF MemoryShown, Present
<1>2. Fresh => /\ memo.seen[l] \subseteq shown[l]
               /\ Present(memo.diff) \cap Sees[l] \subseteq shown[l]
  BY DEF Reviewed, MemoryShown
<1>3. l \in Reviewers
  BY ConstantTypes
<1>4. CASE memo' = NoMemo
  BY <1>3, <1>4, NoMemoType
<1>5. CASE Remember
  <2>1. memo' = Remembered /\ UNCHANGED shown /\ Fresh /\ pc = "answered"
    BY <1>1, <1>5 DEF Remember, Fresh, history
  <2>2. AnswersAsked
    BY DEF Reviewed
  <2>3. CASE l \in Asked
    <3>1. answers[l] # "not asked" /\ Present(code) \subseteq shown[l]
      BY <1>3, <2>1, <2>2, <2>3 DEF AnswersAsked
    <3>. QED
      BY <1>2, <1>3, <2>1, <3>1, RememberedSaid
  <2>4. CASE l \notin Asked
    <3>1. answers[l] = "not asked"
      BY <1>3, <2>1, <2>2, <2>4 DEF AnswersAsked
    <3>2. Present(code) \cap Sees[l] \subseteq shown[l]
      BY <2>1, <2>4, LensNotAsked
    <3>. QED
      BY <1>2, <1>3, <2>1, <3>1, <3>2, RememberedSaid
  <2>. QED
    BY <2>3, <2>4
<1>6. CASE Landed
  <2>1. memo'.seen = memo.seen /\ memo'.diff = memo.diff /\ shown' = shown /\ Fresh
    BY <1>1, <1>6, LandedMemory DEF Reviewed, Landed, Fresh, history
  <2>. QED
    BY <1>2, <2>1
<1>7. CASE Review
  <2>1. UNCHANGED memo /\ Fresh
    BY <1>1, <1>7 DEF Review, disk, Fresh
  <2>2. shown[l] \subseteq shown'[l]
    BY <1>7 DEF Review
  <2>. QED
    BY <1>2, <2>1, <2>2
<1>8. CASE memo' # NoMemo /\ ~Remember /\ ~Landed /\ ~Review
  <2>1. memo' = memo
    BY <1>8 DEF Next, Step, Begin, Edit, Prepare, ClearOld, MakeBranch, SaveStarted, Work, Revise,
       Code, Load, RedGates, Fix, AddRevision, Add, Integrate, Merged, Failed, Fails, CutOff,
       ForgetsReview, KeepsMemory, Forgets, vars, disk
  <2>2. memo # NoMemo /\ memo.round # 0
    BY <1>8, <2>1 DEF Reviewed, Counted
  <2>3. branch \in BOOLEAN /\ outlived \in BOOLEAN
    BY DEF Reviewed, TypeOK
  <2>4. branch' = branch /\ outlived' = outlived /\ shown' = shown
    <3>1. CASE MakeBranch
      BY <1>1, <2>2, <2>3, <3>1 DEF MakeBranch, Fresh, history
    <3>2. CASE ~MakeBranch
      <4>1. \/ UNCHANGED <<branch, outlived, shown>>
            \/ branch' = FALSE
            \/ memo' = NoMemo
            \/ pc = "revising"
        BY <1>8, <3>2 DEF Next, Step, Begin, Edit, Prepare, ClearOld, SaveStarted, Work, Revise,
           Code, Load, RedGates, Fix, AddRevision, Add, Integrate, Merged, Failed, Fails, CutOff,
           Goto, ForgetsReview, KeepsMemory, Forgets, vars, disk, history
      <4>2. pc # "revising"
        BY <2>2 DEF Reviewed, Counted
      <4>. QED
        BY <1>1, <1>8, <4>1, <4>2 DEF Fresh
    <3>. QED
      BY <3>1, <3>2
  <2>5. Fresh
    BY <1>1, <2>3, <2>4 DEF Fresh
  <2>. QED
    BY <1>2, <2>1, <2>4, <2>5
<1>. QED
  BY <1>4, <1>5, <1>6, <1>7, <1>8

\* A story goes to its merge only from a round that settled with the judge's word.
LEMMA MergesFromRound ==
  ASSUME Reviewed, [Next]_vars, pc' = "merging"
  PROVE  \/ /\ Remember /\ pc = "answered" /\ memo' = Remembered /\ ~NotCleared(Remembered)
            /\ UNCHANGED <<code, deferring, verdict, shown, outlived, branch>>
         \/ UNCHANGED vars
BY DEF Next, Step, Begin, Edit, Prepare, ClearOld, MakeBranch, SaveStarted, Work, Revise, Code,
   Load, RedGates, Review, Remember, Fix, AddRevision, Add, Landed, Integrate, Merged, Failed,
   Fails, CutOff, Goto, Resting, vars, history

\* The judge's word that lets a story to its merge is of what the tasks wrote.
LEMMA MergedIsJudgedStep ==
  ASSUME Reviewed, [Next]_vars
  PROVE  MergedIsJudged'
<1>1. SUFFICES ASSUME pc' = "merging", ~outlived'
               PROVE  verdict' \in Cleared'
  BY DEF MergedIsJudged
<1>2. CASE UNCHANGED vars
  BY <1>1, <1>2 DEF Reviewed, MergedIsJudged, Cleared, vars, history
<1>3. CASE ~UNCHANGED vars
  <2>1. /\ pc = "answered" /\ ~NotCleared(Remembered)
        /\ UNCHANGED <<deferring, verdict, outlived>>
    BY <1>1, <1>3, MergesFromRound
  <2>2. Fresh
    BY <1>1, <2>1 DEF Reviewed, BranchThere, OnBranch, Reviewing, Fresh
  <2>3. Remembered.said[Judge] \in {"clean", "not asked"}
        \/ (deferring /\ Remembered.said[Judge] = "minor")
    <3>1. Remembered.said[Judge] \in Answers
      BY RememberedSaid, ConstantTypes DEF Reviewed, TypeOK
    <3>. QED
      BY <2>1, <3>1, ConstantTypes DEF NotCleared, Dirty, Blocking, Answers
  <2>4. CASE Judge \in Asked
    <3>1. answers[Judge] # "not asked" /\ verdict = answers[Judge]
      BY <2>1, <2>4, ConstantTypes DEF Reviewed, AnswersAsked
    <3>2. Remembered.said[Judge] = verdict
      BY <3>1, RememberedSaid, ConstantTypes
    <3>. QED
      BY <2>1, <2>3, <3>1, <3>2 DEF Cleared
  <2>5. CASE Judge \notin Asked
    BY <2>1, <2>2, <2>5, JudgeNotAsked DEF Reviewed, JudgeClean, Cleared
  <2>. QED
    BY <2>4, <2>5
<1>. QED
  BY <1>2, <1>3

\* Of the diff a story goes to its merge with, every lens was shown all it is for.
LEMMA NothingUnseenStep ==
  ASSUME Reviewed, [Next]_vars
  PROVE  NothingUnseen'
<1>1. SUFFICES ASSUME pc' = "merging", ~outlived', NEW l \in Lenses
               PROVE  Present(code') \cap Sees[l] \subseteq shown'[l]
  BY DEF NothingUnseen, Present
<1>2. CASE UNCHANGED vars
  BY <1>1, <1>2 DEF Reviewed, NothingUnseen, Present, vars, disk, history
<1>3. CASE ~UNCHANGED vars
  <2>1. pc = "answered" /\ memo' = Remembered /\ UNCHANGED <<code, outlived, branch>>
    BY <1>1, <1>3, MergesFromRound
  <2>2. Fresh'
    BY <1>1, <2>1 DEF Reviewed, TypeOK, BranchThere, OnBranch, Reviewing, Fresh
  <2>3. Present(memo'.diff) \cap Sees[l] \subseteq shown'[l]
    BY <2>2, MemoryShownStep DEF MemoryShown, Present
  <2>. QED
    BY <2>1, <2>3, RememberedSaid DEF Remembered
<1>. QED
  BY <1>2, <1>3

\* The gates are run again only once the fix that is owed has landed.
LEMMA RecheckStep ==
  ASSUME Reviewed, [Next]_vars
  PROVE  RecheckFollowsFix'
<1>1. SUFFICES ASSUME pc' = "gating", (Dirty(memo))' # {}
               PROVE  memo'.fixed
  BY DEF RecheckFollowsFix
<1>2. CASE Landed
  <2>1. CASE memo.round = 0
    <3>1. memo' = NoMemo
      BY <1>2, <2>1 DEF Landed, Reviewed, Counted
    <3>. QED
      BY <1>1, <3>1, NoMemoType DEF Dirty
  <2>2. CASE memo.round # 0
    BY <1>2, <2>2 DEF Landed, Reviewed, TypeOK
  <2>. QED
    BY <2>1, <2>2
<1>3. CASE ~Landed
  <2>1. memo' = memo /\ (pc = "gating" \/ ~FixOwed)
    BY <1>1, <1>3 DEF Next, Step, Begin, Edit, Prepare, ClearOld, MakeBranch, SaveStarted, Work,
       Revise, Code, Load, RedGates, Review, Remember, Fix, AddRevision, Add, Integrate, Merged,
       Failed, Fails, CutOff, Goto, Resting, vars, disk
  <2>2. Dirty(memo) # {}
    BY <1>1, <2>1 DEF Dirty
  <2>3. memo.fixed
    BY <2>1, <2>2 DEF FixOwed, Reviewed, RecheckFollowsFix
  <2>. QED
    BY <2>1, <2>3
<1>. QED
  BY <1>2, <1>3

\* Nothing was reviewed when a story begins.
LEMMA ReviewedInit == Init => Reviewed
<1> SUFFICES ASSUME Init
             PROVE  Reviewed
  OBVIOUS
<1>1. pc = "out" /\ memo = NoMemo /\ branch = FALSE /\ revisions = 0
      /\ stored.status = "none" /\ stored.entry = 1 /\ entry = 1
  BY DEF Init
<1>2. Counted /\ BranchThere /\ MissingSaid /\ TasksDone /\ AnswersAsked
  BY <1>1, ConstantTypes
  DEF Counted, BranchThere, MissingSaid, TasksDone, AnswersAsked, Resting, Reviewing, OnBranch
<1>3. JudgeClean /\ MemoryShown
  BY <1>1 DEF JudgeClean, MemoryShown, Fresh
<1>4. MergedIsJudged /\ NothingUnseen /\ RecheckFollowsFix
  BY <1>1 DEF MergedIsJudged, NothingUnseen, RecheckFollowsFix
<1>. QED
  BY <1>2, <1>3, <1>4, TypeInit DEF Reviewed

\* The inductive invariant holds in every behaviour.
LEMMA AlwaysReviewed == Spec => []Reviewed
<1>1. Reviewed /\ [Next]_vars => Reviewed'
  BY TypeStep, CountedStep, BranchThereStep, MissingSaidStep, TasksDoneStep, AnswersAskedStep,
     JudgeCleanStep, MemoryShownStep, MergedIsJudgedStep, NothingUnseenStep, RecheckStep
  DEF Reviewed
<1>. QED
  BY ReviewedInit, <1>1, PTL DEF Spec

\* The state of a story's review is well typed: its rounds stay within --review-rounds and
\* its merge revisions within their limit, whatever is cut off.
THEOREM TypeCorrect == Spec => []TypeOK
<1>1. Reviewed => TypeOK
  BY DEF Reviewed
<1>. QED
  BY AlwaysReviewed, <1>1, PTL

\* What is merged, on a branch of its own review, was cleared by the judge as the tasks left it.
THEOREM MergedJudged == Spec => []MergedIsJudged
<1>1. Reviewed => MergedIsJudged
  BY DEF Reviewed
<1>. QED
  BY AlwaysReviewed, <1>1, PTL

\* Every lens saw every file of the merge it is for, though planRound asks few of them.
THEOREM SeenBeforeMerge == Spec => []NothingUnseen
<1>1. Reviewed => NothingUnseen
  BY DEF Reviewed
<1>. QED
  BY AlwaysReviewed, <1>1, PTL

\* A re-check always follows a fix, over any number of interrupted runs.
THEOREM FixBeforeRecheck == Spec => []RecheckFollowsFix
<1>1. Reviewed => RecheckFollowsFix
  BY DEF Reviewed
<1>. QED
  BY AlwaysReviewed, <1>1, PTL
=============================================================================
