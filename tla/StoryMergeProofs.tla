-------------------------- MODULE StoryMergeProofs --------------------------
(***************************************************************************)
(* Proofs about StoryMerge, for any stories and dependencies, any number   *)
(* of merge revisions and any number of runs cut off anywhere: what a run  *)
(* saved as merged stays on the epic branch, and its head is red between   *)
(* merges only after a merge neither found green nor undone, or a lost     *)
(* baselines entry.                                                        *)
(***************************************************************************)
EXTENDS StoryMerge, TLAPS

\* What the assumptions on the constants give the proofs below.
LEMMA ConstantTypes ==
  /\ NoStory \notin Stories /\ MergeRevisions \in Nat /\ MaxRuns \in Nat \ {0}
  /\ Fresh \in Content
  /\ \A has : Red(has) \subseteq Lines
  /\ \A by \in Stories \cup {NoStory}, has \in Content : [by |-> by, has |-> has] \in Commits
BY StoriesAssumption, OptionsAssumption
DEF Fresh, Content, Work, Red, Lines, Commits

\* Catching up, merging and recording a baseline keep the types.
LEMMA OperatorTypes ==
  ASSUME TypeOK
  PROVE  /\ EpicHead \in Commits /\ CheckpointHead \in Commits
         /\ \A s \in Stories : Joined(s) \in Content /\ CaughtUp(s) \in Commits
         /\ \A commit \in Commits : Stored(commit) => Recorded(commit) \subseteq Lines
         /\ \A all \in SUBSET Entries, commit \in Commits, red \in SUBSET Lines :
                Put(all, commit, red) \subseteq Entries
<1>1. EpicHead \in Commits /\ CheckpointHead \in Commits
  BY DEF TypeOK, EpicHead, CheckpointHead, Commits
<1>2. ASSUME NEW s \in Stories
      PROVE  Joined(s) \in Content /\ CaughtUp(s) \in Commits
  <2>1. epic \in Content /\ branch[s] \in Commits /\ branch[s].has \in Content
    BY DEF TypeOK, Commits
  <2>2. Joined(s) \in Content
    BY <2>1 DEF Joined, Content
  <2>. QED
    BY <2>1, <2>2 DEF CaughtUp, Commits
<1>3. ASSUME NEW commit \in Commits, Stored(commit)
      PROVE  Recorded(commit) \subseteq Lines
  <2>1. PICK b \in baselines : b.commit = commit
    BY <1>3 DEF Stored
  <2>2. (CHOOSE c \in baselines : c.commit = commit) \in baselines
    BY <2>1
  <2>. QED
    BY <2>2 DEF Recorded, TypeOK, Entries
<1>4. \A all \in SUBSET Entries, commit \in Commits, red \in SUBSET Lines :
          Put(all, commit, red) \subseteq Entries
  BY DEF Put, Entries
<1>. QED
  BY <1>1, <1>2, <1>3, <1>4

\* The parts of the state of one story's fiber, and of the integration it holds.
FiberType ==
    /\ pc \in [Stories -> Points]
    /\ outcome \in [Stories -> {"none", "done", "failed"}]
    /\ file \in [Stories -> {"none", "started", "failed", "merged"}]
    /\ revisions \in [Stories -> 0..MergeRevisions]
    /\ runs \in 1..MaxRuns

TreeType ==
    /\ epic \in Content /\ checkpoint \in Content
    /\ branch \in [Stories -> Commits] /\ base \in [Stories -> Commits]

RecordType ==
    /\ baselines \subseteq Entries /\ snap \in [Stories -> SUBSET Entries]
    /\ before \subseteq Lines /\ clobbered \in BOOLEAN

HolderType ==
    /\ lock \in Stories \cup {NoStory}
    /\ ungated \subseteq Stories /\ early \subseteq Stories

\* TypeOK, cut into the parts that a step is shown to keep one at a time.
LEMMA TypeParts == TypeOK <=> FiberType /\ TreeType /\ RecordType /\ HolderType
BY DEF TypeOK, FiberType, TreeType, RecordType, HolderType

\* The first run starts with its state well typed.
LEMMA TypeInit == Init => TypeOK
<1> SUFFICES ASSUME Init
             PROVE  TypeOK
  OBVIOUS
<1>1. EpicHead \in Commits
  BY ConstantTypes DEF Init, EpicHead
<1>2. baselines \subseteq Entries
  BY <1>1, ConstantTypes DEF Init, Put, Entries
<1>3. branch \in [Stories -> Commits]
  BY ConstantTypes DEF Init
<1>4. FiberType
  BY ConstantTypes DEF Init, FiberType, Points
<1>5. TreeType
  BY <1>3, ConstantTypes DEF Init, TreeType
<1>6. RecordType
  BY <1>2 DEF Init, RecordType
<1>7. HolderType
  BY DEF Init, HolderType
<1>. QED
  BY <1>4, <1>5, <1>6, <1>7, TypeParts

\* Where a story is, its outcome, its file and its revisions keep their types;
\* only a story with a revision left is sent back.
LEMMA FiberTypeStep ==
  ASSUME TypeOK, NEW s \in Stories, Step(s)
  PROVE  FiberType'
<1>1. UNCHANGED runs
  BY DEF Step, Start, CatchUp, Measure, Reread, Record, Code, NothingToCode, Remeasure, Gates,
         GiveUp, Judged, Merge, MergeConflict, EpicGates, IntegrateFails, NoteEmpty, Triage,
         Keep, Undo, SaveMerged, history, Write, LeftUngated
<1>2. \E point \in Points : Goto(s, point)
  BY DEF Step, Start, CatchUp, Measure, Reread, Record, Code, NothingToCode, Remeasure, Gates,
         GiveUp, Judged, Merge, MergeConflict, EpicGates, IntegrateFails, NoteEmpty, Triage,
         Keep, Undo, SaveMerged, Fail, Points
<1>3. outcome' \in [Stories -> {"none", "done", "failed"}]
  BY DEF Step, Start, CatchUp, Measure, Reread, Record, Code, NothingToCode, Remeasure, Gates,
         GiveUp, Judged, Merge, MergeConflict, EpicGates, IntegrateFails, NoteEmpty, Triage,
         Keep, Undo, SaveMerged, Fail, TypeOK
<1>4. file' \in [Stories -> {"none", "started", "failed", "merged"}]
  BY DEF Step, Start, CatchUp, Measure, Reread, Record, Code, NothingToCode, Remeasure, Gates,
         GiveUp, Judged, Merge, MergeConflict, EpicGates, IntegrateFails, NoteEmpty, Triage,
         Keep, Undo, SaveMerged, Fail, TypeOK, disk
<1>5. revisions' \in [Stories -> 0..MergeRevisions]
  <2>1. \/ UNCHANGED revisions
        \/ revisions' = [revisions EXCEPT ![s] = @ + 1] /\ revisions[s] < MergeRevisions
    BY DEF Step, Start, CatchUp, Measure, Reread, Record, Code, NothingToCode, Remeasure, Gates,
           GiveUp, Judged, Merge, MergeConflict, EpicGates, IntegrateFails, NoteEmpty, Triage,
           Keep, Undo, SaveMerged, Revisable, fiber
  <2>2. revisions[s] \in 0..MergeRevisions /\ MergeRevisions \in Nat
    BY ConstantTypes DEF TypeOK
  <2>3. revisions[s] < MergeRevisions => revisions[s] + 1 \in 0..MergeRevisions
    BY <2>2
  <2>. QED
    BY <2>1, <2>3 DEF TypeOK
<1>. QED
  BY <1>1, <1>2, <1>3, <1>4, <1>5 DEF FiberType, TypeOK, Goto

\* The epic, the checkpoint and the branches hold contents of all the stories.
LEMMA TreeTypeStep ==
  ASSUME TypeOK, NEW s \in Stories, Step(s)
  PROVE  TreeType'
<1>1. epic' \in Content /\ checkpoint' \in Content
  <2>1. epic' \in {epic, checkpoint, Joined(s)} /\ checkpoint' \in {epic, checkpoint, Fresh}
    BY DEF Step, Start, CatchUp, Measure, Reread, Record, Code, NothingToCode, Remeasure, Gates,
           GiveUp, Judged, Merge, MergeConflict, EpicGates, IntegrateFails, NoteEmpty, Triage,
           Keep, Undo, SaveMerged, Rollback, Unlock, disk, integration
  <2>. QED
    BY <2>1, ConstantTypes, OperatorTypes DEF TypeOK
<1>2. branch' \in [Stories -> Commits]
  <2>1. ASSUME NEW w \in Work, Worked(s, w)
        PROVE  branch' \in [Stories -> Commits]
    <3>1. branch[s].has \in Content
      BY DEF TypeOK, Commits
    <3>2. [branch[s].has EXCEPT ![s] = w] \in Content
      BY <3>1 DEF Content
    <3>3. [by |-> s, has |-> [branch[s].has EXCEPT ![s] = w]] \in Commits
      BY <3>2, ConstantTypes
    <3>. QED
      BY <2>1, <3>3 DEF Worked, TypeOK
  <2>2. ASSUME NEW c \in Commits, branch' = [branch EXCEPT ![s] = c]
        PROVE  branch' \in [Stories -> Commits]
    BY <2>2 DEF TypeOK
  <2>3. CASE Start(s)
    <3>1. UNCHANGED branch \/ branch' = [branch EXCEPT ![s] = IF file[s] = "none" THEN EpicHead ELSE @]
      BY <2>3 DEF Start
    <3>. QED
      BY <3>1, OperatorTypes DEF TypeOK
  <2>4. CASE CatchUp(s) \/ Judged(s)
    BY <2>2, <2>4, OperatorTypes DEF CatchUp, Judged
  <2>5. CASE Code(s) \/ Gates(s)
    <3>1. UNCHANGED branch \/ \E w \in Work : Worked(s, w)
      BY <2>5 DEF Code, Gates, Work
    <3>. QED
      BY <2>1, <3>1 DEF TypeOK
  <2>6. CASE UNCHANGED branch
    BY <2>6 DEF TypeOK
  <2>. QED
    BY <2>3, <2>4, <2>5, <2>6
    DEF Step, Measure, Reread, Record, NothingToCode, Remeasure,
        GiveUp, Merge, MergeConflict, EpicGates, IntegrateFails, NoteEmpty, Triage,
        Keep, Undo, SaveMerged, disk
<1>3. base' \in [Stories -> Commits]
  <2>1. UNCHANGED base \/ base' = [base EXCEPT ![s] = CaughtUp(s)]
    BY DEF Step, Start, CatchUp, Measure, Reread, Record, Code, NothingToCode, Remeasure, Gates,
           GiveUp, Judged, Merge, MergeConflict, EpicGates, IntegrateFails, NoteEmpty, Triage,
           Keep, Undo, SaveMerged, fiber
  <2>. QED
    BY <2>1, OperatorTypes DEF TypeOK
<1>. QED
  BY <1>1, <1>2, <1>3 DEF TreeType

\* Every write of the baselines file adds an entry of a real commit.
LEMMA RecordTypeStep ==
  ASSUME TypeOK, NEW s \in Stories, Step(s)
  PROVE  RecordType'
<1>1. ASSUME NEW commit \in Commits, NEW red \in SUBSET Lines, Write(s, commit, red)
      PROVE  /\ baselines' \subseteq Entries /\ snap' \in [Stories -> SUBSET Entries]
             /\ clobbered' \in BOOLEAN
  <2>1. snap[s] \subseteq Entries
    BY DEF TypeOK
  <2>2. baselines' \subseteq Entries
    BY <1>1, <2>1, OperatorTypes DEF Write
  <2>3. snap' = [snap EXCEPT ![s] = {}]
    BY <1>1 DEF Write
  <2>4. clobbered' \in BOOLEAN
    BY <1>1 DEF Write, TypeOK
  <2>. QED
    BY <2>2, <2>3, <2>4 DEF TypeOK
<1>2. \/ UNCHANGED <<baselines, snap, clobbered>>
      \/ Read(s) /\ UNCHANGED <<baselines, clobbered>>
      \/ \E commit \in Commits, red \in SUBSET Lines : Write(s, commit, red)
  <2>1. base[s] \in Commits
    BY DEF TypeOK
  <2>2. \A has : Red(has) \in SUBSET Lines
    BY ConstantTypes
  <2>3. ASSUME NEW recording, NEW to, Record(s, recording, to)
        PROVE  \E commit \in Commits, red \in SUBSET Lines : Write(s, commit, red)
    BY <2>1, <2>2, <2>3 DEF Record
  <2>4. CASE NoteEmpty(s) \/ Keep(s)
    BY <2>2, <2>4, OperatorTypes DEF NoteEmpty, Keep
  <2>. QED
    BY <2>3, <2>4
    DEF Step, Start, CatchUp, Measure, Reread, Code, NothingToCode, Remeasure, Gates,
        GiveUp, Judged, Merge, MergeConflict, EpicGates, IntegrateFails, Triage,
        Undo, SaveMerged, disk, fiber, history
<1>3. before' \subseteq Lines
  <2>1. \/ before' \in {before, {}}
        \/ Stored(CheckpointHead) /\ before' = Recorded(CheckpointHead)
    BY DEF Step, Start, CatchUp, Measure, Reread, Record, Code, NothingToCode, Remeasure, Gates,
           GiveUp, Judged, Merge, MergeConflict, EpicGates, IntegrateFails, NoteEmpty, Triage,
           Keep, Undo, SaveMerged, Unlock, integration
  <2>. QED
    BY <2>1, OperatorTypes DEF TypeOK
<1>4. CASE Read(s) /\ UNCHANGED <<baselines, clobbered>>
  BY <1>3, <1>4 DEF Read, TypeOK, RecordType
<1>. QED
  BY <1>1, <1>2, <1>3, <1>4 DEF TypeOK, RecordType

\* The lock, and what the history says of merges, name stories only.
LEMMA HolderTypeStep ==
  ASSUME TypeOK, NEW s \in Stories, Step(s)
  PROVE  HolderType'
<1>1. lock' \in {lock, s, NoStory}
  BY DEF Step, Start, CatchUp, Measure, Reread, Record, Code, NothingToCode, Remeasure, Gates,
         GiveUp, Judged, Merge, MergeConflict, EpicGates, IntegrateFails, NoteEmpty, Triage,
         Keep, Undo, SaveMerged, Unlock, integration
<1>2. UNCHANGED ungated \/ LeftUngated
  BY DEF Step, Start, CatchUp, Measure, Reread, Record, Code, NothingToCode, Remeasure, Gates,
         GiveUp, Judged, Merge, MergeConflict, EpicGates, IntegrateFails, NoteEmpty, Triage,
         Keep, Undo, SaveMerged, history
<1>3. early' \in {early, early \cup {s}}
  BY DEF Step, Start, CatchUp, Measure, Reread, Record, Code, NothingToCode, Remeasure, Gates,
         GiveUp, Judged, Merge, MergeConflict, EpicGates, IntegrateFails, NoteEmpty, Triage,
         Keep, Undo, SaveMerged, history
<1>. QED
  BY <1>1, <1>2, <1>3 DEF HolderType, TypeOK, LeftUngated

\* Types survive every step of a story and every new run.
LEMMA TypeNext == TypeOK /\ [Next]_vars => TypeOK'
<1> SUFFICES ASSUME TypeOK, [Next]_vars
             PROVE  TypeOK'
  OBVIOUS
<1>1. ASSUME NEW s \in Stories, Step(s)
      PROVE  TypeOK'
  BY <1>1, FiberTypeStep, TreeTypeStep, RecordTypeStep, HolderTypeStep
  DEF TypeOK, FiberType, TreeType, RecordType, HolderType
<1>2. CASE NewRun
  <2>1. TreeType'
    BY <1>2, ConstantTypes DEF NewRun, Unlock, TreeType, TypeOK
  <2>2. RecordType'
    <3>1. baselines' = baselines \/ baselines' = Put(baselines, EpicHead, Red(epic))
      BY <1>2 DEF NewRun
    <3>2. baselines' \subseteq Entries
      BY <3>1, OperatorTypes, ConstantTypes DEF TypeOK
    <3>. QED
      BY <1>2, <3>2 DEF NewRun, Unlock, RecordType, TypeOK
  <2>3. FiberType'
    <3>1. runs \in 1..MaxRuns /\ runs < MaxRuns /\ runs' = runs + 1 /\ MaxRuns \in Nat \ {0}
      BY <1>2, ConstantTypes DEF NewRun, TypeOK
    <3>2. runs' \in 1..MaxRuns
      BY <3>1
    <3>3. 0 \in 0..MergeRevisions
      BY ConstantTypes
    <3>. QED
      BY <1>2, <3>2, <3>3 DEF NewRun, FiberType, TypeOK, Points
  <2>4. HolderType'
    BY <1>2 DEF NewRun, Unlock, LeftUngated, HolderType, TypeOK
  <2>. QED
    BY <2>1, <2>2, <2>3, <2>4 DEF TypeOK, FiberType, TreeType, RecordType, HolderType
<1>3. CASE UNCHANGED vars
  BY <1>3 DEF vars, disk, fiber, integration, history, TypeOK
<1>. QED
  BY <1>1, <1>2, <1>3 DEF Next

\* StoryMerge's state keeps its types: what is recorded names real commits and
\* gate lines, and no story has more merge revisions than the options allow.
THEOREM TypeCorrect == Spec => []TypeOK
BY TypeInit, TypeNext, PTL DEF Spec
-----------------------------------------------------------------------------
InMerge == {"merging", "missing", "noting", "triaging", "keeping", "undoing"}
Coded == {"checking", "regating", "rerecording", "judged", "queued"} \cup InMerge

\* mergeLock is held by the one story between its merge and what becomes of it.
Holding == \A s \in Stories : pc[s] \in InMerge <=> lock = s

\* A story past its coding has work of its own on its branch, and a story that
\* holds the lock has it on the epic branch.
WorkIsThere ==
    \A s \in Stories :
        /\ pc[s] \in Coded => branch[s].has[s] # "none"
        /\ pc[s] \in InMerge => epic[s] # "none"

\* A story whose file says merged does nothing more; only such a story is done.
MergedRests ==
    \A s \in Stories :
        /\ file[s] = "merged" => pc[s] \in {"idle", "over"}
        /\ outcome[s] = "done" => file[s] = "merged"

\* A story whose merge was kept is on the epic branch, and on the head that the
\* merge under way would be rolled back to.
Kept(s) == s \notin early /\ (file[s] = "merged" \/ pc[s] = "merged")
KeptStays ==
    \A s \in Stories : Kept(s) =>
        /\ epic[s] # "none"
        /\ lock # NoStory => checkpoint[s] = epic[s]

Merging == Holding /\ WorkIsThere /\ MergedRests /\ KeptStays

\* A step of one story leaves the fibers and branches of the others alone.
LEMMA OthersAlone ==
  ASSUME TypeOK, NEW s \in Stories, Step(s), NEW t \in Stories \ {s}
  PROVE  pc'[t] = pc[t] /\ branch'[t] = branch[t] /\ file'[t] = file[t] /\ outcome'[t] = outcome[t]
<1>1. pc'[t] = pc[t]
  BY DEF Step, Start, CatchUp, Measure, Reread, Record, Code, NothingToCode, Remeasure, Gates,
         GiveUp, Judged, Merge, MergeConflict, EpicGates, IntegrateFails, NoteEmpty, Triage,
         Keep, Undo, SaveMerged, Fail, Goto, TypeOK
<1>2. branch'[t] = branch[t]
  BY DEF Step, Start, CatchUp, Measure, Reread, Record, Code, NothingToCode, Remeasure, Gates,
         GiveUp, Judged, Merge, MergeConflict, EpicGates, IntegrateFails, NoteEmpty, Triage,
         Keep, Undo, SaveMerged, Worked, disk, TypeOK
<1>3. file'[t] = file[t] /\ outcome'[t] = outcome[t]
  BY DEF Step, Start, CatchUp, Measure, Reread, Record, Code, NothingToCode, Remeasure, Gates,
         GiveUp, Judged, Merge, MergeConflict, EpicGates, IntegrateFails, NoteEmpty, Triage,
         Keep, Undo, SaveMerged, Fail, disk, TypeOK
<1>. QED
  BY <1>1, <1>2, <1>3

\* Only integrate touches the epic branch, the lock and the checkpoint.
LEMMA EpicMoves ==
  ASSUME TypeOK, NEW s \in Stories, Step(s), ~Merge(s), ~Undo(s)
  PROVE  /\ epic' = epic
         /\ \/ UNCHANGED <<lock, checkpoint>>
            \/ pc[s] \in {"merging", "keeping", "undoing"} /\ lock' = NoStory
<1>1. epic' = epic
  BY DEF Step, Start, CatchUp, Measure, Reread, Record, Code, NothingToCode, Remeasure, Gates,
         GiveUp, Judged, MergeConflict, EpicGates, IntegrateFails, NoteEmpty, Triage,
         Keep, SaveMerged, disk
<1>2. CASE IntegrateFails(s) \/ Keep(s)
  BY <1>1, <1>2 DEF IntegrateFails, Keep, Unlock, At
<1>3. CASE ~IntegrateFails(s) /\ ~Keep(s)
  <2>1. UNCHANGED <<lock, checkpoint>>
    BY <1>3 DEF Step, Start, CatchUp, Measure, Reread, Record, Code, NothingToCode, Remeasure,
                Gates, GiveUp, Judged, MergeConflict, EpicGates, NoteEmpty, Triage, SaveMerged,
                integration
  <2>. QED
    BY <1>1, <2>1
<1>. QED
  BY <1>2, <1>3

\* The lock is taken as the merge begins, and given up on every way out of it.
LEMMA HoldingStep ==
  ASSUME TypeOK, Holding, NEW s \in Stories, Step(s)
  PROVE  Holding'
<1>1. NoStory \notin Stories
  BY ConstantTypes
<1>2. /\ pc'[s] \in InMerge <=> lock' = s
      /\ lock' # lock => lock \in {s, NoStory} /\ lock' \in {s, NoStory}
  <2>1. pc[s] \in InMerge <=> lock = s
    BY DEF Holding
  <2>2. CASE Merge(s)
    BY <2>2 DEF Merge, LockFree, Goto, TypeOK, InMerge
  <2>3. CASE EpicGates(s) \/ Reread(s, "missing", "noting") \/ NoteEmpty(s) \/ Triage(s)
    BY <2>1, <2>3 DEF EpicGates, Reread, NoteEmpty, Triage, Goto, At, TypeOK, InMerge, integration
  <2>4. CASE IntegrateFails(s) \/ Keep(s) \/ Undo(s)
    BY <1>1, <2>1, <2>4 DEF IntegrateFails, Keep, Undo, Unlock, Fail, Goto, At, TypeOK, InMerge
  <2>5. CASE \/ Start(s) \/ CatchUp(s) \/ Measure(s) \/ Reread(s, "gating", "recording")
             \/ Record(s, "recording", "coding") \/ Code(s) \/ NothingToCode(s)
    BY <2>1, <2>5 DEF Start, CatchUp, Measure, Reread, Record, Code, NothingToCode,
                      Goto, At, TypeOK, InMerge, integration
  <2>6. CASE \/ Remeasure(s) \/ Reread(s, "regating", "rerecording")
             \/ Record(s, "rerecording", "judged") \/ Gates(s) \/ GiveUp(s) \/ Judged(s)
             \/ MergeConflict(s) \/ SaveMerged(s)
    BY <2>1, <2>6 DEF Remeasure, Reread, Record, Gates, GiveUp, Judged, MergeConflict, SaveMerged,
                      Fail, Goto, At, TypeOK, InMerge, integration
  <2>. QED
    BY <2>2, <2>3, <2>4, <2>5, <2>6 DEF Step
<1>3. ASSUME NEW t \in Stories \ {s}
      PROVE  pc'[t] \in InMerge <=> lock' = t
  BY <1>1, <1>2, OthersAlone DEF Holding
<1>. QED
  BY <1>2, <1>3 DEF Holding

\* The coder's work is not lost by catching up, and a merge brings it to the epic.
LEMMA WorkStep ==
  ASSUME TypeOK, Holding, WorkIsThere, NEW s \in Stories, Step(s)
  PROVE  WorkIsThere'
<1>1. pc'[s] \in Coded => branch'[s].has[s] # "none"
  <2>1. pc[s] \in Coded => branch[s].has[s] # "none"
    BY DEF WorkIsThere
  <2>2. branch[s].has \in Content
    BY DEF TypeOK, Commits
  <2>3. ASSUME NEW w \in {"plain", "clashing"}, Worked(s, w)
        PROVE  branch'[s].has[s] = w
    BY <2>2, <2>3 DEF Worked, Content, TypeOK
  <2>4. CASE Code(s) \/ Gates(s)
    <3>1. \/ \E w \in {"plain", "clashing"} : Worked(s, w)
          \/ UNCHANGED branch /\ pc[s] \in Coded
      BY <2>4 DEF Code, Gates, At, Coded
    <3>. QED
      BY <2>1, <2>3, <3>1
  <2>5. CASE Judged(s)
    <3>1. CaughtUp(s).has = Joined(s) /\ Joined(s)[s] = branch[s].has[s]
      BY DEF CaughtUp, Joined
    <3>2. branch'[s] = CaughtUp(s) /\ pc[s] \in Coded
      BY <2>5 DEF Judged, At, Coded, TypeOK
    <3>. QED
      BY <2>1, <3>1, <3>2
  <2>6. CASE Start(s) \/ CatchUp(s)
    BY <2>6 DEF Start, CatchUp, Goto, TypeOK, Coded, InMerge
  <2>7. CASE NothingToCode(s)
    BY <2>7 DEF NothingToCode, disk
  <2>8. CASE \/ Measure(s) \/ Reread(s, "gating", "recording") \/ Record(s, "recording", "coding")
             \/ GiveUp(s) \/ IntegrateFails(s) \/ Undo(s) \/ Keep(s) \/ SaveMerged(s)
             \/ MergeConflict(s)
    BY <2>8 DEF Measure, Reread, Record, GiveUp, IntegrateFails, Undo, Keep, SaveMerged,
                MergeConflict, Fail, Goto, TypeOK, Coded, InMerge
  <2>9. CASE \/ Remeasure(s) \/ Reread(s, "regating", "rerecording")
             \/ Record(s, "rerecording", "judged") \/ Merge(s) \/ EpicGates(s)
             \/ Reread(s, "missing", "noting") \/ NoteEmpty(s) \/ Triage(s)
    BY <2>1, <2>9 DEF Remeasure, Reread, Record, Merge, EpicGates, NoteEmpty, Triage, At, Coded,
                      InMerge, disk
  <2>. QED
    BY <2>4, <2>5, <2>6, <2>7, <2>8, <2>9 DEF Step
<1>2. ASSUME NEW t \in Stories \ {s}
      PROVE  pc'[t] \in Coded => branch'[t].has[t] # "none"
  BY OthersAlone DEF WorkIsThere
<1>3. ASSUME NEW t \in Stories, pc'[t] \in InMerge
      PROVE  epic'[t] # "none"
  <2>1. CASE Merge(s)
    <3>1. t = s
      BY <1>3, <2>1, OthersAlone, ConstantTypes DEF Merge, LockFree, Holding
    <3>2. epic'[s] = branch[s].has[s] /\ pc[s] \in Coded
      BY <2>1 DEF Merge, Joined, At, Coded
    <3>. QED
      BY <3>1, <3>2 DEF WorkIsThere
  <2>2. CASE Undo(s)
    <3>1. pc'[s] \notin InMerge /\ lock = s
      BY <2>2 DEF Undo, Fail, Goto, At, TypeOK, InMerge, Holding
    <3>. QED
      BY <1>3, <3>1, OthersAlone DEF Holding
  <2>3. CASE ~Merge(s) /\ ~Undo(s)
    <3>1. epic' = epic
      BY <2>3, EpicMoves
    <3>2. pc'[s] \in InMerge => pc[s] \in InMerge
      BY <2>3 DEF Step, Start, CatchUp, Measure, Reread, Record, Code, NothingToCode, Remeasure,
                  Gates, GiveUp, Judged, MergeConflict, EpicGates, IntegrateFails, NoteEmpty,
                  Triage, Keep, SaveMerged, Fail, Goto, At, TypeOK, InMerge
    <3>. QED
      BY <1>3, <3>1, <3>2, OthersAlone DEF WorkIsThere
  <2>. QED
    BY <2>1, <2>2, <2>3
<1>. QED
  BY <1>1, <1>2, <1>3 DEF WorkIsThere

\* No story is done before its file says so, and nothing is done to it after.
LEMMA RestsStep ==
  ASSUME TypeOK, MergedRests, NEW s \in Stories, Step(s)
  PROVE  MergedRests'
<1>1. /\ file[s] = "merged" => pc[s] \in {"idle", "over"}
      /\ outcome[s] = "done" => file[s] = "merged"
  BY DEF MergedRests
<1>2. /\ file'[s] = "merged" => pc'[s] \in {"idle", "over"}
      /\ outcome'[s] = "done" => file'[s] = "merged"
  <2>1. CASE Start(s)
    <3>1. CASE file[s] = "merged"
      BY <2>1, <3>1 DEF Start, Goto, TypeOK
    <3>2. CASE file[s] # "merged"
      BY <1>1, <2>1, <3>2 DEF Start, TypeOK
    <3>. QED
      BY <3>1, <3>2
  <2>2. CASE SaveMerged(s)
    BY <2>2 DEF SaveMerged, Goto, TypeOK
  <2>3. CASE Fail(s)
    BY <2>3 DEF Fail, Goto, TypeOK
  <2>4. CASE UNCHANGED <<file, outcome>> /\ pc[s] \notin {"idle", "over"}
    BY <1>1, <2>4
  <2>. QED
    BY <2>1, <2>2, <2>3, <2>4
    DEF Step, CatchUp, Measure, Reread, Record, Code, NothingToCode, Remeasure, Gates,
        GiveUp, Judged, Merge, MergeConflict, EpicGates, IntegrateFails, NoteEmpty, Triage,
        Keep, Undo, At, disk
<1>. QED
  BY <1>2, OthersAlone DEF MergedRests

\* A story is kept when its gates pass, or when it is found in place on a head
\* that nothing can undo any more.
LEMMA KeptGrows ==
  ASSUME TypeOK, NEW s \in Stories, Step(s), NEW t \in Stories, Kept(t)', ~Kept(t)
  PROVE  /\ t = s
         /\ Keep(s) \/ (Judged(s) /\ CaughtUp(s).has = epic /\ LockFree)
<1>1. t \notin early
  BY DEF Kept, Step, Start, CatchUp, Measure, Reread, Record, Code, NothingToCode, Remeasure,
         Gates, GiveUp, Judged, Merge, MergeConflict, EpicGates, IntegrateFails, NoteEmpty,
         Triage, Keep, Undo, SaveMerged, history
<1>2. t = s
  BY <1>1, OthersAlone DEF Kept
<1>3. file[s] # "merged" /\ pc[s] # "merged"
  BY <1>1, <1>2 DEF Kept
<1>4. file'[s] # "merged"
  BY <1>3 DEF Step, Start, CatchUp, Measure, Reread, Record, Code, NothingToCode, Remeasure,
         Gates, GiveUp, Judged, Merge, MergeConflict, EpicGates, IntegrateFails, NoteEmpty,
         Triage, Keep, Undo, SaveMerged, Fail, At, disk, TypeOK
<1>5. pc'[s] = "merged"
  BY <1>2, <1>4 DEF Kept
<1>6. Keep(s) \/ Judged(s)
  BY <1>5 DEF Step, Start, CatchUp, Measure, Reread, Record, Code, NothingToCode, Remeasure,
         Gates, GiveUp, Merge, MergeConflict, EpicGates, IntegrateFails, NoteEmpty,
         Triage, Undo, SaveMerged, Fail, Goto, TypeOK
<1>7. CASE Judged(s)
  <2>1. CaughtUp(s).has = epic
    BY <1>5, <1>7 DEF Judged, Goto, TypeOK
  <2>2. s \notin early'
    BY <1>2 DEF Kept
  <2>. QED
    BY <1>2, <1>7, <2>1, <2>2 DEF Judged
<1>. QED
  BY <1>2, <1>6, <1>7

\* No merge and no rollback of another story takes a kept story off the epic.
LEMMA KeptEpicStays ==
  ASSUME TypeOK, Merging, NEW s \in Stories, Step(s), NEW t \in Stories, Kept(t)
  PROVE  /\ epic'[t] = epic[t]
         /\ lock' # NoStory => checkpoint'[t] = epic[t]
<1>1. epic[t] # "none" /\ (lock # NoStory => checkpoint[t] = epic[t])
  BY DEF Merging, KeptStays
<1>2. CASE Merge(s)
  <2>1. t # s
    BY <1>2 DEF Merging, MergedRests, Kept, Merge, At
  <2>2. Joined(s)[t] = epic[t]
    BY <1>1, <2>1 DEF Joined
  <2>. QED
    BY <1>2, <2>2 DEF Merge
<1>3. CASE Undo(s)
  <2>1. lock = s /\ s # NoStory
    BY <1>3, ConstantTypes DEF Undo, At, InMerge, Merging, Holding
  <2>2. epic' = checkpoint /\ lock' = NoStory
    BY <1>3 DEF Undo, Rollback, Unlock
  <2>. QED
    BY <1>1, <2>1, <2>2
<1>4. CASE ~Merge(s) /\ ~Undo(s)
  BY <1>1, <1>4, EpicMoves
<1>. QED
  BY <1>2, <1>3, <1>4

\* So a kept story is on the epic, and on the checkpoint of the merge under way.
LEMMA KeptStep ==
  ASSUME TypeOK, Merging, NEW s \in Stories, Step(s)
  PROVE  KeptStays'
<1> SUFFICES ASSUME NEW t \in Stories, Kept(t)'
             PROVE  /\ epic'[t] # "none"
                    /\ lock' # NoStory => checkpoint'[t] = epic'[t]
  BY DEF KeptStays
<1>1. CASE Kept(t)
  BY <1>1, KeptEpicStays DEF Merging, KeptStays
<1>2. CASE ~Kept(t)
  <2>1. t = s /\ (Keep(s) \/ (Judged(s) /\ CaughtUp(s).has = epic /\ LockFree))
    BY <1>2, KeptGrows
  <2>2. CASE Keep(s)
    <3>1. epic[s] # "none"
      BY <2>2 DEF Keep, At, InMerge, Merging, WorkIsThere
    <3>. QED
      BY <2>1, <2>2, <3>1 DEF Keep, Unlock
  <2>3. CASE Judged(s) /\ CaughtUp(s).has = epic /\ LockFree
    <3>1. CaughtUp(s).has[s] = branch[s].has[s]
      BY DEF CaughtUp, Joined
    <3>2. branch[s].has[s] # "none"
      BY <2>3 DEF Judged, At, Coded, Merging, WorkIsThere
    <3>3. epic' = epic /\ lock' = NoStory
      BY <2>3 DEF Judged, LockFree, integration
    <3>. QED
      BY <2>1, <2>3, <3>1, <3>2, <3>3
  <2>. QED
    BY <2>1, <2>2, <2>3
<1>. QED
  BY <1>1, <1>2

\* Nothing is merged, coded or kept at first.
LEMMA MergingInit == Init => Merging
BY StoriesAssumption
DEF Init, Fresh, Merging, Holding, WorkIsThere, MergedRests, KeptStays, Kept, InMerge, Coded

\* A run that ends anywhere, and the next one, start over from what is saved.
LEMMA MergingNext == TypeOK /\ Merging /\ [Next]_vars => Merging'
<1> SUFFICES ASSUME TypeOK, Merging, [Next]_vars
             PROVE  Merging'
  OBVIOUS
<1>1. ASSUME NEW s \in Stories, Step(s)
      PROVE  Merging'
  <2>1. Holding' /\ WorkIsThere'
    BY <1>1, HoldingStep, WorkStep DEF Merging
  <2>2. MergedRests' /\ KeptStays'
    BY <1>1, RestsStep, KeptStep DEF Merging
  <2>. QED
    BY <2>1, <2>2 DEF Merging
<1>2. CASE NewRun
  <2>1. \A s \in Stories : pc'[s] = "idle" /\ outcome'[s] = "none"
    BY <1>2 DEF NewRun
  <2>2. lock' = NoStory /\ NoStory \notin Stories
    BY <1>2, ConstantTypes DEF NewRun, Unlock
  <2>3. Holding' /\ WorkIsThere' /\ MergedRests'
    BY <2>1, <2>2 DEF Holding, WorkIsThere, MergedRests, InMerge, Coded
  <2>4. \A s \in Stories : Kept(s)' => Kept(s) /\ epic'[s] = epic[s]
    BY <1>2, <2>1 DEF Kept, NewRun
  <2>5. KeptStays'
    BY <2>2, <2>4 DEF KeptStays, Merging
  <2>. QED
    BY <2>3, <2>5 DEF Merging
<1>3. CASE UNCHANGED vars
  BY <1>3 DEF vars, disk, fiber, integration, history, Merging, Holding, WorkIsThere,
              MergedRests, KeptStays, Kept
<1>. QED
  BY <1>1, <1>2, <1>3 DEF Next

\* The invariant of integrate holds through all runs of the epic.
THEOREM MergingAlways == Spec => [](TypeOK /\ Merging)
<1>1. Init => TypeOK /\ Merging
  BY TypeInit, MergingInit
<1>2. TypeOK /\ Merging /\ [Next]_vars => (TypeOK /\ Merging)'
  BY TypeNext, MergingNext
<1>. QED
  BY <1>1, <1>2, PTL DEF Spec

\* A story that a state file or this run's outcome calls done is on the epic
\* branch, unless it was found in place while the gates of that head ran.
THEOREM KeptOnEpic == Spec => []MergedIsOnEpic
<1>1. TypeOK /\ Merging => MergedIsOnEpic
  BY DEF Merging, MergedRests, KeptStays, Kept, MergedIsOnEpic, Done
<1>. QED
  BY <1>1, MergingAlways, PTL

\* No step of any story, and no new run, takes such a story off the epic branch
\* or replaces its work there.
THEOREM MergesStay == Spec => MergesSurvive
<1> DEFINE Stays == \A s \in Stories \ early : file[s] = "merged" => epic'[s] = epic[s]
<1>1. TypeOK /\ Merging /\ [Next]_vars => [Stays]_vars
  <2> SUFFICES ASSUME TypeOK, Merging, [Next]_vars, NEW t \in Stories \ early, file[t] = "merged"
               PROVE  epic'[t] = epic[t]
    OBVIOUS
  <2>1. Kept(t)
    BY DEF Kept
  <2>2. ASSUME NEW s \in Stories, Step(s)
        PROVE  epic'[t] = epic[t]
    BY <2>1, <2>2, KeptEpicStays
  <2>3. CASE NewRun \/ UNCHANGED vars
    BY <2>3 DEF NewRun, vars, disk
  <2>. QED
    BY <2>2, <2>3 DEF Next
<1>2. Spec => [][Stays]_vars
  BY <1>1, MergingAlways, PTL DEF Spec
<1>. QED
  BY <1>2 DEF MergesSurvive
-----------------------------------------------------------------------------
(* What the gates of the merged head decide.                               *)

\* What the baselines say of the epic's own commits is what their gates would say.
Honest(all) == \A b \in all : b.commit.by = NoStory => b.red = Red(b.commit.has)

\* The base of a story is its branch until it is measured, and then has an entry.
Measured(s) ==
    /\ pc[s] \in {"measuring", "gating", "recording"} => base[s] = branch[s]
    /\ pc[s] \in {"coding", "checking"} => Stored(base[s])
    /\ pc[s] \notin {"regating", "rerecording"}

\* A merge is compared with what was red before it, and kept if it adds nothing.
Compared(s) ==
    /\ pc[s] \notin {"missing", "noting"}
    /\ pc[s] \in {"triaging", "keeping", "undoing"} => before = Red(checkpoint)
    /\ pc[s] = "keeping" => Blocking = {}

\* The head that the next merge is compared with, or this one rolled back to,
\* has an entry and no stories that clash.
GreenHead ==
    IF LockFree THEN Stored(EpicHead) /\ ~Clashing(epic)
    ELSE Stored(CheckpointHead) /\ ~Clashing(checkpoint)

Decided ==
    /\ Honest(baselines) /\ GreenHead
    /\ \A s \in Stories : Honest(snap[s]) /\ Measured(s) /\ Compared(s)

\* All of it holds until a merge is left neither found green nor undone, or the
\* baselines file loses an entry.
NoTrouble == ungated = {} /\ ~clobbered
Deciding == NoTrouble => Decided

\* The entries of a set of baselines that name a commit.
Has(all, commit) == \E b \in all : b.commit = commit

\* An entry that says of a commit what its gates say keeps the baselines honest.
LEMMA HonestPut ==
  ASSUME NEW all, Honest(all), NEW commit, NEW red,
         commit.by = NoStory => red = Red(commit.has)
  PROVE  Honest(Put(all, commit, red)) /\ Has(Put(all, commit, red), commit)
<1>1. \A b \in Put(all, commit, red) : b \in all \/ b = [commit |-> commit, red |-> red]
  BY DEF Put
<1>2. Honest(Put(all, commit, red))
  BY <1>1 DEF Honest
<1>3. [commit |-> commit, red |-> red] \in Put(all, commit, red)
  BY DEF Put
<1> QED
  BY <1>2, <1>3 DEF Has

\* A write that drops no entry of another commit keeps every commit's.
LEMMA HonestWrite ==
  ASSUME TypeOK, NEW s \in Stories, NEW commit, NEW red, Write(s, commit, red), ~clobbered',
         Honest(baselines), \A t \in Stories : Honest(snap[t]),
         commit.by = NoStory => red = Red(commit.has)
  PROVE  /\ Honest(baselines') /\ \A t \in Stories : Honest(snap'[t])
         /\ Has(baselines', commit)
         /\ \A other : Has(baselines, other) => Has(baselines', other)
<1>1. baselines' = Put(snap[s], commit, red) /\ snap' = [snap EXCEPT ![s] = {}]
  BY DEF Write
<1>2. Honest(baselines') /\ Has(baselines', commit)
  BY <1>1, HonestPut
<1>3. \A t \in Stories : Honest(snap'[t])
  BY <1>1 DEF Honest, TypeOK
<1>4. ASSUME NEW other, Has(baselines, other), other # commit
      PROVE  Has(baselines', other)
  <2>1. PICK b \in baselines : b.commit = other
    BY <1>4 DEF Has
  <2>2. b \in snap[s]
    BY <1>4, <2>1 DEF Write
  <2>3. b \in baselines'
    BY <1>1, <1>4, <2>1, <2>2 DEF Put
  <2> QED
    BY <2>1, <2>3 DEF Has
<1> QED
  BY <1>2, <1>3, <1>4

\* Trouble is never forgotten.
LEMMA TroubleStays ==
  ASSUME [Next]_vars, NoTrouble'
  PROVE  NoTrouble
<1>1. ASSUME NEW s \in Stories, Step(s)
      PROVE  NoTrouble
  <2>1. ungated \subseteq ungated'
    BY <1>1 DEF Step, Start, CatchUp, Measure, Reread, Record, Code, NothingToCode, Remeasure,
         Gates, GiveUp, Judged, Merge, MergeConflict, EpicGates, IntegrateFails, NoteEmpty,
         Triage, Keep, Undo, SaveMerged, LeftUngated, history
  <2>2. clobbered => clobbered'
    BY <1>1 DEF Step, Start, CatchUp, Measure, Reread, Record, Code, NothingToCode, Remeasure,
         Gates, GiveUp, Judged, Merge, MergeConflict, EpicGates, IntegrateFails, NoteEmpty,
         Triage, Keep, Undo, SaveMerged, Write, history
  <2> QED
    BY <2>1, <2>2 DEF NoTrouble
<1>2. CASE NewRun \/ UNCHANGED vars
  <2>1. ungated \subseteq ungated' /\ clobbered' = clobbered
    BY <1>2 DEF NewRun, LeftUngated, vars, history
  <2> QED
    BY <2>1 DEF NoTrouble
<1> QED
  BY <1>1, <1>2 DEF Next

\* Every entry that is written is of the head it names.
LEMMA RecordsStep ==
  ASSUME TypeOK, Decided, NEW s \in Stories, Step(s), ~clobbered'
  PROVE  /\ Honest(baselines') /\ \A t \in Stories : Honest(snap'[t])
         /\ \A other : Has(baselines, other) => Has(baselines', other)
         /\ Record(s, "recording", "coding") => Has(baselines', base[s])
         /\ Keep(s) => Has(baselines', EpicHead)
<1>1. Honest(baselines) /\ \A t \in Stories : Honest(snap[t])
  BY DEF Decided
<1>2. CASE Record(s, "recording", "coding")
  <2>1. base[s] = branch[s] /\ Write(s, base[s], Red(branch[s].has)) /\ ~Keep(s)
    BY <1>2 DEF Decided, Measured, Record, Keep, At
  <2> QED
    BY <1>1, <2>1, HonestWrite
<1>3. CASE Keep(s)
  <2>1. Write(s, EpicHead, Red(epic)) /\ EpicHead.has = epic /\ ~Record(s, "recording", "coding")
    BY <1>3 DEF Keep, EpicHead, Record, At
  <2> QED
    BY <1>1, <2>1, HonestWrite
<1>4. CASE ~Record(s, "recording", "coding") /\ ~Keep(s)
  <2>1. ~Record(s, "rerecording", "judged") /\ ~NoteEmpty(s)
    BY DEF Decided, Measured, Compared, Record, NoteEmpty, At
  <2>2. baselines' = baselines /\ (snap' = snap \/ Read(s))
    BY <1>4, <2>1
    DEF Step, Start, CatchUp, Measure, Reread, Code, NothingToCode, Remeasure, Gates,
        GiveUp, Judged, Merge, MergeConflict, EpicGates, IntegrateFails, Triage,
        Undo, SaveMerged, disk, fiber
  <2>3. \A t \in Stories : snap'[t] = snap[t] \/ snap'[t] = baselines
    BY <2>2 DEF Read, TypeOK
  <2> QED
    BY <1>1, <1>4, <2>2, <2>3
<1> QED
  BY <1>2, <1>3, <1>4

\* A story is compared with its base as it was measured.
LEMMA MeasuredStep ==
  ASSUME TypeOK, Decided, NEW s \in Stories, Step(s), ~clobbered', NEW t \in Stories
  PROVE  Measured(t)'
<1>1. \A other : Has(baselines, other) => Has(baselines', other)
  BY RecordsStep
<1>2. \A other : (Stored(other) <=> Has(baselines, other))
  BY DEF Stored, Has
<1>3. Stored(base[t])' <=> Has(baselines', base'[t])
  BY DEF Stored, Has
<1>4. /\ pc[t] \in {"measuring", "gating", "recording"} => base[t] = branch[t]
      /\ pc[t] \in {"coding", "checking"} => Has(baselines, base[t])
      /\ pc[t] \notin {"regating", "rerecording"}
  BY <1>2 DEF Decided, Measured
<1>5. base' = base \/ base' = [base EXCEPT ![s] = CaughtUp(s)]
  BY DEF Step, Start, CatchUp, Measure, Reread, Record, Code, NothingToCode, Remeasure, Gates,
         GiveUp, Judged, Merge, MergeConflict, EpicGates, IntegrateFails, NoteEmpty, Triage,
         Keep, Undo, SaveMerged, fiber
<1>6. CASE t # s
  <2>1. base'[t] = base[t]
    BY <1>5, <1>6 DEF TypeOK
  <2>2. pc'[t] = pc[t] /\ branch'[t] = branch[t]
    BY <1>6, OthersAlone
  <2> QED
    BY <1>1, <1>3, <1>4, <2>1, <2>2 DEF Measured
<1>7. CASE t = s
  <2>1. CASE CatchUp(s)
    <3>1. pc'[s] = "measuring" /\ base'[s] = CaughtUp(s) /\ branch'[s] = CaughtUp(s)
      BY <2>1 DEF CatchUp, Goto, TypeOK
    <3> QED
      BY <1>7, <3>1 DEF Measured
  <2>2. CASE Measure(s)
    <3>1. /\ UNCHANGED <<base, branch, baselines>> /\ pc[s] = "measuring"
          /\ pc'[s] = IF Stored(base[s]) THEN "coding" ELSE "gating"
      BY <2>2 DEF Measure, Goto, At, disk, TypeOK
    <3> QED
      BY <1>2, <1>3, <1>4, <1>7, <3>1 DEF Measured
  <2>3. CASE Reread(s, "gating", "recording")
    <3>1. UNCHANGED <<base, branch>> /\ pc[s] = "gating" /\ pc'[s] = "recording"
      BY <2>3 DEF Reread, Goto, At, disk, TypeOK
    <3> QED
      BY <1>4, <1>7, <3>1 DEF Measured
  <2>4. CASE Record(s, "recording", "coding")
    <3>1. base' = base /\ pc'[s] = "coding" /\ Has(baselines', base[s])
      BY <2>4, RecordsStep DEF Record, Goto, TypeOK
    <3> QED
      BY <1>3, <1>7, <3>1 DEF Measured
  <2>5. CASE Code(s)
    <3>1. base' = base /\ pc'[s] = "checking" /\ pc[s] = "coding"
      BY <2>5 DEF Code, Goto, At, TypeOK
    <3> QED
      BY <1>1, <1>3, <1>4, <1>7, <3>1 DEF Measured
  <2>6. ~Remeasure(s) /\ ~Reread(s, "regating", "rerecording") /\ ~Record(s, "rerecording", "judged")
    BY <1>2, <1>4, <1>7 DEF Remeasure, Reread, Record, At
  <2>7. CASE \E point \in Points \ {"measuring", "gating", "recording", "coding", "checking",
                                    "regating", "rerecording"} : Goto(s, point)
    <3>1. pc'[s] \notin {"measuring", "gating", "recording", "coding", "checking",
                         "regating", "rerecording"}
      BY <2>7 DEF Goto, TypeOK
    <3> QED
      BY <1>7, <3>1 DEF Measured
  <2>8. CASE \/ Start(s) \/ NothingToCode(s) \/ Gates(s) \/ GiveUp(s) \/ Judged(s)
             \/ Merge(s) \/ MergeConflict(s) \/ EpicGates(s) \/ IntegrateFails(s)
             \/ Reread(s, "missing", "noting") \/ NoteEmpty(s)
             \/ Triage(s) \/ Keep(s) \/ Undo(s) \/ SaveMerged(s)
    BY <2>7, <2>8
    DEF Start, NothingToCode, Gates, GiveUp, Judged, Merge, MergeConflict, EpicGates,
        IntegrateFails, Reread, NoteEmpty, Triage, Keep, Undo, SaveMerged, Fail, Points
  <2> QED
    BY <2>1, <2>2, <2>3, <2>4, <2>5, <2>6, <2>8 DEF Step
<1> QED
  BY <1>6, <1>7

\* While a story holds the lock, no other story's step touches the integration.
LEMMA HolderAlone ==
  ASSUME TypeOK, Holding, NEW t \in Stories, lock = t, NEW s \in Stories \ {t}, Step(s)
  PROVE  UNCHANGED <<epic, integration>>
<1>1. pc[s] \notin InMerge /\ ~LockFree
  BY ConstantTypes DEF Holding, LockFree
<1>2. /\ ~Merge(s) /\ ~EpicGates(s) /\ ~IntegrateFails(s) /\ ~Reread(s, "missing", "noting")
      /\ ~NoteEmpty(s) /\ ~Triage(s) /\ ~Keep(s) /\ ~Undo(s)
  BY <1>1 DEF Merge, EpicGates, IntegrateFails, Reread, NoteEmpty, Triage, Keep, Undo, At, InMerge
<1> QED
  BY <1>2 DEF Step, Start, CatchUp, Measure, Reread, Record, Code, NothingToCode, Remeasure,
              Gates, GiveUp, Judged, MergeConflict, SaveMerged, disk, integration

\* A merge is decided on what was red before it.
LEMMA ComparedStep ==
  ASSUME TypeOK, Holding, Decided, NEW s \in Stories, Step(s), NEW t \in Stories
  PROVE  Compared(t)'
<1>1. Compared(t)
  BY DEF Decided
<1>2. CASE t # s
  <2>1. pc'[t] = pc[t]
    BY <1>2, OthersAlone
  <2>2. CASE pc[t] \in InMerge
    <3>1. UNCHANGED <<epic, checkpoint, before>>
      BY <1>2, <2>2, HolderAlone DEF Holding, integration
    <3> QED
      BY <1>1, <2>1, <3>1 DEF Compared, Blocking
  <2>3. CASE pc[t] \notin InMerge
    BY <2>1, <2>3 DEF Compared, InMerge
  <2> QED
    BY <2>2, <2>3
<1>3. CASE t = s
  <2>1. CASE EpicGates(s)
    <3>1. lock = s /\ s # NoStory
      BY <2>1, ConstantTypes DEF EpicGates, At, InMerge, Holding
    <3>2. Stored(CheckpointHead) /\ Honest(baselines)
      BY <3>1 DEF Decided, GreenHead, LockFree
    <3>3. (CHOOSE b \in baselines : b.commit = CheckpointHead) \in
             {b \in baselines : b.commit = CheckpointHead}
      BY <3>2 DEF Stored
    <3>4. CheckpointHead.by = NoStory /\ CheckpointHead.has = checkpoint
      BY DEF CheckpointHead
    <3>5. Recorded(CheckpointHead) = Red(checkpoint)
      BY <3>2, <3>3, <3>4 DEF Recorded, Honest
    <3>6. before' = Red(checkpoint) /\ checkpoint' = checkpoint /\ pc'[s] = "triaging"
      BY <2>1, <3>2, <3>5 DEF EpicGates, Goto, TypeOK
    <3> QED
      BY <1>3, <3>6 DEF Compared
  <2>2. CASE Triage(s)
    <3>1. /\ before = Red(checkpoint) /\ UNCHANGED <<epic, before, checkpoint>>
          /\ pc'[s] \in {"keeping", "undoing"} /\ (pc'[s] = "keeping" => Blocking = {})
      BY <1>1, <1>3, <2>2 DEF Triage, Compared, At, Goto, disk, integration, TypeOK
    <3> QED
      BY <1>3, <3>1 DEF Compared, Blocking
  <2>3. ~Reread(s, "missing", "noting") /\ ~NoteEmpty(s)
    BY <1>1, <1>3 DEF Compared, Reread, NoteEmpty, At
  <2>4. CASE \E point \in Points \ {"missing", "noting", "triaging", "keeping", "undoing"} :
                 Goto(s, point)
    <3>1. pc'[s] \notin {"missing", "noting", "triaging", "keeping", "undoing"}
      BY <2>4 DEF Goto, TypeOK
    <3> QED
      BY <1>3, <3>1 DEF Compared
  <2>5. CASE ~EpicGates(s) /\ ~Triage(s)
    BY <2>3, <2>4, <2>5
    DEF Step, Start, CatchUp, Measure, Reread, Record, Code, NothingToCode, Remeasure, Gates,
        GiveUp, Judged, Merge, MergeConflict, IntegrateFails, Keep, Undo, SaveMerged, Fail, Points
  <2> QED
    BY <2>1, <2>2, <2>5
<1> QED
  BY <1>2, <1>3

\* Two stories clash on a head exactly when its gates show the line of it.
LEMMA ClashShows ==
  ASSUME NEW has
  PROVE  Clashing(has) <=> Clash \in Red(has)
BY StoriesAssumption DEF Red

\* A merge that adds nothing to a green head leaves a green head.
LEMMA NothingAdded ==
  ASSUME NEW has, NEW old, ~Clashing(old), Red(has) \ Red(old) = {}
  PROVE  ~Clashing(has)
BY ClashShows

\* A merge that is left where it changed nothing leaves the head it found.
LEMMA LeftAsFound ==
  ASSUME TypeOK, LeftUngated, ungated' = {}
  PROVE  epic = checkpoint
<1>1. \A t \in Stories : epic[t] = checkpoint[t]
  BY DEF LeftUngated
<1> QED
  BY <1>1 DEF TypeOK, Content

\* The head that a merge starts from, or is rolled back to, stays green.
LEMMA GreenStep ==
  ASSUME TypeOK, Holding, Decided, NEW s \in Stories, Step(s), NoTrouble'
  PROVE  GreenHead'
<1> DEFINE Of(has) == [by |-> NoStory, has |-> has]
<1>1. /\ \A other : Has(baselines, other) => Has(baselines', other)
      /\ Keep(s) => Has(baselines', EpicHead)
  BY RecordsStep DEF NoTrouble
<1>2. IF lock = NoStory THEN Has(baselines, Of(epic)) /\ ~Clashing(epic)
      ELSE Has(baselines, Of(checkpoint)) /\ ~Clashing(checkpoint)
  BY DEF Decided, GreenHead, LockFree, Stored, EpicHead, CheckpointHead, Has
<1>3. SUFFICES IF lock' = NoStory THEN Has(baselines', Of(epic')) /\ ~Clashing(epic')
               ELSE Has(baselines', Of(checkpoint')) /\ ~Clashing(checkpoint')
  BY DEF GreenHead, LockFree, Stored, EpicHead, CheckpointHead, Has, Clashing
<1>4. s # NoStory /\ (pc[s] \in InMerge => lock = s)
  BY ConstantTypes DEF Holding
<1> HIDE DEF Of
<1>5. CASE Merge(s)
  <2>1. lock = NoStory /\ lock' = s /\ checkpoint' = epic
    BY <1>5 DEF Merge, LockFree
  <2> QED
    BY <1>1, <1>2, <1>4, <2>1
<1>6. CASE Undo(s)
  <2>1. lock = s /\ lock' = NoStory /\ epic' = checkpoint
    BY <1>4, <1>6 DEF Undo, At, InMerge, Rollback, Unlock
  <2> QED
    BY <1>1, <1>2, <1>4, <2>1
<1>7. CASE Keep(s)
  <2>1. lock = s /\ lock' = NoStory /\ epic' = epic /\ Has(baselines', Of(epic))
    BY <1>1, <1>4, <1>7 DEF Keep, At, InMerge, Unlock, EpicHead, Of
  <2>2. Red(epic) \ Red(checkpoint) = {}
    BY <1>7 DEF Decided, Compared, Blocking, Keep, At
  <2> QED
    BY <1>2, <1>4, <2>1, <2>2, NothingAdded
<1>8. CASE IntegrateFails(s)
  <2>1. lock = s /\ lock' = NoStory /\ epic' = epic /\ LeftUngated
    BY <1>4, <1>8 DEF IntegrateFails, At, InMerge, Unlock
  <2>2. epic = checkpoint
    BY <2>1, LeftAsFound DEF NoTrouble
  <2> QED
    BY <1>1, <1>2, <1>4, <2>1, <2>2
<1>9. CASE ~Merge(s) /\ ~Undo(s) /\ ~Keep(s) /\ ~IntegrateFails(s)
  <2>1. UNCHANGED <<epic, lock, checkpoint>>
    BY <1>9
    DEF Step, Start, CatchUp, Measure, Reread, Record, Code, NothingToCode, Remeasure, Gates,
        GiveUp, Judged, MergeConflict, EpicGates, NoteEmpty, Triage, SaveMerged, disk, integration
  <2> QED
    BY <1>1, <1>2, <2>1
<1> QED
  BY <1>5, <1>6, <1>7, <1>8, <1>9

\* The first run starts from a head whose gates ran.
LEMMA DecidedInit == Init => Decided
<1> SUFFICES ASSUME Init
             PROVE  Decided
  OBVIOUS
<1>1. baselines = {[commit |-> EpicHead, red |-> Red(Fresh)]} /\ EpicHead.has = Fresh
  BY DEF Init, Put, EpicHead
<1>2. Honest(baselines) /\ Stored(EpicHead)
  BY <1>1 DEF Honest, Stored
<1>3. ~Clashing(epic)
  BY DEF Init, Fresh, Clashing
<1>4. ASSUME NEW s \in Stories
      PROVE  Honest(snap[s]) /\ Measured(s) /\ Compared(s)
  BY DEF Init, Honest, Measured, Compared
<1> QED
  BY <1>2, <1>3, <1>4 DEF Decided, GreenHead, LockFree, Init

\* So does every run after it, unless the one before left such a merge.
LEMMA DecidedRerun ==
  ASSUME TypeOK, Holding, Decided, NewRun, NoTrouble'
  PROVE  Decided'
<1>1. ~Clashing(epic)
  <2>1. CASE LockFree
    BY <2>1 DEF Decided, GreenHead
  <2>2. CASE ~LockFree /\ pc[lock] = "keeping"
    <3>1. lock \in Stories
      BY <2>2 DEF LockFree, TypeOK
    <3>2. Red(epic) \ Red(checkpoint) = {} /\ ~Clashing(checkpoint)
      BY <2>2, <3>1 DEF Decided, GreenHead, Compared, Blocking
    <3> QED
      BY <3>2, NothingAdded
  <2>3. CASE ~LockFree /\ pc[lock] # "keeping"
    <3>1. epic = checkpoint
      BY <2>3, LeftAsFound DEF NewRun, NoTrouble
    <3> QED
      BY <2>3, <3>1 DEF Decided, GreenHead
  <2> QED
    BY <2>1, <2>2, <2>3
<1>2. Honest(baselines') /\ Has(baselines', EpicHead)
  <2>1. CASE Stored(EpicHead)
    BY <2>1 DEF NewRun, Decided, Stored, Has
  <2>2. CASE ~Stored(EpicHead)
    <3>1. baselines' = Put(baselines, EpicHead, Red(epic)) /\ EpicHead.has = epic
      BY <2>2 DEF NewRun, EpicHead
    <3> QED
      BY <3>1, HonestPut DEF Decided
  <2> QED
    BY <2>1, <2>2
<1>3. epic' = epic /\ lock' = NoStory
  BY DEF NewRun, Unlock
<1>4. GreenHead'
  BY <1>1, <1>2, <1>3 DEF GreenHead, LockFree, Stored, Has, EpicHead, Clashing
<1>5. ASSUME NEW s \in Stories
      PROVE  Honest(snap'[s]) /\ Measured(s)' /\ Compared(s)'
  BY DEF NewRun, Honest, Measured, Compared
<1> QED
  BY <1>2, <1>4, <1>5 DEF Decided, Honest

\* It lasts as long as there is no trouble.
LEMMA DecidingNext == TypeOK /\ Merging /\ Deciding /\ [Next]_vars => Deciding'
<1> SUFFICES ASSUME TypeOK, Merging, Deciding, [Next]_vars, NoTrouble'
             PROVE  Decided'
  BY DEF Deciding
<1>1. Decided /\ Holding
  BY TroubleStays DEF Deciding, Merging
<1>2. ASSUME NEW s \in Stories, Step(s)
      PROVE  Decided'
  <2>1. Honest(baselines') /\ \A t \in Stories : Honest(snap'[t])
    BY <1>1, <1>2, RecordsStep DEF NoTrouble
  <2>2. \A t \in Stories : Measured(t)' /\ Compared(t)'
    BY <1>1, <1>2, MeasuredStep, ComparedStep DEF NoTrouble
  <2>3. GreenHead'
    BY <1>1, <1>2, GreenStep
  <2> QED
    BY <2>1, <2>2, <2>3 DEF Decided, Honest
<1>3. CASE NewRun
  BY <1>1, <1>3, DecidedRerun
<1>4. CASE UNCHANGED vars
  BY <1>1, <1>4
  DEF vars, disk, fiber, integration, history, Decided, GreenHead, LockFree, Stored, EpicHead,
      CheckpointHead, Clashing, Honest, Measured, Compared, Blocking
<1> QED
  BY <1>2, <1>3, <1>4 DEF Next

\* Through all runs, merges are decided on what was red before them until a
\* merge is left neither found green nor undone, or an entry is lost.
THEOREM DecidingAlways == Spec => []Deciding
<1>1. Init => Deciding
  BY DecidedInit DEF Deciding
<1> QED
  BY <1>1, DecidingNext, MergingAlways, PTL DEF Spec

\* The epic head is red between merges only if some merge was left neither
\* found green nor undone, or the baselines file lost an entry.
THEOREM RedHasCause == Spec => []RedOnlyAfterTrouble
<1>1. Deciding => RedOnlyAfterTrouble
  BY DEF Deciding, NoTrouble, Decided, GreenHead, RedOnlyAfterTrouble
<1> QED
  BY <1>1, DecidingAlways, PTL

\* A story is sent back for exactly what its merge broke, as long as every merge
\* was found green or undone and no entry was lost.
THEOREM ChargedFairly == Spec => []ChargedForAdded
<1>1. Deciding => ChargedForAdded
  BY DEF Deciding, NoTrouble, Decided, Compared, Blocking, ChargedForAdded
<1> QED
  BY <1>1, DecidingAlways, PTL

=============================================================================
