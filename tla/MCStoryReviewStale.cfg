SPECIFICATION Spec
CONSTANTS
    Files = {"f", "g"}
    Diffs <- Small
    Absent = "absent"
    Lenses = {"any", "added"}
    Sees <- LensFiles
    Judge = "judge"
    MaxRounds = 2
    MergeRevisions = 1
    MaxRuns = 2
    MaxEdits = 1
INVARIANTS
    JudgedBeforeMerge
CHECK_DEADLOCK FALSE
