--------------------------- MODULE MCStoryReview ---------------------------
(* A story whose tasks write one file, which fixes change or add another to. *)
EXTENDS StoryReview

\* One lens is for every file, the other for the added one only.
LensFiles == [l \in Lenses |-> IF l = "any" THEN Files ELSE {"g"}]
Changes == [Files -> {Absent, "v1", "v2"}]
Small == {d \in Changes : d["f"] # Absent /\ d["g"] # "v2"}
=============================================================================
