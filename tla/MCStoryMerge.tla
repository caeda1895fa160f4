---------------------------- MODULE MCStoryMerge ----------------------------
(* Three stories, of which one waits for another or for both, and at most    *)
(* one gate line that was red before the epic.                               *)
EXTENDS StoryMerge, TLC

CONSTANTS p, q, r

QThenR == [s \in Stories |-> IF s = r THEN {q} ELSE {}]
BothThenR == [s \in Stories |-> IF s = r THEN {p, q} ELSE {}]
=============================================================================
