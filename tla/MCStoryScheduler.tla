-------------------------- MODULE MCStoryScheduler --------------------------
(* Four stories: x waits for w, z waits for x and y, and the plan lists z    *)
(* before what it waits for.                                                 *)
EXTENDS StoryScheduler

CONSTANTS w, x, y, z

Waits == [s \in Stories |-> CASE s = x -> {w} [] s = z -> {x, y} [] OTHER -> {}]
Places == [s \in Stories |-> CASE s = z -> 1 [] s = w -> 2 [] s = y -> 3 [] s = x -> 4]
=============================================================================
