---------------------------- MODULE MCTaskGraph ----------------------------
(* Five tasks: 4 waits for 1 and 5 for 2; 2 and 3 change a file in common,   *)
(* and 5 declares no file.                                                   *)
EXTENDS TaskGraph

Waits == <<{}, {}, {}, {1}, {2}>>
Files == <<{"a"}, {"b"}, {"b", "d"}, {"c"}, {}>>
Titles == <<"one", "two", "three", "four", "five">>
=============================================================================
