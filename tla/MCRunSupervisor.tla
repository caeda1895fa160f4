-------------------------- MODULE MCRunSupervisor --------------------------
(* Two runs of one repository, two clients, and a server that is restarted.  *)
EXTENDS RunSupervisor

\* Both clients may give the same request id, and one may start another flow.
\* All write: a flow that only reads meets no guard but that of its request id.
Wishes ==
    [c \in Callers |-> {[request |-> "q", writes |-> TRUE]}
                        \cup (IF c = "c2" THEN {[request |-> NoRequest, writes |-> TRUE]} ELSE {})]
=============================================================================
