--------------------------- MODULE RunSupervisor ---------------------------
(***************************************************************************)
(* The runs of one repository under `llm4ts mcp`: makeRunSupervisor of     *)
(* packages/shell/src/RunSupervisor.ts over FlowProcess.ts.                *)
(*                                                                         *)
(* Flows run in detached child processes.  The registry file and the       *)
(* children outlive the server; what the server knows of them does not.    *)
(* A call yields wherever it reads or appends to the registry or waits,    *)
(* and may be cancelled there: its append has then landed or never does.   *)
(* A pid is not used again.                                                *)
(***************************************************************************)
EXTENDS Naturals, FiniteSets

CONSTANTS
    Runs,          \* bound: run ids
    Callers,       \* clients of the server
    Requests,      \* the request ids of clients
    NoRequest, NoRun,
    Asked,         \* what each client may start
    ParallelRuns,
    MaxServers,    \* bound: servers, one after another
    MaxCalls       \* bound: calls of all clients

Asks == [request : Requests \cup {NoRequest}, writes : BOOLEAN]
NoAsk == [request |-> NoRequest, writes |-> FALSE]
ASSUME SupervisorAssumption ==
    /\ IsFiniteSet(Runs)
    /\ NoRequest \notin Requests /\ NoRun \notin Runs
    /\ Asked \in [Callers -> SUBSET Asks]
    /\ ParallelRuns \in Nat \ {0}
    /\ MaxServers \in Nat \ {0} /\ MaxCalls \in Nat

VARIABLES
    state,    \* the registry: the state on the latest line of each run, `ended` standing
              \* for exited, interrupted and lost; a line that says running has the pid
    ask,      \* and on that line: its request id, and whether its flow writes
    child,    \* the child process of each run
    server,
    servers,
    known,    \* what the server knows of each run
    call,     \* what each caller is doing
    calls,
    watched   \* history: runs that have been live

registry == <<state, ask>>
host == <<child, server, servers>>
history == <<calls, watched>>
vars == <<registry, host, known, call, history>>

States == {"absent", "starting", "running", "ended"}
Active == {"starting", "running"}

\* The entries of `live`, `launching` and `orphansStopping`, the fiber that signals
\* the run, and the signals it has sent to a living child.
Unknown == [live |-> FALSE, launching |-> FALSE, stopping |-> FALSE, orphan |-> "none",
            fiber |-> "none", sigint |-> 0, sigterm |-> FALSE]

\* A call: the run it is about, the registry it read, and the runs of that
\* reading it has still to reconcile.
NoReading == [r \in Runs |-> "absent"]
AtRest == [op |-> "none", at |-> "idle", run |-> NoRun, read |-> NoReading, todo |-> {},
           ask |-> NoAsk]

Init ==
    /\ state = [r \in Runs |-> "absent"] /\ ask = [r \in Runs |-> NoAsk]
    /\ child = [r \in Runs |-> "none"]
    /\ server = "up" /\ servers = 1
    /\ known = [r \in Runs |-> Unknown]
    /\ call = [c \in Callers |-> AtRest]
    /\ calls = 0 /\ watched = {}

-----------------------------------------------------------------------------
(* Reading the registry.  Each active run of what was read is reconciled,   *)
(* an append at a time.                                                     *)

Asking(c) == server = "up" /\ call[c].at = "idle" /\ calls < MaxCalls /\ calls' = calls + 1
Reading(c, op, r, what) ==
    call' = [call EXCEPT ![c] = [op |-> op, at |-> "reading", run |-> r, read |-> state,
                                 todo |-> {q \in Runs : state[q] \in Active}, ask |-> what]]
HasRead(c, op) == call[c].at = "reading" /\ call[c].op = op /\ call[c].todo = {}
Waits(c, op, r, point) ==
    call' = [call EXCEPT ![c] = [AtRest EXCEPT !.op = op, !.run = r, !.at = point]]
Goes(c, point) == call' = [call EXCEPT ![c].at = point, ![c].read = NoReading]
Return(c) == call' = [call EXCEPT ![c] = AtRest]

\* isOrphan of a run the reading says is active.
ThoughLaunching(r) == ~known[r].live
Unwatched(r) == ~known[r].live /\ ~known[r].launching

\* reconcile: whether the run is watched and its child alive is asked now, its
\* state was read before.  A failed append fails the call.
Reconcile(c, r) ==
    /\ call[c].at = "reading" /\ r \in call[c].todo
    /\ IF Unwatched(r) /\ (call[c].read[r] = "starting" \/ child[r] # "alive")
       THEN \/ /\ state' = [state EXCEPT ![r] = "ended"]
               /\ call' = [call EXCEPT ![c].todo = @ \ {r}, ![c].read[r] = "ended"]
            \/ Return(c) /\ UNCHANGED state
       ELSE call' = [call EXCEPT ![c].todo = @ \ {r}] /\ UNCHANGED state
    /\ UNCHANGED <<ask, host, known, history>>

List(c) ==
    /\ Asking(c)
    /\ Reading(c, "list", NoRun, NoAsk)
    /\ UNCHANGED <<registry, host, known, watched>>

Listed(c) ==
    /\ HasRead(c, "list")
    /\ Return(c)
    /\ UNCHANGED <<registry, host, known, history>>

-----------------------------------------------------------------------------
(* start, under the lock.                                                   *)

LockFree == \A c \in Callers : call[c].op # "start"

\* Bound: the client asks while run ids are left.
Start(c, what) ==
    /\ Asking(c) /\ LockFree
    /\ \E r \in Runs : state[r] = "absent"
    /\ Reading(c, "start", NoRun, what)
    /\ UNCHANGED <<registry, host, known, watched>>

SameRequest(c) == {r \in Runs : call[c].read[r] # "absent" /\ call[c].ask.request # NoRequest
                                /\ ask[r].request = call[c].ask.request}
RepeatedActive(c) == \E r \in SameRequest(c) : call[c].read[r] \in Active
Repeated(c) == SameRequest(c) # {}
Busy(c) == {r \in Runs : call[c].read[r] \in Active /\ ask[r].writes}
RepoOverfull(c) == call[c].ask.writes /\ Cardinality(Busy(c)) > ParallelRuns
RepoBusy(c) == call[c].ask.writes /\ Cardinality(Busy(c)) >= ParallelRuns

\* The repeated run or RunInProgress, or a run id not taken.
Decide(c) ==
    /\ HasRead(c, "start")
    /\ \/ (Repeated(c) \/ RepoBusy(c)) /\ Return(c) /\ UNCHANGED known
       \/ /\ ~Repeated(c) /\ ~RepoBusy(c)
          /\ \E r \in Runs :
                /\ call[c].read[r] = "absent" /\ ~known[r].live
                /\ known' = [known EXCEPT ![r].launching = TRUE]
                /\ call' = [call EXCEPT ![c].at = "announcing", ![c].run = r,
                                        ![c].read = NoReading]
    /\ UNCHANGED <<registry, host, history>>

RecordStarting(c) ==
    /\ call[c].at = "announcing"
    /\ state' = [state EXCEPT ![call[c].run] = "starting"]
    /\ ask' = [ask EXCEPT ![call[c].run] = call[c].ask]
    /\ call' = [call EXCEPT ![c].at = "spawning", ![c].ask = NoAsk]
    /\ UNCHANGED <<host, known, history>>

\* The process starts, or FlowLaunchError is recorded if it can be.
Spawn(c) ==
    LET r == call[c].run
    IN  /\ call[c].at = "spawning"
        /\ \/ child' = [child EXCEPT ![r] = "alive"] /\ Goes(c, "reporting")
              /\ UNCHANGED <<state, known>>
           \/ /\ state' \in {state, [state EXCEPT ![r] = "ended"]} /\ Return(c)
              /\ known' = [known EXCEPT ![r].launching = FALSE]
              /\ UNCHANGED child
        /\ UNCHANGED <<ask, server, servers, history>>

RecordRunning(c) ==
    /\ call[c].at = "reporting"
    /\ state' = [state EXCEPT ![call[c].run] = "running"]
    /\ Goes(c, "reported")
    /\ UNCHANGED <<ask, host, known, history>>

Enter(c) ==
    LET r == call[c].run
    IN  /\ call[c].at = "reported"
        /\ known' = [known EXCEPT ![r].live = TRUE, ![r].launching = FALSE]
        /\ watched' = watched \cup {r}
        /\ Return(c)
        /\ UNCHANGED <<registry, host, calls>>

\* A spawn cut off has happened or not.
CutOffSpawns(S) ==
    \E T \in SUBSET {call[c].run : c \in {d \in S : call[d].at = "spawning"}} :
        child' = [r \in Runs |-> IF r \in T THEN "alive" ELSE child[r]]

\* The escalations run in `watchers`, not in the fiber of the call.
InTheCall(c, r) == IF r = call[c].run THEN "none" ELSE known[r].fiber
InWatchers(c, r) == known[r].fiber

\* A client gives up, or an append of its start fails.
Cancel(c) ==
    /\ call[c].at # "idle"
    /\ CutOffSpawns({c})
    /\ known' = [r \in Runs |-> [known[r] EXCEPT
                    !.launching = @ /\ ~(call[c].op = "start" /\ r = call[c].run),
                    !.fiber = InWatchers(c, r)]]
    /\ Return(c)
    /\ UNCHANGED <<registry, server, servers, history>>

-----------------------------------------------------------------------------
(* A run ends, and what watches it.                                         *)

ChildExits(r) ==
    /\ child[r] = "alive"
    /\ child' = [child EXCEPT ![r] = "gone"]
    /\ UNCHANGED <<registry, server, servers, known, call, history>>

\* watch: a failed append leaves the line as it was; the entry goes either way.
StillStopping(r) == known[r].stopping
NotStopping(r) == FALSE

Watch(r) ==
    /\ known[r].live /\ child[r] = "gone"
    /\ state' \in {state, [state EXCEPT ![r] = "ended"]}
    /\ known' = [known EXCEPT ![r].live = FALSE, ![r].stopping = NotStopping(r)]
    /\ UNCHANGED <<ask, host, call, history>>

-----------------------------------------------------------------------------
(* stop.                                                                    *)

\* Only the first stop of a live run forks its escalation.
EveryStop(r) == TRUE
FirstStop(r) == ~known[r].stopping
Stopped(r) == [known[r] EXCEPT !.stopping = TRUE, !.fiber = IF FirstStop(r) THEN "int" ELSE @]

Stop(c, r) ==
    /\ Asking(c) /\ state[r] # "absent"
    /\ IF known[r].live
       THEN known' = [known EXCEPT ![r] = Stopped(r)] /\ Waits(c, "stop", r, "awaiting final")
       ELSE UNCHANGED known /\ Reading(c, "stop", r, NoAsk)
    /\ UNCHANGED <<registry, host, watched>>

\* What the reading said of the run, and whether anybody watches it now.
StopKnown(c) ==
    LET r == call[c].run
    IN  /\ HasRead(c, "stop")
        /\ IF call[c].read[r] = "running" /\ Unwatched(r)
           THEN /\ Goes(c, "awaiting outcome")
                /\ known' = IF known[r].orphan # "none" THEN known
                            ELSE [known EXCEPT ![r].orphan = "pending", ![r].fiber = "int pid"]
           ELSE Return(c) /\ UNCHANGED known
        /\ UNCHANGED <<registry, host, history>>

\* The final record, or, both graces over, a last look at the registry.  The
\* first grace of a stop ends after that of the escalation it waits for.
AwaitFinal(c) ==
    LET r == call[c].run
    IN  /\ call[c].at = "awaiting final"
        /\ \/ ~known[r].live /\ Return(c)
           \/ known[r].live /\ known[r].fiber = "done" /\ Reading(c, "list", NoRun, NoAsk)
        /\ UNCHANGED <<registry, host, known, history>>

AwaitOutcome(c) ==
    LET r == call[c].run
    IN  /\ call[c].at = "awaiting outcome"
        /\ \/ known[r].orphan = "ended" /\ Return(c)
           \/ known[r].orphan = "ignored" /\ Reading(c, "list", NoRun, NoAsk)
        /\ UNCHANGED <<registry, host, known, history>>

Interrupted(r) == IF child[r] = "alive" THEN known[r].sigint + 1 ELSE known[r].sigint

\* escalate: SIGINT, and SIGTERM if the run is still live when the grace is over.
Escalate(r) ==
    /\ \/ /\ known[r].fiber = "int" /\ known[r].live
          /\ known' = [known EXCEPT ![r].fiber = "grace", ![r].sigint = Interrupted(r)]
       \/ /\ known[r].fiber \in {"int", "grace"} /\ ~known[r].live
          /\ known' = [known EXCEPT ![r].fiber = "done"]
       \/ /\ known[r].fiber = "grace" /\ known[r].live
          /\ known' = [known EXCEPT ![r].fiber = "done", ![r].sigterm = TRUE]
    /\ UNCHANGED <<registry, host, call, history>>

\* The outcome every stop of an orphan waits for: it is always completed.
OnlyIfGone(r, result) == IF result = "ended" THEN result ELSE known[r].orphan
Outcome(r, result) == result

\* escalateOrphan, by pid.
EscalateOrphan(r) ==
    /\ \/ /\ known[r].fiber = "int pid"
          /\ known' = [known EXCEPT ![r].fiber = "grace pid", ![r].sigint = Interrupted(r)]
          /\ UNCHANGED state
       \/ /\ known[r].fiber = "grace pid" /\ child[r] = "alive"
          /\ known' = [known EXCEPT ![r].fiber = "last pid", ![r].sigterm = TRUE]
          /\ UNCHANGED state
       \/ /\ known[r].fiber \in {"grace pid", "last pid"} /\ child[r] = "gone"
          /\ state' \in {state, [state EXCEPT ![r] = "ended"]}
          /\ known' = [known EXCEPT ![r].fiber = "done", ![r].orphan = Outcome(r, "ended")]
       \/ /\ known[r].fiber = "last pid" /\ child[r] = "alive"
          /\ known' = [known EXCEPT ![r].fiber = "done", ![r].orphan = Outcome(r, "ignored")]
          /\ UNCHANGED state
    /\ UNCHANGED <<ask, host, call, history>>

-----------------------------------------------------------------------------
(* The server.                                                              *)

Calling == {c \in Callers : call[c].at # "idle"}

\* Its first signal interrupts the calls, and the finalizer stops every live run.
Close ==
    /\ server = "up"
    /\ server' = "closing"
    /\ CutOffSpawns(Calling)
    /\ known' = [r \in Runs |-> [IF known[r].live THEN Stopped(r) ELSE known[r]
                                    EXCEPT !.launching = FALSE]]
    /\ call' = [c \in Callers |-> AtRest]
    /\ UNCHANGED <<registry, servers, history>>

Forgotten ==
    /\ server' = "down"
    /\ known' = [r \in Runs |-> Unknown]
    /\ call' = [c \in Callers |-> AtRest]
    /\ UNCHANGED <<registry, servers, history>>

\* The stops of the finalizer have ended, and every outcome is known.
Closed ==
    /\ server = "closing"
    /\ \A r \in Runs : (known[r].live => known[r].fiber = "done") /\ known[r].orphan # "pending"
    /\ Forgotten
    /\ UNCHANGED child

\* A second signal exits at once; so does a crash.
Crash ==
    /\ server # "down"
    /\ CutOffSpawns(Calling)
    /\ Forgotten

\* The next server marks the active runs whose child is gone, or never had a pid.
Boot ==
    /\ server = "down" /\ servers < MaxServers
    /\ server' = "up" /\ servers' = servers + 1
    /\ state' = [r \in Runs |->
                    IF state[r] = "starting" \/ (state[r] = "running" /\ child[r] # "alive")
                    THEN "ended" ELSE state[r]]
    /\ UNCHANGED <<ask, child, known, call, history>>

-----------------------------------------------------------------------------
Request(c) == List(c) \/ (\E what \in Asked[c] : Start(c, what)) \/ (\E r \in Runs : Stop(c, r))

Continue(c) ==
    \/ (\E r \in Runs : Reconcile(c, r)) \/ Listed(c)
    \/ Decide(c) \/ RecordStarting(c) \/ Spawn(c) \/ RecordRunning(c) \/ Enter(c)
    \/ StopKnown(c) \/ AwaitFinal(c) \/ AwaitOutcome(c)

Fibers(r) == Watch(r) \/ Escalate(r) \/ EscalateOrphan(r)

Next ==
    \/ \E c \in Callers : Request(c) \/ Continue(c) \/ Cancel(c)
    \/ \E r \in Runs : Fibers(r) \/ ChildExits(r)
    \/ Close \/ Closed \/ Crash \/ Boot

Spec == Init /\ [][Next]_vars

\* The server's fibers run and their timers fire.  Clients, children and whoever
\* stops the server do as they like.
FairSpec ==
    /\ Spec
    /\ \A c \in Callers : WF_vars(Continue(c))
    /\ \A r \in Runs : WF_vars(Fibers(r))
    /\ WF_vars(Closed)

-----------------------------------------------------------------------------
\* What the server may know of a run, and what a call may be doing.
Knowledge ==
    [live : BOOLEAN, launching : BOOLEAN, stopping : BOOLEAN,
     orphan : {"none", "pending", "ended", "ignored"},
     fiber : {"none", "int", "grace", "int pid", "grace pid", "last pid", "done"},
     sigint : Nat, sigterm : BOOLEAN]
CallStates ==
    [op : {"none", "list", "start", "stop"},
     at : {"idle", "reading", "announcing", "spawning", "reporting",
           "reported", "awaiting final", "awaiting outcome"},
     run : Runs \cup {NoRun}, read : [Runs -> States], todo : SUBSET Runs, ask : Asks]

\* Every variable keeps its type.
TypeOK ==
    /\ state \in [Runs -> States] /\ ask \in [Runs -> Asks]
    /\ child \in [Runs -> {"none", "alive", "gone"}]
    /\ server \in {"up", "closing", "down"} /\ servers \in 1..MaxServers
    /\ known \in [Runs -> Knowledge] /\ \A r \in Runs : known[r].stopping => known[r].live
    /\ call \in [Callers -> CallStates]
    /\ calls \in 0..MaxCalls /\ watched \subseteq Runs

Alive == {r \in Runs : child[r] = "alive"}

\* The flows that write to the repository, of the runs whose start came to its end
\* or is under way, are never more than the limit: whatever was read of the
\* registry before, and across a restart of the server.
WithinLimit ==
    Cardinality({r \in Alive : ask[r].writes /\ (r \in watched \/ known[r].launching)})
        <= ParallelRuns

\* A request id repeated by its client, in a row, at once or after a restart,
\* has started one process.
OneRunPerRequest ==
    \A q, r \in Runs : q # r /\ child[q] # "none" /\ child[r] # "none" =>
        ask[q].request = NoRequest \/ ask[q].request # ask[r].request

\* A server signals SIGINT to a run once, however many clients stop it and
\* whether it knows the run by its handle or by its pid: the second one would
\* kill the flow at once.
SignalledOnce == \A r \in Runs : known[r].sigint <= 1

\* The registry keeps RunLife's promise to its readers, for the runs whose start
\* was not cut off: a stale reading may change how a run ended, never that.
Life == [r \in Runs |-> IF state[r] = "running" /\ r \notin watched THEN "starting" ELSE state[r]]
Promise == INSTANCE RunLife WITH life <- Life
KeepsPromise == Promise!Spec

\* Every call ends, and so does a server told to close, though children ignore
\* every signal.
CallsEnd ==
    /\ \A c \in Callers : call[c].at # "idle" ~> call[c].at = "idle"
    /\ server = "closing" ~> server # "closing"

\* A run somebody asked to stop ends or is sent SIGTERM, though the caller that
\* asked first gives up: only the end of the server prevents it.
StopsAreSeenThrough ==
    \A r \in Runs :
        known[r].stopping \/ known[r].orphan = "pending" ~>
            child[r] = "gone" \/ known[r].sigterm \/ server = "down"

\* ADR 0041, decision 7: one writing run per repository.
OneWritingRun == Cardinality({r \in Alive : ask[r].writes}) <= ParallelRuns
=============================================================================
