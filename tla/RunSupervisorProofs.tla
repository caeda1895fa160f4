------------------------- MODULE RunSupervisorProofs -------------------------
(***************************************************************************)
(* Proofs about RunSupervisor, for any runs, clients, request ids and      *)
(* limit, and any number of calls and servers.                             *)
(***************************************************************************)
EXTENDS RunSupervisor, FiniteSetTheorems, TLAPS

LaunchPoints == {"announcing", "spawning", "reporting", "reported"}

\* A call is made of a server that is up; it holds the lock while it starts a run.
Calls ==
    \A c \in Callers :
        /\ call[c].at # "idle" => server = "up"
        /\ call[c].at \in LaunchPoints => call[c].op = "start"
        /\ call[c].op = "start" => call[c].at \in LaunchPoints \cup {"reading"}
        /\ call[c].op = "stop" => call[c].run \in Runs
OneStart == \A c, d \in Callers : call[c].op = "start" /\ call[d].op = "start" => c = d

\* How far the launch of a run has come: what is recorded of it, and its process.
Launches ==
    /\ \A r \in Runs : known[r].launching =>
           \E c \in Callers : call[c].at \in LaunchPoints /\ call[c].run = r
    /\ \A c \in Callers : call[c].at \in LaunchPoints =>
           /\ call[c].run \in Runs
           /\ known[call[c].run].launching
           /\ call[c].run \notin watched
           /\ call[c].at = "announcing" => state[call[c].run] = "absent"
           /\ call[c].at = "spawning" => state[call[c].run] = "starting" /\ child[call[c].run] = "none"
           /\ call[c].at = "reporting" => state[call[c].run] = "starting" /\ child[call[c].run] # "none"
           /\ call[c].at = "reported" => state[call[c].run] = "running" /\ child[call[c].run] # "none"

\* Nothing has been signalled to a run that is not recorded, or is being launched.
Untouched(r) ==
    /\ ~known[r].live /\ ~known[r].stopping /\ known[r].orphan = "none"
    /\ known[r].fiber = "none" /\ known[r].sigint = 0
Unborn ==
    \A r \in Runs :
        /\ state[r] = "absent" => child[r] = "none" /\ r \notin watched /\ Untouched(r)
        /\ known[r].launching => Untouched(r)

\* A run once live is called ended only when its process is gone.
Watches ==
    \A r \in Runs :
        /\ known[r].live => r \in watched
        /\ r \in watched => child[r] # "none" /\ state[r] \in {"running", "ended"}
        /\ r \in watched /\ child[r] = "alive" => state[r] = "running"

\* The fibers that signal a run by its pid, which the server does not watch.
ByPid == {"int pid", "grace pid", "last pid"}

\* A fiber that is still to signal SIGINT is the first to, or signals nobody.
Signalled(r) ==
    /\ known[r].sigint \in {0, 1}
    /\ known[r].live => known[r].orphan = "none" /\ known[r].fiber \notin ByPid
    /\ known[r].live /\ ~known[r].stopping => known[r].fiber = "none" /\ known[r].sigint = 0
    /\ known[r].live /\ known[r].fiber = "int" => known[r].sigint = 0
    /\ known[r].fiber = "int pid" =>
           known[r].orphan # "none" /\ (known[r].sigint = 0 \/ child[r] # "alive")
    /\ known[r].orphan = "none" /\ ~known[r].live /\ known[r].sigint # 0 => child[r] # "alive"
Signals == \A r \in Runs : Signalled(r)

\* What a reading of the registry still tells, though the registry went on.
Readings ==
    \A c \in Callers : call[c].at = "reading" => \A r \in Runs :
        /\ call[c].read[r] # "absent" => state[r] # "absent"
        /\ r \in call[c].todo => call[c].read[r] \in Active
        /\ call[c].read[r] = "starting" /\ r \in watched => known[r].live \/ child[r] = "gone"
        /\ call[c].op = "start" =>
               /\ call[c].read[r] = "absent" => state[r] = "absent"
               /\ r \in watched /\ child[r] = "alive" => call[c].read[r] = "running"

\* Two recorded runs are of different requests, and so is one that is about to be.
NewRequest(request) ==
    request = NoRequest \/ \A r \in Runs : state[r] # "absent" => ask[r].request # request
RequestsApart ==
    /\ \A q, r \in Runs : q # r /\ state[q] # "absent" /\ state[r] # "absent" =>
           ask[q].request = NoRequest \/ ask[q].request # ask[r].request
    /\ \A c \in Callers : call[c].at = "announcing" => NewRequest(call[c].ask.request)

\* The writing flows that are watched leave room for the one to be spawned.
Writing == {r \in Alive : ask[r].writes /\ r \in watched}
Room ==
    \A c \in Callers :
        /\ call[c].at = "announcing" /\ call[c].ask.writes => Cardinality(Writing) < ParallelRuns
        /\ call[c].at = "spawning" /\ ask[call[c].run].writes => Cardinality(Writing) < ParallelRuns

\* The inductive invariant.
Supervised ==
    /\ TypeOK /\ Calls /\ OneStart /\ Launches /\ Unborn /\ Watches /\ Signals /\ Readings
    /\ RequestsApart /\ Room /\ WithinLimit

\* The values a call starts from are of its type.
LEMMA CallTypes ==
  /\ NoAsk \in Asks /\ AtRest \in CallStates /\ NoReading \in [Runs -> States]
  /\ AtRest.op = "none" /\ AtRest.at = "idle" /\ AtRest.ask = NoAsk /\ AtRest.todo = {}
  /\ NoAsk.request = NoRequest /\ NoAsk.writes = FALSE
<1>1. NoAsk \in Asks
  BY DEF NoAsk, Asks
<1>2. NoReading \in [Runs -> States]
  BY DEF NoReading, States
<1>3. ASSUME NEW R \in [Runs -> States], NEW a \in Asks
      PROVE  [op |-> "none", at |-> "idle", run |-> NoRun, read |-> R, todo |-> {}, ask |-> a]
                 \in CallStates
  BY DEF CallStates
<1>. QED
  BY <1>1, <1>2, <1>3 DEF AtRest, NoAsk

\* A call that reads the registry is of its type.
LEMMA ReadingType ==
  ASSUME NEW op \in {"list", "start", "stop"}, NEW r \in Runs \cup {NoRun}, NEW what \in Asks,
         state \in [Runs -> States]
  PROVE  [op |-> op, at |-> "reading", run |-> r, read |-> state,
          todo |-> {q \in Runs : state[q] \in Active}, ask |-> what] \in CallStates
<1>1. ASSUME NEW T \in SUBSET Runs, NEW R \in [Runs -> States]
      PROVE  [op |-> op, at |-> "reading", run |-> r, read |-> R, todo |-> T, ask |-> what]
                 \in CallStates
  BY DEF CallStates
<1>2. {q \in Runs : state[q] \in Active} \in SUBSET Runs
  OBVIOUS
<1>. QED
  BY <1>1, <1>2


\* Fewer runs are counted as fewer, and one more run as one more.
LEMMA Counting ==
  ASSUME NEW S \in SUBSET Runs, NEW T \in SUBSET Runs
  PROVE  /\ Cardinality(S) \in Nat
         /\ S \subseteq T => Cardinality(S) <= Cardinality(T)
         /\ \A r \in Runs : S \subseteq T \cup {r} => Cardinality(S) <= Cardinality(T) + 1
<1>1. IsFiniteSet(Runs) /\ IsFiniteSet(S) /\ IsFiniteSet(T)
  BY SupervisorAssumption, FS_Subset
<1>2. Cardinality(S) \in Nat /\ Cardinality(T) \in Nat
  BY <1>1, FS_CardinalityType
<1>3. ASSUME S \subseteq T
      PROVE  Cardinality(S) <= Cardinality(T)
  BY <1>1, <1>3, FS_Subset
<1>4. ASSUME NEW r \in Runs, S \subseteq T \cup {r}
      PROVE  Cardinality(S) <= Cardinality(T) + 1
  <2>1. /\ IsFiniteSet(T \cup {r})
        /\ Cardinality(T \cup {r}) = IF r \in T THEN Cardinality(T) ELSE Cardinality(T) + 1
    BY <1>1, FS_AddElement
  <2>2. Cardinality(S) <= Cardinality(T \cup {r})
    BY <1>4, <2>1, FS_Subset
  <2>. QED
    BY <1>2, <2>1, <2>2
<1>. QED
  BY <1>2, <1>3, <1>4

\* The limit holds on when no run is added to those it counts.
LEMMA LimitKept ==
  ASSUME Supervised, UNCHANGED <<ask, watched>>,
         \A r \in Runs : child'[r] = "alive" /\ ask[r].writes /\ known'[r].launching /\ r \notin watched
                             => child[r] = "alive" /\ known[r].launching,
         \A r \in Runs : child'[r] = "alive" /\ r \in watched => child[r] = "alive"
  PROVE  WithinLimit'
<1> DEFINE W == {r \in Alive : ask[r].writes /\ (r \in watched \/ known[r].launching)}
<1>1. W \in SUBSET Runs /\ W' \in SUBSET Runs /\ W' \subseteq W
  BY DEF Alive
<1>2. Cardinality(W') \in Nat /\ Cardinality(W') <= Cardinality(W)
  BY <1>1, Counting
<1>3. Cardinality(W) \in Nat /\ Cardinality(W) <= ParallelRuns
  BY <1>1, Counting DEF Supervised, WithinLimit
<1>4. Cardinality(W') <= ParallelRuns
  BY <1>2, <1>3, SupervisorAssumption
<1>. QED
  BY <1>4 DEF WithinLimit, Alive

\* So does the room left for a run to be spawned.
LEMMA RoomKept ==
  ASSUME Supervised, UNCHANGED <<ask, watched>>,
         \A r \in Runs : child'[r] = "alive" /\ r \in watched => child[r] = "alive",
         \A c \in Callers : call'[c].at \in {"announcing", "spawning"} => call'[c] = call[c]
  PROVE  Room'
<1>1. Writing \in SUBSET Runs /\ Writing' \in SUBSET Runs /\ Writing' \subseteq Writing
  BY DEF Writing, Alive
<1>2. /\ Cardinality(Writing) \in Nat /\ Cardinality(Writing') \in Nat
      /\ Cardinality(Writing') <= Cardinality(Writing)
  BY <1>1, Counting
<1>3. ParallelRuns \in Nat
  BY SupervisorAssumption
<1>. QED
  BY <1>2, <1>3 DEF Room, Supervised

\* A call that only moves from a reading or a wait to one, or to its end, changes nothing else.
LEMMA CallMoves ==
  ASSUME Supervised, NEW c \in Callers, NEW k \in CallStates, call' = [call EXCEPT ![c] = k],
         UNCHANGED <<state, ask, child, server, servers, known, watched>>, calls' \in 0..MaxCalls,
         call[c].at \notin LaunchPoints, k.at \notin LaunchPoints,
         k.at # "idle" => server = "up", k.op = "stop" => k.run \in Runs,
         k.op = "start" => k.at = "reading" /\ LockFree,
         k.at = "reading" => k.read = state /\ k.todo = {q \in Runs : state[q] \in Active}
  PROVE  Supervised'
<1> USE DEF Supervised
<1>1. call'[c] = k /\ \A d \in Callers : d # c => call'[d] = call[d]
  BY DEF TypeOK
<1>2. TypeOK'
  BY DEF TypeOK
<1>3. Calls' /\ OneStart'
  BY <1>1 DEF Calls, OneStart, LockFree
<1>4. Launches'
  BY <1>1 DEF Launches, LaunchPoints
<1>5. Unborn' /\ Watches' /\ Signals'
  BY ZenonT(40) DEF Unborn, Watches, Signals, Signalled, ByPid, Untouched
<1>6. Readings'
  BY <1>1 DEF Readings, Watches
<1>7. RequestsApart'
  BY <1>1 DEF RequestsApart, NewRequest, LaunchPoints
<1>8. Room' /\ WithinLimit'
  BY <1>1, RoomKept, LimitKept DEF LaunchPoints
<1>. QED
  BY <1>2, <1>3, <1>4, <1>5, <1>6, <1>7, <1>8

\* What may signal a run is as it was.
LEMMA SignalledSame ==
  ASSUME NEW r \in Runs, Signalled(r),
         known'[r].live <=> known[r].live, known'[r].stopping <=> known[r].stopping,
         known'[r].orphan = known[r].orphan, known'[r].fiber = known[r].fiber,
         known'[r].sigint = known[r].sigint, child'[r] = "alive" => child[r] = "alive"
  PROVE  Signalled(r)'
<1>1. known'[r].sigint \in {0, 1}
  BY DEF Signalled
<1>2. known'[r].live => known'[r].orphan = "none" /\ known'[r].fiber \notin ByPid
  BY DEF Signalled
<1>3. known'[r].live /\ ~known'[r].stopping => known'[r].fiber = "none" /\ known'[r].sigint = 0
  BY DEF Signalled
<1>4. known'[r].live /\ known'[r].fiber = "int" => known'[r].sigint = 0
  BY DEF Signalled
<1>5. known'[r].fiber = "int pid" =>
            known'[r].orphan # "none" /\ (known'[r].sigint = 0 \/ child'[r] # "alive")
  BY DEF Signalled
<1>6. known'[r].orphan = "none" /\ ~known'[r].live /\ known'[r].sigint # 0 => child'[r] # "alive"
  BY DEF Signalled
<1>. QED
  BY <1>1, <1>2, <1>3, <1>4, <1>5, <1>6 DEF Signalled, ByPid

\* A run whose reconciling ends it is neither watched nor, if it was ever live, alive.
LEMMA ReconcileKeeps ==
  ASSUME Supervised, NEW c \in Callers, NEW r \in Runs, Reconcile(c, r)
  PROVE  Supervised'
<1> USE DEF Supervised
<1>0. /\ call \in [Callers -> CallStates] /\ call[c] \in CallStates /\ state \in [Runs -> States]
      /\ known \in [Runs -> Knowledge] /\ call[c].read \in [Runs -> States]
      /\ call[c].at = "reading" /\ r \in call[c].todo
      /\ UNCHANGED <<ask, child, server, servers, known, calls, watched>>
  BY DEF TypeOK, Reconcile, host, history, CallStates
<1>1. CASE /\ Unwatched(r) /\ (call[c].read[r] = "starting" \/ child[r] # "alive")
           /\ state' = [state EXCEPT ![r] = "ended"]
           /\ call' = [call EXCEPT ![c].todo = @ \ {r}, ![c].read[r] = "ended"]
  <2> DEFINE k == [call[c] EXCEPT !.todo = @ \ {r}, !.read[r] = "ended"]
  <2>1. k \in CallStates
    <3>1. [call[c].read EXCEPT ![r] = "ended"] \in [Runs -> States]
      BY <1>0 DEF States
    <3>2. \A t \in SUBSET Runs, R \in [Runs -> States] :
              [call[c] EXCEPT !.todo = t, !.read = R] \in CallStates
      BY <1>0 DEF CallStates
    <3>3. k = [call[c] EXCEPT !.todo = call[c].todo \ {r}, !.read = [call[c].read EXCEPT ![r] = "ended"]]
      BY <1>0 DEF CallStates
    <3>4. call[c].todo \ {r} \in SUBSET Runs
      BY <1>0 DEF CallStates
    <3>. QED
      BY <3>1, <3>2, <3>3, <3>4
  <2>2. call' = [call EXCEPT ![c] = k]
    BY <1>1
  <2>3. /\ k.op = call[c].op /\ k.at = "reading" /\ k.run = call[c].run /\ k.ask = call[c].ask
        /\ k.todo = call[c].todo \ {r} /\ k.read = [call[c].read EXCEPT ![r] = "ended"]
    BY <1>0 DEF CallStates
  <2> HIDE DEF k
  <2>4. TypeOK'
    BY <1>0, <1>1, <2>1, <2>2, ZenonT(40) DEF TypeOK, States
  <2>5. call'[c] = k /\ \A d \in Callers : d # c => call'[d] = call[d]
    BY <1>0, <2>2
  <2>6. state'[r] = "ended" /\ \A q \in Runs : q # r => state'[q] = state[q]
    BY <1>0, <1>1
  <2>7. ~known[r].live /\ ~known[r].launching /\ state[r] # "absent"
    BY <1>0, <1>1 DEF Unwatched, Readings, Active
  <2>8. r \in watched => child[r] # "alive"
    BY <1>0, <1>1, <2>7 DEF Readings
  <2>9. Calls' /\ OneStart'
    BY <1>0, <2>3, <2>5 DEF Calls, OneStart, LaunchPoints
  <2>10. Launches'
    BY <1>0, <2>3, <2>5, <2>6, <2>7 DEF Launches, LaunchPoints
  <2>11. Unborn' /\ Watches' /\ Signals'
    BY <1>0, <2>6, <2>7, <2>8, ZenonT(40) DEF Unborn, Watches, Signals, Signalled, ByPid, Untouched
  <2>12. Readings'
    BY <1>0, <2>3, <2>5, <2>6, <2>7, <2>8 DEF Readings, Active
  <2>13. RequestsApart'
    BY <1>0, <2>3, <2>5, <2>6, <2>7, <2>8 DEF RequestsApart, NewRequest
  <2>14. Room' /\ WithinLimit'
    BY <1>0, <2>3, <2>5 DEF Room, WithinLimit, Alive, Writing
  <2>. QED
    BY <2>4, <2>9, <2>10, <2>11, <2>12, <2>13, <2>14
<1>2. CASE Return(c) /\ UNCHANGED state
  BY <1>0, <1>2, CallTypes, CallMoves DEF Return, LaunchPoints, TypeOK
<1>3. CASE call' = [call EXCEPT ![c].todo = @ \ {r}] /\ UNCHANGED state
  <2> DEFINE k == [call[c] EXCEPT !.todo = @ \ {r}]
  <2>1. k \in CallStates /\ call' = [call EXCEPT ![c] = k]
    BY <1>0, <1>3 DEF CallStates
  <2>2. /\ k.op = call[c].op /\ k.at = "reading" /\ k.run = call[c].run /\ k.ask = call[c].ask
        /\ k.todo = call[c].todo \ {r} /\ k.read = call[c].read
    BY <1>0 DEF CallStates
  <2> HIDE DEF k
  <2>3. call'[c] = k /\ \A d \in Callers : d # c => call'[d] = call[d]
    BY <1>0, <2>1
  <2>4. TypeOK'
    BY <1>0, <1>3, <2>1 DEF TypeOK
  <2>5. Calls' /\ OneStart' /\ Launches'
    BY <1>0, <1>3, <2>2, <2>3 DEF Calls, OneStart, Launches, LaunchPoints
  <2>6. Unborn' /\ Watches' /\ Signals'
    BY <1>0, <1>3, ZenonT(40) DEF Unborn, Watches, Signals, Signalled, ByPid, Untouched
  <2>7. Readings' /\ RequestsApart'
    BY <1>0, <1>3, <2>2, <2>3 DEF Readings, RequestsApart, NewRequest
  <2>8. Room' /\ WithinLimit'
    BY <1>0, <2>2, <2>3, RoomKept, LimitKept
  <2>. QED
    BY <2>4, <2>5, <2>6, <2>7, <2>8
<1>. QED
  BY <1>1, <1>2, <1>3 DEF Reconcile

\* Calls that begin by reading the registry.
LEMMA ReadingKeeps ==
  ASSUME Supervised, NEW c \in Callers, NEW op \in {"list", "start", "stop"},
         NEW r \in Runs \cup {NoRun}, NEW what \in Asks, Reading(c, op, r, what),
         UNCHANGED <<state, ask, child, server, servers, known, watched>>, calls' \in 0..MaxCalls,
         server = "up", call[c].at \notin LaunchPoints,
         op = "start" => LockFree, op = "stop" => r \in Runs
  PROVE  Supervised'
<1> DEFINE k == [op |-> op, at |-> "reading", run |-> r, read |-> state,
                 todo |-> {q \in Runs : state[q] \in Active}, ask |-> what]
<1>1. k \in CallStates /\ call' = [call EXCEPT ![c] = k]
  BY ReadingType DEF Supervised, TypeOK, Reading
<1>2. /\ k.op = op /\ k.at = "reading" /\ k.run = r /\ k.read = state
      /\ k.todo = {q \in Runs : state[q] \in Active}
  OBVIOUS
<1> HIDE DEF k
<1>. QED
  BY <1>1, <1>2, CallMoves DEF LaunchPoints

\* Calls that end without having launched anything.
LEMMA ReturnKeeps ==
  ASSUME Supervised, NEW c \in Callers, Return(c), calls' \in 0..MaxCalls,
         UNCHANGED <<state, ask, child, server, servers, known, watched>>,
         call[c].at \notin LaunchPoints
  PROVE  Supervised'
BY CallTypes, CallMoves DEF Return, LaunchPoints

\* A stop of a live run: the first of them has the run signalled.
LEMMA StopLiveKeeps ==
  ASSUME Supervised, NEW c \in Callers, NEW r \in Runs, Stop(c, r), known[r].live
  PROVE  Supervised'
<1> USE DEF Supervised
<1>1. /\ known \in [Runs -> Knowledge] /\ call \in [Callers -> CallStates] /\ call[c].at = "idle"
      /\ server = "up" /\ calls' \in 0..MaxCalls
      /\ UNCHANGED <<state, ask, child, server, servers, watched>>
      /\ known' = [known EXCEPT ![r] = Stopped(r)]
      /\ call' = [call EXCEPT ![c] = [AtRest EXCEPT !.op = "stop", !.run = r, !.at = "awaiting final"]]
  BY SupervisorAssumption DEF TypeOK, Stop, Asking, Waits, registry, host
<1> DEFINE k == [AtRest EXCEPT !.op = "stop", !.run = r, !.at = "awaiting final"]
<1>2. k \in CallStates /\ k.op = "stop" /\ k.run = r /\ k.at = "awaiting final"
  BY CallTypes DEF CallStates
<1> HIDE DEF k
<1>3. call'[c] = k /\ \A d \in Callers : d # c => call'[d] = call[d]
  BY <1>1, <1>2 DEF k
<1>4. /\ Stopped(r) \in Knowledge /\ Stopped(r).live /\ Stopped(r).stopping
      /\ Stopped(r).launching = known[r].launching /\ Stopped(r).orphan = known[r].orphan
      /\ Stopped(r).sigint = known[r].sigint
      /\ Stopped(r).fiber = IF known[r].stopping THEN known[r].fiber ELSE "int"
  BY <1>1, Zenon DEF Stopped, FirstStop, Knowledge
<1>5. known'[r] = Stopped(r) /\ \A q \in Runs : q # r => known'[q] = known[q]
  BY <1>1
<1>6. TypeOK'
  BY <1>1, <1>2, <1>4, <1>5 DEF TypeOK, k
<1>7. Calls' /\ OneStart'
  BY <1>1, <1>2, <1>3, Zenon DEF Calls, OneStart, LaunchPoints
<1>8. Launches'
  BY <1>1, <1>2, <1>3, <1>4, <1>5, ZenonT(40) DEF Launches, LaunchPoints
<1>9. Unborn'
  BY <1>1, <1>4, <1>5 DEF Unborn, Untouched
<1>10. Watches'
  BY <1>1, <1>4, <1>5 DEF Watches
<1>11. Signals'
  <2>1. ASSUME NEW q \in Runs, q # r
        PROVE  Signalled(q)'
    BY <1>1, <1>5, <2>1 DEF Signals, Signalled, ByPid
  <2>2. Signalled(r)'
    BY <1>1, <1>4, <1>5, ZenonT(40) DEF Signals, Signalled, ByPid
  <2>. QED
    BY <2>1, <2>2 DEF Signals
<1>12. Readings'
  <2>1. \A q \in Runs : known[q].live => known'[q].live
    BY <1>4, <1>5
  <2>. QED
    BY <1>1, <1>2, <1>3, <2>1, ZenonT(40) DEF Readings
<1>13. RequestsApart'
  <2>1. \A d \in Callers : call'[d].at = "announcing" => call'[d] = call[d]
    BY <1>2, <1>3
  <2>. QED
    BY <1>1, <2>1 DEF RequestsApart, NewRequest
<1>14. Room' /\ WithinLimit'
  BY <1>1, <1>2, <1>3, <1>4, <1>5, RoomKept, LimitKept
<1>. QED
  BY <1>6, <1>7, <1>8, <1>9, <1>10, <1>11, <1>12, <1>13, <1>14

\* What a client asks for.
LEMMA RequestKeeps ==
  ASSUME Supervised, NEW c \in Callers, Request(c)
  PROVE  Supervised'
<1>1. Asking(c) => calls' \in 0..MaxCalls /\ server = "up" /\ call[c].at \notin LaunchPoints
  BY SupervisorAssumption DEF Asking, Supervised, TypeOK, LaunchPoints
<1>2. CASE List(c)
  <2>1. /\ Asking(c) /\ Reading(c, "list", NoRun, NoAsk)
        /\ UNCHANGED <<state, ask, child, server, servers, known, watched>>
    BY <1>2 DEF List, registry, host
  <2>. QED
    BY <1>1, <2>1, CallTypes, ReadingKeeps
<1>3. ASSUME NEW what \in Asked[c], Start(c, what)
      PROVE  Supervised'
  <2>1. /\ Asking(c) /\ Reading(c, "start", NoRun, what) /\ LockFree
        /\ UNCHANGED <<state, ask, child, server, servers, known, watched>>
    BY <1>3 DEF Start, registry, host
  <2>2. what \in Asks
    BY SupervisorAssumption
  <2>. QED
    BY <1>1, <2>1, <2>2, ReadingKeeps
<1>4. ASSUME NEW r \in Runs, Stop(c, r)
      PROVE  Supervised'
  <2>1. CASE known[r].live
    BY <1>4, <2>1, StopLiveKeeps
  <2>2. CASE ~known[r].live
    <3>1. /\ Asking(c) /\ Reading(c, "stop", r, NoAsk)
          /\ UNCHANGED <<state, ask, child, server, servers, known, watched>>
      BY <1>4, <2>2 DEF Stop, registry, host
    <3>. QED
      BY <1>1, <3>1, CallTypes, ReadingKeeps
  <2>. QED
    BY <2>1, <2>2
<1>. QED
  BY <1>2, <1>3, <1>4 DEF Request

\* A start that is neither repeated nor refused takes a run id that is free: its request
\* is of no other run, and the runs that are watched leave room for it.
LEMMA DecideKeeps ==
  ASSUME Supervised, NEW c \in Callers, Decide(c)
  PROVE  Supervised'
<1> USE DEF Supervised
<1>1. /\ known \in [Runs -> Knowledge] /\ call \in [Callers -> CallStates] /\ call[c] \in CallStates
      /\ call[c].at = "reading" /\ call[c].op = "start" /\ call[c].todo = {} /\ server = "up"
      /\ calls' \in 0..MaxCalls /\ call[c].at \notin LaunchPoints /\ call[c].ask \in Asks
      /\ UNCHANGED <<state, ask, child, server, servers, watched>>
  BY DEF TypeOK, Calls, Decide, HasRead, registry, host, history, LaunchPoints, CallStates
<1>2. CASE Return(c) /\ UNCHANGED known
  BY <1>1, <1>2, ReturnKeeps
<1>3. ASSUME ~Repeated(c), ~RepoBusy(c), NEW r \in Runs, call[c].read[r] = "absent", ~known[r].live,
             known' = [known EXCEPT ![r].launching = TRUE],
             call' = [call EXCEPT ![c].at = "announcing", ![c].run = r, ![c].read = NoReading]
      PROVE  Supervised'
  <2> DEFINE k == [call[c] EXCEPT !.at = "announcing", !.run = r, !.read = NoReading]
  <2>1. k \in CallStates /\ call' = [call EXCEPT ![c] = k]
    BY <1>1, <1>3, CallTypes DEF CallStates
  <2>2. k.op = "start" /\ k.at = "announcing" /\ k.run = r /\ k.ask = call[c].ask
    BY <1>1 DEF CallStates
  <2> HIDE DEF k
  <2>3. call'[c] = k /\ \A d \in Callers : d # c => call'[d] = call[d]
    BY <1>1, <2>1
  <2>4. /\ known'[r] \in Knowledge /\ known'[r].launching /\ known'[r].live = known[r].live
        /\ known'[r].stopping = known[r].stopping /\ known'[r].orphan = known[r].orphan
        /\ known'[r].fiber = known[r].fiber /\ known'[r].sigint = known[r].sigint
        /\ \A q \in Runs : q # r => known'[q] = known[q]
    BY <1>1, <1>3, Zenon DEF Knowledge
  <2>5. TypeOK'
    <3>1. known' \in [Runs -> Knowledge]
      BY <1>1, <1>3, ZenonT(40) DEF Knowledge
    <3>2. \A q \in Runs : known'[q].stopping => known'[q].live
      BY <2>4 DEF TypeOK
    <3>. QED
      BY <1>1, <2>1, <3>1, <3>2 DEF TypeOK
  <2>6. state[r] = "absent" /\ child[r] = "none" /\ r \notin watched /\ Untouched(r)
    BY <1>1, <1>3 DEF Readings, Unborn
  <2>7. \A d \in Callers : d # c => call[d].op # "start" /\ call[d].at \notin LaunchPoints
    BY <1>1 DEF OneStart, Calls, LaunchPoints
  <2>8. Calls' /\ OneStart'
    BY <1>1, <2>2, <2>3, <2>7 DEF Calls, OneStart, LaunchPoints
  <2>9. Launches'
    BY <1>1, <2>2, <2>3, <2>4, <2>6, <2>7 DEF Launches, LaunchPoints
  <2>10. Unborn'
    BY <1>1, <2>4, <2>6 DEF Unborn, Untouched
  <2>11. Watches'
    BY <1>1, <2>4 DEF Watches
  <2>12. Signals'
    <3>1. ASSUME NEW q \in Runs, q # r
          PROVE  Signalled(q)'
      BY <1>1, <2>4, <3>1, ZenonT(40) DEF Signals, Signalled, ByPid
    <3>2. Signalled(r)'
      BY <1>1, <2>4, <2>6 DEF Signalled, ByPid, Untouched
    <3>. QED
      BY <3>1, <3>2 DEF Signals
  <2>13. Readings'
    BY <1>1, <2>2, <2>3, <2>4 DEF Readings
  <2>14. NewRequest(call[c].ask.request)
    <3>1. \A q \in Runs : state[q] # "absent" => call[c].read[q] # "absent"
      BY <1>1 DEF Readings
    <3>. QED
      BY <1>3, <3>1 DEF NewRequest, Repeated, SameRequest
  <2>15. RequestsApart'
    BY <1>1, <2>2, <2>3, <2>7, <2>14 DEF RequestsApart, NewRequest, LaunchPoints
  <2>16. call[c].ask.writes => Cardinality(Writing) < ParallelRuns
    <3>1. Writing \subseteq Busy(c) /\ Writing \in SUBSET Runs /\ Busy(c) \in SUBSET Runs
      BY <1>1 DEF Writing, Busy, Alive, Readings, Active
    <3>2. /\ Cardinality(Writing) \in Nat /\ Cardinality(Busy(c)) \in Nat
          /\ Cardinality(Writing) <= Cardinality(Busy(c))
      BY <3>1, Counting
    <3>3. ParallelRuns \in Nat
      BY SupervisorAssumption
    <3>4. call[c].ask.writes => ~(Cardinality(Busy(c)) >= ParallelRuns)
      BY <1>3 DEF RepoBusy
    <3>. QED
      BY <3>2, <3>3, <3>4
  <2>17. Room'
    <3>1. Writing' = Writing
      BY <1>1 DEF Writing, Alive
    <3>2. \A d \in Callers : d # c => call'[d].at \notin {"announcing", "spawning"}
      BY <2>3, <2>7 DEF LaunchPoints
    <3>. QED
      BY <2>2, <2>3, <2>16, <3>1, <3>2 DEF Room
  <2>18. WithinLimit'
    BY <1>1, <2>4, <2>6, LimitKept
  <2>. QED
    BY <2>5, <2>8, <2>9, <2>10, <2>11, <2>12, <2>13, <2>15, <2>17, <2>18
<1>. QED
  BY <1>2, <1>3 DEF Decide

\* The run id is taken in the registry, and with it the request.
LEMMA RecordStartingKeeps ==
  ASSUME Supervised, NEW c \in Callers, RecordStarting(c)
  PROVE  Supervised'
<1> USE DEF Supervised
<1> DEFINE r == call[c].run
           k == [call[c] EXCEPT !.at = "spawning", !.ask = NoAsk]
<1>1. /\ known \in [Runs -> Knowledge] /\ call \in [Callers -> CallStates] /\ call[c] \in CallStates
      /\ state \in [Runs -> States] /\ ask \in [Runs -> Asks]
      /\ call[c].at = "announcing" /\ call[c].op = "start" /\ server = "up" /\ call[c].ask \in Asks
      /\ UNCHANGED <<child, server, servers, known, calls, watched>>
      /\ state' = [state EXCEPT ![r] = "starting"] /\ ask' = [ask EXCEPT ![r] = call[c].ask]
  BY DEF TypeOK, Calls, RecordStarting, host, history, LaunchPoints, CallStates
<1>2. k \in CallStates /\ call' = [call EXCEPT ![c] = k]
  BY <1>1, CallTypes, Zenon DEF CallStates, RecordStarting
<1>3. k.op = "start" /\ k.at = "spawning" /\ k.run = r
  BY <1>1 DEF CallStates
<1>4. /\ r \in Runs /\ known[r].launching /\ r \notin watched
      /\ state[r] = "absent" /\ child[r] = "none" /\ Untouched(r)
  BY <1>1 DEF Launches, LaunchPoints, Unborn
<1> HIDE DEF k, r
<1>5. call'[c] = k /\ \A d \in Callers : d # c => call'[d] = call[d]
  BY <1>1, <1>2
<1>6. /\ state'[r] = "starting" /\ \A q \in Runs : q # r => state'[q] = state[q]
      /\ ask'[r] = call[c].ask /\ \A q \in Runs : q # r => ask'[q] = ask[q]
  BY <1>1, <1>4
<1>7. \A d \in Callers : d # c => call[d].op # "start" /\ call[d].at \notin LaunchPoints
  BY <1>1 DEF OneStart, Calls
<1>8. TypeOK'
  BY <1>1, <1>2, <1>4 DEF TypeOK, States
<1>9. Calls' /\ OneStart'
  BY <1>1, <1>3, <1>5 DEF Calls, OneStart, LaunchPoints
<1>10. Launches'
  BY <1>1, <1>3, <1>4, <1>5, <1>6, <1>7 DEF Launches, LaunchPoints, r
<1>11. Unborn'
  BY <1>1, <1>4, <1>6 DEF Unborn, Untouched
<1>12. Watches' /\ Signals'
  BY <1>1, <1>4, <1>6, Zenon DEF Watches, Signals, Signalled, ByPid
<1>13. Readings'
  BY <1>1, <1>3, <1>4, <1>5, <1>6, <1>7 DEF Readings
<1>14. NewRequest(call[c].ask.request)
  BY <1>1 DEF RequestsApart
<1>15. RequestsApart'
  <2>1. \A q \in Runs : q # r /\ state[q] # "absent" =>
            call[c].ask.request = NoRequest \/ ask[q].request # call[c].ask.request
    BY <1>14 DEF NewRequest
  <2>2. \A d \in Callers : call'[d].at # "announcing"
    BY <1>3, <1>5, <1>7 DEF LaunchPoints
  <2>3. \A p, q \in Runs : p # q /\ state'[p] # "absent" /\ state'[q] # "absent" =>
            ask'[p].request = NoRequest \/ ask'[p].request # ask'[q].request
    BY <1>6, <2>1 DEF RequestsApart
  <2>. QED
    BY <2>2, <2>3 DEF RequestsApart
<1>16. Writing' = Writing
  BY <1>1, <1>4, <1>6 DEF Writing, Alive
<1>17. Room'
  <2>1. \A d \in Callers : d # c => call'[d].at \notin {"announcing", "spawning"}
    BY <1>5, <1>7 DEF LaunchPoints
  <2>2. call[c].ask.writes => Cardinality(Writing) < ParallelRuns
    BY <1>1 DEF Room
  <2>. QED
    BY <1>3, <1>5, <1>6, <1>16, <2>1, <2>2 DEF Room
<1>18. WithinLimit'
  <2>1. {q \in Alive : ask[q].writes /\ (q \in watched \/ known[q].launching)}'
          = {q \in Alive : ask[q].writes /\ (q \in watched \/ known[q].launching)}
    BY <1>1, <1>4, <1>6 DEF Alive
  <2>. QED
    BY <2>1 DEF WithinLimit
<1>. QED
  BY <1>8, <1>9, <1>10, <1>11, <1>12, <1>13, <1>15, <1>17, <1>18

\* The process starts, and is the run's only one.
LEMMA SpawnedKeeps ==
  ASSUME Supervised, NEW c \in Callers, Spawn(c),
         child' = [child EXCEPT ![call[c].run] = "alive"], Goes(c, "reporting"),
         UNCHANGED <<state, known>>
  PROVE  Supervised'
<1> USE DEF Supervised
<1> DEFINE r == call[c].run
           k == [call[c] EXCEPT !.at = "reporting", !.read = NoReading]
<1>1. /\ known \in [Runs -> Knowledge] /\ call \in [Callers -> CallStates] /\ call[c] \in CallStates
      /\ child \in [Runs -> {"none", "alive", "gone"}]
      /\ call[c].at = "spawning" /\ call[c].op = "start" /\ server = "up"
      /\ UNCHANGED <<state, ask, server, servers, known, calls, watched>>
      /\ child' = [child EXCEPT ![r] = "alive"]
  BY DEF TypeOK, Calls, Spawn, history, LaunchPoints
<1>2. k \in CallStates /\ call' = [call EXCEPT ![c] = k]
  BY <1>1, CallTypes, Zenon DEF CallStates, Goes
<1>3. k.op = "start" /\ k.at = "reporting" /\ k.run = r
  BY <1>1 DEF CallStates
<1>4. /\ r \in Runs /\ known[r].launching /\ r \notin watched
      /\ state[r] = "starting" /\ child[r] = "none" /\ Untouched(r)
  BY <1>1 DEF Launches, LaunchPoints, Unborn
<1> HIDE DEF k, r
<1>5. call'[c] = k /\ \A d \in Callers : d # c => call'[d] = call[d]
  BY <1>1, <1>2
<1>6. child'[r] = "alive" /\ \A q \in Runs : q # r => child'[q] = child[q]
  BY <1>1, <1>4
<1>7. \A d \in Callers : d # c => call[d].op # "start" /\ call[d].at \notin LaunchPoints
  BY <1>1 DEF OneStart, Calls
<1>8. TypeOK'
  BY <1>1, <1>2, <1>4 DEF TypeOK
<1>9. Calls' /\ OneStart'
  BY <1>1, <1>3, <1>5 DEF Calls, OneStart, LaunchPoints
<1>10. Launches'
  BY <1>1, <1>3, <1>4, <1>5, <1>6, <1>7 DEF Launches, LaunchPoints, r
<1>11. Unborn' /\ Watches'
  BY <1>1, <1>4, <1>6 DEF Unborn, Untouched, Watches
<1>12. Signals'
  <2>1. ASSUME NEW q \in Runs, q # r
        PROVE  Signalled(q)'
    BY <1>1, <1>6, <2>1, ZenonT(40) DEF Signals, Signalled, ByPid
  <2>2. /\ known'[r].sigint = 0 /\ ~known'[r].live /\ known'[r].fiber = "none"
    BY <1>1, <1>4 DEF Untouched
  <2>3. ASSUME NEW q \in Runs, q = r
        PROVE  Signalled(q)'
    BY <2>2, <2>3 DEF Signalled, ByPid
  <2>. QED
    BY <2>1, <2>3 DEF Signals
<1>13. Readings'
  BY <1>1, <1>3, <1>4, <1>5, <1>6, <1>7 DEF Readings
<1>14. RequestsApart'
  BY <1>1, <1>3, <1>5 DEF RequestsApart, NewRequest
<1>15. Room'
  BY <1>3, <1>5, <1>7 DEF Room, LaunchPoints
<1>16. WithinLimit'
  <2> DEFINE W == {q \in Alive : ask[q].writes /\ (q \in watched \/ known[q].launching)}
  <2>1. \A q \in Runs : known[q].launching => q = r
    BY <1>7 DEF Launches, r
  <2>2. W \in SUBSET Runs /\ W' \in SUBSET Runs /\ Writing \in SUBSET Runs
    BY DEF Alive, Writing
  <2>3. CASE ask[r].writes
    <3>1. W' \subseteq Writing \cup {r}
      BY <1>1, <1>6, <2>1 DEF Alive, Writing
    <3>2. Cardinality(Writing) < ParallelRuns
      BY <1>1, <2>3 DEF Room, r
    <3>3. /\ Cardinality(W') \in Nat /\ Cardinality(Writing) \in Nat
          /\ Cardinality(W') <= Cardinality(Writing) + 1
      BY <1>4, <2>2, <3>1, Counting
    <3>4. Cardinality(W') <= ParallelRuns
      BY <3>2, <3>3, SupervisorAssumption
    <3>. QED
      BY <3>4 DEF WithinLimit, Alive
  <2>4. CASE ~ask[r].writes
    <3>1. W' \subseteq W
      BY <1>1, <1>6, <2>1, <2>4 DEF Alive
    <3>2. /\ Cardinality(W') \in Nat /\ Cardinality(W) \in Nat
          /\ Cardinality(W') <= Cardinality(W)
      BY <2>2, <3>1, Counting
    <3>3. Cardinality(W) <= ParallelRuns
      BY DEF WithinLimit
    <3>4. Cardinality(W') <= ParallelRuns
      BY <3>2, <3>3, SupervisorAssumption
    <3>. QED
      BY <3>4 DEF WithinLimit, Alive
  <2>. QED
    BY <2>3, <2>4
<1>. QED
  BY <1>8, <1>9, <1>10, <1>11, <1>12, <1>13, <1>14, <1>15, <1>16

\* The registry has the pid of the process.
LEMMA RecordRunningKeeps ==
  ASSUME Supervised, NEW c \in Callers, RecordRunning(c)
  PROVE  Supervised'
<1> USE DEF Supervised
<1> DEFINE r == call[c].run
           k == [call[c] EXCEPT !.at = "reported", !.read = NoReading]
<1>1. /\ known \in [Runs -> Knowledge] /\ call \in [Callers -> CallStates] /\ call[c] \in CallStates
      /\ state \in [Runs -> States]
      /\ call[c].at = "reporting" /\ call[c].op = "start" /\ server = "up"
      /\ UNCHANGED <<ask, child, server, servers, known, calls, watched>>
      /\ state' = [state EXCEPT ![r] = "running"]
  BY DEF TypeOK, Calls, RecordRunning, host, history, LaunchPoints
<1>2. k \in CallStates /\ call' = [call EXCEPT ![c] = k]
  BY <1>1, CallTypes, Zenon DEF CallStates, Goes, RecordRunning
<1>3. k.op = "start" /\ k.at = "reported" /\ k.run = r
  BY <1>1 DEF CallStates
<1>4. /\ r \in Runs /\ known[r].launching /\ r \notin watched
      /\ state[r] = "starting" /\ child[r] # "none" /\ Untouched(r)
  BY <1>1 DEF Launches, LaunchPoints, Unborn
<1> HIDE DEF k, r
<1>5. call'[c] = k /\ \A d \in Callers : d # c => call'[d] = call[d]
  BY <1>1, <1>2
<1>6. state'[r] = "running" /\ \A q \in Runs : q # r => state'[q] = state[q]
  BY <1>1, <1>4
<1>7. \A d \in Callers : d # c => call[d].op # "start" /\ call[d].at \notin LaunchPoints
  BY <1>1 DEF OneStart, Calls
<1>8. TypeOK'
  BY <1>1, <1>2, <1>4 DEF TypeOK, States
<1>9. Calls' /\ OneStart'
  BY <1>1, <1>3, <1>5 DEF Calls, OneStart, LaunchPoints
<1>10. Launches'
  BY <1>1, <1>3, <1>4, <1>5, <1>6, <1>7 DEF Launches, LaunchPoints, r
<1>11. Unborn' /\ Watches'
  BY <1>1, <1>4, <1>6 DEF Unborn, Untouched, Watches
<1>12. Signals'
  BY <1>1 DEF Signals, Signalled, ByPid
<1>13. Readings'
  BY <1>1, <1>3, <1>4, <1>5, <1>6, <1>7 DEF Readings
<1>14. RequestsApart'
  BY <1>1, <1>3, <1>4, <1>5, <1>6, <1>7 DEF RequestsApart, NewRequest, LaunchPoints
<1>15. Room' /\ WithinLimit'
  BY <1>1, <1>3, <1>5, RoomKept, LimitKept
<1>. QED
  BY <1>8, <1>9, <1>10, <1>11, <1>12, <1>13, <1>14, <1>15

\* The run is watched from here on, and its launch over.
LEMMA EnterKeeps ==
  ASSUME Supervised, NEW c \in Callers, Enter(c)
  PROVE  Supervised'
<1> USE DEF Supervised
<1> DEFINE r == call[c].run
<1>1. /\ known \in [Runs -> Knowledge] /\ call \in [Callers -> CallStates]
      /\ call[c].at = "reported" /\ call[c].op = "start" /\ server = "up"
      /\ UNCHANGED <<state, ask, child, server, servers, calls>>
      /\ known' = [known EXCEPT ![r].live = TRUE, ![r].launching = FALSE]
      /\ watched' = watched \cup {r} /\ call' = [call EXCEPT ![c] = AtRest]
  BY DEF TypeOK, Calls, Enter, registry, host, LaunchPoints, Return
<1>2. /\ r \in Runs /\ known[r].launching /\ r \notin watched
      /\ state[r] = "running" /\ child[r] # "none" /\ Untouched(r)
  BY <1>1 DEF Launches, LaunchPoints, Unborn
<1> HIDE DEF r
<1>3. call'[c] = AtRest /\ \A d \in Callers : d # c => call'[d] = call[d]
  BY <1>1
<1>4. /\ known'[r] \in Knowledge /\ ~known'[r].launching /\ known'[r].live
      /\ known'[r].stopping = known[r].stopping /\ known'[r].orphan = known[r].orphan
      /\ known'[r].fiber = known[r].fiber /\ known'[r].sigint = known[r].sigint
      /\ \A q \in Runs : q # r => known'[q] = known[q]
  BY <1>1, <1>2, Zenon DEF Knowledge
<1>5. \A d \in Callers : d # c => call[d].op # "start" /\ call[d].at \notin LaunchPoints
  BY <1>1 DEF OneStart, Calls
<1>6. TypeOK'
  <2> DEFINE n == [known[r] EXCEPT !.live = TRUE, !.launching = FALSE]
  <2>1. n \in Knowledge
    BY <1>1, <1>2, Zenon DEF Knowledge
  <2>2. known' = [known EXCEPT ![r] = n]
    BY <1>1
  <2> HIDE DEF n
  <2>3. known' \in [Runs -> Knowledge]
    BY <1>1, <2>1, <2>2
  <2>4. \A q \in Runs : known'[q].stopping => known'[q].live
    BY <1>4 DEF TypeOK
  <2>. QED
    BY <1>1, <1>2, <2>3, <2>4, CallTypes DEF TypeOK
<1>7. Calls' /\ OneStart'
  BY <1>1, <1>3, <1>5, CallTypes DEF Calls, OneStart, LaunchPoints
<1>8. Launches'
  <2>1. \A q \in Runs : ~known'[q].launching
    BY <1>4, <1>5 DEF Launches, r
  <2>2. \A d \in Callers : call'[d].at \notin LaunchPoints
    BY <1>3, <1>5, CallTypes DEF LaunchPoints
  <2>. QED
    BY <2>1, <2>2 DEF Launches
<1>9. Unborn'
  BY <1>1, <1>2, <1>4 DEF Unborn, Untouched
<1>10. Watches'
  BY <1>1, <1>2, <1>4 DEF Watches
<1>11. Signals'
  <2>1. ASSUME NEW q \in Runs, q # r
        PROVE  Signalled(q)'
    BY <1>1, <1>4, <2>1, Zenon DEF Signals, Signalled, ByPid
  <2>2. /\ known'[r].sigint = 0 /\ known'[r].fiber = "none" /\ known'[r].orphan = "none"
    BY <1>2, <1>4 DEF Untouched
  <2>3. ASSUME NEW q \in Runs, q = r
        PROVE  Signalled(q)'
    BY <1>4, <2>2, <2>3 DEF Signalled, ByPid
  <2>. QED
    BY <2>1, <2>3 DEF Signals
<1>12. Readings'
  <2>1. \A d \in Callers : call'[d].at = "reading" => call'[d] = call[d] /\ call[d].op # "start"
    BY <1>3, <1>5, CallTypes
  <2>2. \A q \in Runs : known[q].live => known'[q].live
    BY <1>4
  <2>. QED
    BY <1>1, <1>4, <2>1, <2>2 DEF Readings
<1>13. RequestsApart'
  BY <1>1, <1>3, CallTypes DEF RequestsApart, NewRequest
<1>14. Room'
  BY <1>3, <1>5, CallTypes DEF Room, LaunchPoints
<1>15. WithinLimit'
  <2> DEFINE W == {q \in Alive : ask[q].writes /\ (q \in watched \/ known[q].launching)}
  <2>1. W \in SUBSET Runs /\ W' \in SUBSET Runs /\ W' \subseteq W
    BY <1>1, <1>2, <1>4 DEF Alive
  <2>2. /\ Cardinality(W') \in Nat /\ Cardinality(W) \in Nat /\ Cardinality(W') <= Cardinality(W)
    BY <2>1, Counting
  <2>3. Cardinality(W) <= ParallelRuns
    BY DEF WithinLimit
  <2>4. Cardinality(W') <= ParallelRuns
    BY <2>2, <2>3, SupervisorAssumption
  <2>. QED
    BY <2>4 DEF WithinLimit, Alive
<1>. QED
  BY <1>6, <1>7, <1>8, <1>9, <1>10, <1>11, <1>12, <1>13, <1>14, <1>15

\* An entry of what the server knows without its launch is otherwise the same.
LEMMA LaunchOver ==
  ASSUME NEW x \in Knowledge
  PROVE  LET n == [x EXCEPT !.launching = FALSE]
         IN  /\ n \in Knowledge /\ n.launching = FALSE
             /\ n.live = x.live /\ n.stopping = x.stopping /\ n.orphan = x.orphan
             /\ n.fiber = x.fiber /\ n.sigint = x.sigint
BY DEF Knowledge

\* A process that could not be started leaves its run to whoever reconciles it.
LEMMA NotSpawnedKeeps ==
  ASSUME Supervised, NEW c \in Callers, Spawn(c), Return(c)
  PROVE  Supervised'
<1> USE DEF Supervised
<1>1. PICK r \in Runs : r = call[c].run /\ known[r].launching /\ r \notin watched
                        /\ state[r] = "starting" /\ child[r] = "none" /\ Untouched(r)
  BY DEF Spawn, Launches, LaunchPoints, Unborn
<1> DEFINE n == [known[r] EXCEPT !.launching = FALSE]
<1>2. /\ known \in [Runs -> Knowledge] /\ call \in [Callers -> CallStates]
      /\ state \in [Runs -> States] /\ call[c].at = "spawning" /\ call[c].op = "start"
      /\ UNCHANGED <<ask, child, server, servers, calls, watched>>
      /\ call' = [call EXCEPT ![c] = AtRest]
      /\ state' \in {state, [state EXCEPT ![r] = "ended"]} /\ known' = [known EXCEPT ![r] = n]
  <2>1. /\ known \in [Runs -> Knowledge] /\ call \in [Callers -> CallStates]
        /\ state \in [Runs -> States] /\ call[c].at = "spawning" /\ call[c].op = "start"
        /\ UNCHANGED <<ask, server, servers, calls, watched>>
        /\ call' = [call EXCEPT ![c] = AtRest]
    BY DEF TypeOK, Calls, Spawn, history, LaunchPoints, Return
  <2>2. ~Goes(c, "reporting")
    <3>1. call'[c].at = "idle"
      BY <2>1, CallTypes
    <3>2. Goes(c, "reporting") => call'[c].at = "reporting"
      BY <2>1, Zenon DEF Goes, CallStates
    <3>. QED
      BY <3>1, <3>2
  <2>3. /\ state' \in {state, [state EXCEPT ![r] = "ended"]} /\ UNCHANGED child
        /\ known' = [known EXCEPT ![r].launching = FALSE]
    BY <1>1, <2>2 DEF Spawn
  <2>4. known' = [known EXCEPT ![r] = n]
    BY <2>3
  <2>. QED
    BY <2>1, <2>3, <2>4
<1>3. call'[c] = AtRest /\ \A d \in Callers : d # c => call'[d] = call[d]
  BY <1>2
<1>4. state'[r] # "absent" /\ \A q \in Runs : q # r => state'[q] = state[q]
  BY <1>1, <1>2
<1>5. /\ n \in Knowledge /\ n.live = known[r].live /\ n.launching = FALSE
      /\ n.stopping = known[r].stopping /\ n.orphan = known[r].orphan
      /\ n.fiber = known[r].fiber /\ n.sigint = known[r].sigint
  BY <1>2, LaunchOver
<1> HIDE DEF n
<1>6. known'[r] = n /\ \A q \in Runs : q # r => known'[q] = known[q]
  BY <1>2
<1>7. \A d \in Callers : d # c => call[d].op # "start" /\ call[d].at \notin LaunchPoints
  BY <1>2 DEF OneStart, Calls
<1>8. TypeOK'
  <2>1. \A q \in Runs : known'[q].stopping => known'[q].live
    BY <1>5, <1>6 DEF TypeOK
  <2>. QED
    BY <1>2, <1>5, <2>1, CallTypes DEF TypeOK, States
<1>9. Calls' /\ OneStart'
  BY <1>2, <1>3, <1>7, CallTypes DEF Calls, OneStart, LaunchPoints
<1>10. Launches'
  <2>1. \A q \in Runs : ~known'[q].launching
    BY <1>1, <1>5, <1>6, <1>7 DEF Launches
  <2>2. \A d \in Callers : call'[d].at \notin LaunchPoints
    BY <1>3, <1>7, CallTypes DEF LaunchPoints
  <2>. QED
    BY <2>1, <2>2 DEF Launches
<1>11. Unborn'
  BY <1>1, <1>2, <1>4, <1>5, <1>6 DEF Unborn, Untouched
<1>12. Watches'
  BY <1>1, <1>2, <1>4, <1>5, <1>6 DEF Watches
<1>13. Signals'
  <2>1. ASSUME NEW q \in Runs, q # r
        PROVE  Signalled(q)'
    BY <1>2, <1>5, <1>6, <2>1 DEF Signals, Signalled, ByPid
  <2>2. /\ known'[r].sigint = 0 /\ known'[r].fiber = "none" /\ ~known'[r].live
    BY <1>1, <1>5, <1>6 DEF Untouched
  <2>3. Signalled(r)'
    BY <2>2 DEF Signalled, ByPid
  <2>. QED
    BY <2>1, <2>3 DEF Signals
<1>14. Readings'
  <2>1. \A d \in Callers : call'[d].at = "reading" => call'[d] = call[d] /\ call[d].op # "start"
    BY <1>3, <1>7, CallTypes
  <2>2. \A q \in Runs : known[q].live => known'[q].live
    BY <1>5, <1>6
  <2>. QED
    BY <1>1, <1>2, <1>4, <2>1, <2>2 DEF Readings
<1>15. RequestsApart'
  <2>1. \A d \in Callers : call'[d].at # "announcing"
    BY <1>3, <1>7, CallTypes DEF LaunchPoints
  <2>. QED
    BY <1>1, <1>2, <1>4, <2>1 DEF RequestsApart
<1>16. Room' /\ WithinLimit'
  <2>1. \A d \in Callers : call'[d].at \notin {"announcing", "spawning"}
    BY <1>3, <1>7, CallTypes DEF LaunchPoints
  <2>2. \A q \in Runs : known'[q].launching => known[q].launching
    BY <1>1, <1>5, <1>6
  <2>. QED
    BY <1>2, <2>1, <2>2, RoomKept, LimitKept
<1>. QED
  BY <1>8, <1>9, <1>10, <1>11, <1>12, <1>13, <1>14, <1>15, <1>16

\* A stop of a running run that nobody watches has it signalled by pid, once.
LEMMA StopKnownKeeps ==
  ASSUME Supervised, NEW c \in Callers, StopKnown(c)
  PROVE  Supervised'
<1> USE DEF Supervised
<1>1. PICK r \in Runs : r = call[c].run
  BY DEF StopKnown, HasRead, Calls
<1>2. /\ known \in [Runs -> Knowledge] /\ call \in [Callers -> CallStates] /\ call[c] \in CallStates
      /\ call[c].at = "reading" /\ call[c].op = "stop" /\ server = "up" /\ calls' \in 0..MaxCalls
      /\ UNCHANGED <<state, ask, child, server, servers, calls, watched>>
      /\ call[c].at \notin LaunchPoints
  BY <1>1 DEF TypeOK, Calls, StopKnown, HasRead, registry, host, history, LaunchPoints
<1> DEFINE k == [call[c] EXCEPT !.at = "awaiting outcome", !.read = NoReading]
<1>3. k \in CallStates /\ k.op = "stop" /\ k.at = "awaiting outcome" /\ k.run = r
  BY <1>1, <1>2, CallTypes DEF CallStates
<1>4. Goes(c, "awaiting outcome") => call' = [call EXCEPT ![c] = k]
  BY DEF Goes
<1> HIDE DEF k
<1>5. CASE Return(c) /\ UNCHANGED known
  BY <1>2, <1>5, ReturnKeeps
<1>6. CASE call' = [call EXCEPT ![c] = k] /\ UNCHANGED known
  BY <1>1, <1>2, <1>3, <1>6, CallMoves DEF LaunchPoints
<1>7. CASE /\ call' = [call EXCEPT ![c] = k] /\ call[c].read[r] = "running" /\ Unwatched(r)
           /\ known[r].orphan = "none"
           /\ known' = [known EXCEPT ![r].orphan = "pending", ![r].fiber = "int pid"]
  <2> DEFINE n == [known[r] EXCEPT !.orphan = "pending", !.fiber = "int pid"]
  <2>1. known' = [known EXCEPT ![r] = n]
    BY <1>7
  <2>2. /\ n \in Knowledge /\ n.live = known[r].live /\ n.launching = known[r].launching
        /\ n.stopping = known[r].stopping /\ n.sigint = known[r].sigint
        /\ n.orphan = "pending" /\ n.fiber = "int pid"
    BY <1>2, Zenon DEF Knowledge
  <2> HIDE DEF n
  <2>3. known'[r] = n /\ \A q \in Runs : q # r => known'[q] = known[q]
    BY <1>2, <2>1
  <2>4. call'[c] = k /\ \A d \in Callers : d # c => call'[d] = call[d]
    BY <1>2, <1>7
  <2>5. /\ state[r] # "absent" /\ known[r].live = FALSE /\ known[r].launching = FALSE
        /\ ~n.live /\ ~n.launching /\ call'[c].at \notin LaunchPoints
    <3>1. ~known[r].live /\ ~known[r].launching
      BY <1>7 DEF Unwatched
    <3>2. call[c].read[r] = "running"
      BY <1>7
    <3>3. state[r] # "absent"
      BY <1>2, <3>2 DEF Readings
    <3>4. call'[c].at \notin LaunchPoints
      BY <1>3, <2>4 DEF LaunchPoints
    <3>5. known[r].live = FALSE /\ known[r].launching = FALSE
      BY <1>2, <3>1 DEF Knowledge
    <3>. QED
      BY <2>2, <3>1, <3>3, <3>4, <3>5
  <2>6. TypeOK'
    <3>1. \A q \in Runs : known'[q].stopping => known'[q].live
      BY <2>2, <2>3 DEF TypeOK
    <3>2. known' \in [Runs -> Knowledge] /\ call' \in [Callers -> CallStates]
      BY <1>2, <1>3, <1>7, <2>1, <2>2, ZenonT(40)
    <3>. QED
      BY <1>2, <3>1, <3>2 DEF TypeOK
  <2>7. Calls' /\ OneStart'
    BY <1>2, <1>3, <2>4, Zenon DEF Calls, OneStart, LaunchPoints
  <2>8. Launches'
    <3>1. \A q \in Runs : known'[q].launching => known[q].launching /\ q # r
      BY <2>3, <2>5
    <3>2. \A d \in Callers : call'[d].at \in LaunchPoints => d # c /\ call'[d] = call[d]
      BY <2>4, <2>5
    <3>3. \A q \in Runs : known[q].launching => known'[q].launching
      BY <2>3, <2>5
    <3>4. \A d \in Callers : call[d].at \in LaunchPoints => d # c
      BY <1>2
    <3>5. \A q \in Runs : known'[q].launching =>
              \E d \in Callers : call'[d].at \in LaunchPoints /\ call'[d].run = q
      BY <2>4, <3>1, <3>4 DEF Launches
    <3>6. \A d \in Callers : call[d].at \in LaunchPoints =>
              known'[call[d].run].launching
      BY <3>3 DEF Launches
    <3>. QED
      BY <1>2, <3>2, <3>5, <3>6 DEF Launches
  <2>9. Unborn'
    <3>1. ASSUME NEW q \in Runs, q # r
          PROVE  /\ state'[q] = "absent" => child'[q] = "none" /\ q \notin watched' /\ Untouched(q)'
                 /\ known'[q].launching => Untouched(q)'
      BY <1>2, <2>3, <3>1 DEF Unborn, Untouched
    <3>2. state'[r] # "absent" /\ ~known'[r].launching
      BY <1>2, <2>3, <2>5
    <3>. QED
      BY <3>1, <3>2 DEF Unborn
  <2>10. Watches'
    BY <1>2, <2>2, <2>3 DEF Watches
  <2>11. Signals'
    <3>1. ASSUME NEW q \in Runs, q # r
          PROVE  Signalled(q)'
      BY <1>2, <2>3, <3>1, ZenonT(40) DEF Signals, Signalled, ByPid
    <3>2. known[r].sigint \in {0, 1} /\ (known[r].sigint = 0 \/ child[r] # "alive")
      BY <1>7, <2>5 DEF Signals, Signalled
    <3>3. Signalled(r)'
      BY <1>2, <2>2, <2>3, <2>5, <3>2 DEF Signalled, ByPid
    <3>. QED
      BY <3>1, <3>3 DEF Signals
  <2>12. Readings'
    <3>1. \A q \in Runs : known[q].live => known'[q].live
      BY <2>3, <2>5
    <3>2. \A d \in Callers : call'[d].at = "reading" => call'[d] = call[d]
      BY <1>3, <2>4
    <3>. QED
      BY <1>2, <3>1, <3>2 DEF Readings
  <2>13. RequestsApart'
    BY <1>2, <1>3, <2>4, ZenonT(40) DEF RequestsApart, NewRequest
  <2>14. Room' /\ WithinLimit'
    BY <1>2, <1>3, <2>2, <2>3, <2>4, RoomKept, LimitKept, Zenon
  <2>. QED
    BY <2>6, <2>7, <2>8, <2>9, <2>10, <2>11, <2>12, <2>13, <2>14
<1>. QED
  BY <1>1, <1>4, <1>5, <1>6, <1>7 DEF StopKnown

\* What the fiber of a call does.
LEMMA ContinueKeeps ==
  ASSUME Supervised, NEW c \in Callers, Continue(c)
  PROVE  Supervised'
<1>1. calls \in 0..MaxCalls /\ \A d \in Callers : call[d].at # "idle" => server = "up"
  BY DEF Supervised, TypeOK, Calls
<1>2. ASSUME NEW r \in Runs, Reconcile(c, r)
      PROVE  Supervised'
  BY <1>2, ReconcileKeeps
<1>3. CASE Listed(c)
  <2>1. /\ Return(c) /\ call[c].at = "reading" /\ calls' \in 0..MaxCalls
        /\ UNCHANGED <<state, ask, child, server, servers, known, watched>>
    BY <1>1, <1>3 DEF Listed, HasRead, registry, host, history
  <2>. QED
    BY <2>1, ReturnKeeps DEF LaunchPoints
<1>4. CASE Decide(c)
  BY <1>4, DecideKeeps
<1>5. CASE RecordStarting(c)
  BY <1>5, RecordStartingKeeps
<1>6. CASE Spawn(c)
  BY <1>6, SpawnedKeeps, NotSpawnedKeeps DEF Spawn
<1>7. CASE RecordRunning(c)
  BY <1>7, RecordRunningKeeps
<1>8. CASE Enter(c)
  BY <1>8, EnterKeeps
<1>9. CASE StopKnown(c)
  BY <1>9, StopKnownKeeps
<1>10. CASE AwaitFinal(c) \/ AwaitOutcome(c)
  <2>1. /\ Return(c) \/ Reading(c, "list", NoRun, NoAsk)
        /\ call[c].at \in {"awaiting final", "awaiting outcome"} /\ calls' \in 0..MaxCalls
        /\ UNCHANGED <<state, ask, child, server, servers, known, watched>>
    BY <1>1, <1>10 DEF AwaitFinal, AwaitOutcome, registry, host, history
  <2>2. server = "up" /\ call[c].at \notin LaunchPoints
    BY <1>1, <2>1 DEF LaunchPoints
  <2>. QED
    BY <2>1, <2>2, CallTypes, ReturnKeeps, ReadingKeeps
<1>. QED
  BY <1>2, <1>3, <1>4, <1>5, <1>6, <1>7, <1>8, <1>9, <1>10 DEF Continue


\* What may come to be known of a run that is watched or signalled.
MayBecome(r, n) ==
    /\ n \in Knowledge /\ n.launching = known[r].launching
    /\ n.live => known[r].live
    /\ n.stopping => n.live
    /\ known[r].live /\ ~n.live => child[r] = "gone"
    /\ n.sigint \in {0, 1}
    /\ n.live => n.orphan = "none" /\ n.fiber \notin ByPid
    /\ n.live /\ ~n.stopping => n.fiber = "none" /\ n.sigint = 0
    /\ n.live /\ n.fiber = "int" => n.sigint = 0
    /\ n.fiber = "int pid" => n.orphan # "none" /\ (n.sigint = 0 \/ child[r] # "alive")
    /\ n.orphan = "none" /\ ~n.live /\ n.sigint # 0 => child[r] # "alive"

\* What watches or signals a run changes what is known of it, and may record its end,
\* which it does only when its process is gone.
LEMMA FiberMoves ==
  ASSUME Supervised, NEW r \in Runs, NEW n, known' = [known EXCEPT ![r] = n], MayBecome(r, n),
         state' = state \/ (state' = [state EXCEPT ![r] = "ended"] /\ child[r] # "alive"),
         UNCHANGED <<ask, child, server, servers, call, calls, watched>>, ~Untouched(r)
  PROVE  Supervised'
<1> USE DEF Supervised
<1>1. /\ known \in [Runs -> Knowledge] /\ call \in [Callers -> CallStates]
      /\ state \in [Runs -> States] /\ n \in Knowledge
  BY DEF TypeOK, MayBecome
<1>2. known'[r] = n /\ \A q \in Runs : q # r => known'[q] = known[q]
  BY <1>1
<1>3. state[r] # "absent" /\ ~known[r].launching
  BY DEF Unborn
<1>4. /\ \A q \in Runs : q # r => state'[q] = state[q]
      /\ state'[r] # "absent" /\ (state'[r] = state[r] \/ (state'[r] = "ended" /\ child[r] # "alive"))
  <2>1. CASE state' = state
    BY <1>3, <2>1
  <2>2. CASE state' = [state EXCEPT ![r] = "ended"] /\ child[r] # "alive"
    BY <1>1, <2>2
  <2>. QED
    BY <2>1, <2>2
<1>5. TypeOK'
  <2>1. \A q \in Runs : known'[q].stopping => known'[q].live
    BY <1>2 DEF TypeOK, MayBecome
  <2>2. known' \in [Runs -> Knowledge] /\ state' \in [Runs -> States]
    BY <1>1 DEF States
  <2>. QED
    BY <2>1, <2>2 DEF TypeOK
<1>6. Calls' /\ OneStart' /\ RequestsApart'
  <2>1. Calls' /\ OneStart'
    BY DEF Calls, OneStart
  <2>2. \A q \in Runs : state'[q] # "absent" <=> state[q] # "absent"
    BY <1>3, <1>4
  <2>. QED
    BY <2>1, <2>2 DEF RequestsApart, NewRequest
<1>7. Launches'
  <2>1. \A q \in Runs : known'[q].launching = known[q].launching
    BY <1>2 DEF MayBecome
  <2>2. \A c \in Callers : call[c].at \in LaunchPoints =>
            state'[call[c].run] = state[call[c].run]
    BY <1>3, <1>4 DEF Launches
  <2>. QED
    BY <2>1, <2>2 DEF Launches
<1>8. Unborn'
  <2>1. ASSUME NEW q \in Runs, q # r
        PROVE  /\ state'[q] = "absent" => child'[q] = "none" /\ q \notin watched' /\ Untouched(q)'
               /\ known'[q].launching => Untouched(q)'
    BY <1>2, <1>4, <2>1 DEF Unborn, Untouched
  <2>2. state'[r] # "absent" /\ ~known'[r].launching
    BY <1>2, <1>3, <1>4 DEF MayBecome
  <2>. QED
    BY <2>1, <2>2 DEF Unborn
<1>9. Watches'
  <2>1. \A q \in Runs : known'[q].live => known[q].live
    BY <1>2 DEF MayBecome
  <2>2. \A q \in Runs : state'[q] = state[q] \/ (state'[q] = "ended" /\ child[q] # "alive")
    BY <1>4
  <2>. QED
    BY <2>1, <2>2 DEF Watches
<1>10. Signals'
  <2>1. ASSUME NEW q \in Runs, q # r
        PROVE  Signalled(q)'
    BY <1>2, <2>1, ZenonT(40) DEF Signals, Signalled, ByPid
  <2>2. known'[r].sigint \in {0, 1}
    BY <1>2 DEF MayBecome
  <2>3. known'[r].live => known'[r].orphan = "none" /\ known'[r].fiber \notin ByPid
    BY <1>2 DEF MayBecome
  <2>4. /\ known'[r].live /\ ~known'[r].stopping =>
               known'[r].fiber = "none" /\ known'[r].sigint = 0
        /\ known'[r].live /\ known'[r].fiber = "int" => known'[r].sigint = 0
    BY <1>2 DEF MayBecome
  <2>5. known'[r].fiber = "int pid" =>
            known'[r].orphan # "none" /\ (known'[r].sigint = 0 \/ child'[r] # "alive")
    BY <1>2 DEF MayBecome
  <2>6. known'[r].orphan = "none" /\ ~known'[r].live /\ known'[r].sigint # 0 =>
            child'[r] # "alive"
    BY <1>2 DEF MayBecome
  <2>7. Signalled(r)'
    BY <2>2, <2>3, <2>4, <2>5, <2>6 DEF Signalled, ByPid
  <2>. QED
    BY <2>1, <2>7 DEF Signals
<1>11. Readings'
  <2>1. \A q \in Runs : known[q].live => known'[q].live \/ child[q] = "gone"
    <3>1. known[r].live => n.live \/ child[r] = "gone"
      BY DEF MayBecome
    <3>. QED
      BY <1>2, <3>1
  <2>2. \A q \in Runs : state'[q] = "absent" <=> state[q] = "absent"
    BY <1>3, <1>4
  <2>. QED
    BY <2>1, <2>2 DEF Readings
<1>12. Room' /\ WithinLimit'
  <2>1. \A q \in Runs : known'[q].launching => known[q].launching
    BY <1>2 DEF MayBecome
  <2>. QED
    BY <2>1, RoomKept, LimitKept
<1>. QED
  BY <1>5, <1>6, <1>7, <1>8, <1>9, <1>10, <1>11, <1>12

\* An entry of what the server knows, with its fiber further on, keeps the rest.
LEMMA FiberEntry ==
  ASSUME NEW x \in Knowledge, NEW f \in {"grace", "grace pid", "last pid", "done"}
  PROVE  LET n == [x EXCEPT !.fiber = f]
         IN  /\ n \in Knowledge /\ n.launching = x.launching
             /\ n.live = x.live /\ n.stopping = x.stopping /\ n.orphan = x.orphan
             /\ n.fiber = f /\ n.sigint = x.sigint
BY DEF Knowledge

\* So does one with SIGINT sent as well.
LEMMA SigintEntry ==
  ASSUME NEW x \in Knowledge, NEW i \in Nat
  PROVE  LET n == [x EXCEPT !.fiber = "grace", !.sigint = i]
         IN  /\ n \in Knowledge /\ n.launching = x.launching
             /\ n.live = x.live /\ n.stopping = x.stopping /\ n.orphan = x.orphan
             /\ n.fiber = "grace" /\ n.sigint = i
BY DEF Knowledge

\* And so does one with SIGINT sent by pid.
LEMMA SigintByPidEntry ==
  ASSUME NEW x \in Knowledge, NEW i \in Nat
  PROVE  LET n == [x EXCEPT !.fiber = "grace pid", !.sigint = i]
         IN  /\ n \in Knowledge /\ n.launching = x.launching
             /\ n.live = x.live /\ n.stopping = x.stopping /\ n.orphan = x.orphan
             /\ n.fiber = "grace pid" /\ n.sigint = i
BY DEF Knowledge

\* So does one with SIGTERM sent as well.
LEMMA SigtermEntry ==
  ASSUME NEW x \in Knowledge, NEW f \in {"grace", "grace pid", "last pid", "done"}
  PROVE  LET n == [x EXCEPT !.fiber = f, !.sigterm = TRUE]
         IN  /\ n \in Knowledge /\ n.launching = x.launching
             /\ n.live = x.live /\ n.stopping = x.stopping /\ n.orphan = x.orphan
             /\ n.fiber = f /\ n.sigint = x.sigint
BY DEF Knowledge

\* So does one with the outcome of an orphan known.
LEMMA OutcomeEntry ==
  ASSUME NEW x \in Knowledge, NEW o \in {"ended", "ignored"}
  PROVE  LET n == [x EXCEPT !.fiber = "done", !.orphan = o]
         IN  /\ n \in Knowledge /\ n.launching = x.launching
             /\ n.live = x.live /\ n.stopping = x.stopping /\ n.orphan = o
             /\ n.fiber = "done" /\ n.sigint = x.sigint
BY DEF Knowledge

\* So does one no longer live.
LEMMA EndedEntry ==
  ASSUME NEW x \in Knowledge
  PROVE  LET n == [x EXCEPT !.live = FALSE, !.stopping = FALSE]
         IN  /\ n \in Knowledge /\ n.launching = x.launching
             /\ n.live = FALSE /\ n.stopping = FALSE /\ n.orphan = x.orphan
             /\ n.fiber = x.fiber /\ n.sigint = x.sigint
BY DEF Knowledge

\* A run nobody has signalled has no fiber.
LEMMA FibersKeep ==
  ASSUME Supervised, NEW r \in Runs, Fibers(r)
  PROVE  Supervised'
<1>1. /\ known[r] \in Knowledge /\ Signalled(r) /\ (known[r].stopping => known[r].live)
      /\ UNCHANGED <<ask, child, server, servers, call, calls, watched>>
      /\ known[r].sigint \in {0, 1} /\ (known[r].live => ~Untouched(r))
  BY DEF Supervised, TypeOK, Signals, Signalled, Untouched, Fibers, Watch, Escalate, EscalateOrphan,
         registry, host, history
<1>2. PICK i \in Nat :
         /\ i = Interrupted(r) /\ (known[r].sigint = 0 => i \in {0, 1})
         /\ child[r] # "alive" => i = known[r].sigint
  BY <1>1 DEF Interrupted
<1>3. CASE Watch(r)
  <2> DEFINE n == [known[r] EXCEPT !.live = FALSE, !.stopping = FALSE]
  <2>1. /\ known' = [known EXCEPT ![r] = n]
        /\ known[r].live /\ child[r] = "gone" /\ state' \in {state, [state EXCEPT ![r] = "ended"]}
    BY <1>3 DEF Watch, NotStopping
  <2>2. /\ n \in Knowledge /\ n.fiber = known[r].fiber /\ n.sigint = known[r].sigint
        /\ n.orphan = known[r].orphan /\ n.launching = known[r].launching
        /\ n.live = FALSE /\ n.stopping = FALSE
    BY <1>1, EndedEntry
  <2> HIDE DEF n
  <2>3. MayBecome(r, n)
    BY <1>1, <1>2, <2>1, <2>2 DEF MayBecome, Signalled, ByPid
  <2>. QED
    BY <1>1, <1>2, <2>1, <2>2, <2>3, FiberMoves
<1>4. CASE Escalate(r)
  <2>1. state' = state /\ ~Untouched(r)
    BY <1>4 DEF Escalate, registry, Untouched
  <2>2. CASE /\ known[r].fiber = "int" /\ known[r].live
             /\ known' = [known EXCEPT ![r].fiber = "grace", ![r].sigint = Interrupted(r)]
    <3> DEFINE n == [known[r] EXCEPT !.fiber = "grace", !.sigint = i]
    <3>1. known' = [known EXCEPT ![r] = n]
      BY <1>2, <2>2
    <3>2. /\ n \in Knowledge /\ n.fiber = "grace" /\ n.sigint = i
          /\ n.orphan = known[r].orphan /\ n.launching = known[r].launching
          /\ n.live = known[r].live /\ n.stopping = known[r].stopping
      <4>1. known[r] \in Knowledge
        BY <1>1
      <4>. QED
        BY <4>1, SigintEntry, Zenon
    <3> HIDE DEF n
    <3>3. known[r].sigint = 0 /\ known[r].stopping /\ n.sigint \in {0, 1}
      BY <1>1, <1>2, <2>2, <3>2 DEF Signalled
    <3>4. MayBecome(r, n)
      BY <1>1, <2>1, <2>2, <3>1, <3>2, <3>3 DEF MayBecome, Signalled, ByPid
    <3>. QED
      BY <1>1, <2>1, <2>2, <3>1, <3>2, <3>3, <3>4, FiberMoves
  <2>3. CASE /\ known[r].fiber \in {"int", "grace"} /\ ~known[r].live
             /\ known' = [known EXCEPT ![r].fiber = "done"]
    <3> DEFINE n == [known[r] EXCEPT !.fiber = "done"]
    <3>1. known' = [known EXCEPT ![r] = n]
      BY <2>3
    <3>2. /\ n \in Knowledge /\ n.fiber = "done" /\ n.sigint = known[r].sigint
          /\ n.orphan = known[r].orphan /\ n.launching = known[r].launching
          /\ n.live = known[r].live /\ n.stopping = known[r].stopping
      BY <1>1, FiberEntry
    <3> HIDE DEF n
    <3>4. MayBecome(r, n)
      BY <1>1, <2>1, <2>3, <3>1, <3>2 DEF MayBecome, Signalled, ByPid
    <3>. QED
      BY <1>1, <2>1, <2>3, <3>1, <3>2, <3>4, FiberMoves
  <2>4. CASE /\ known[r].fiber = "grace" /\ known[r].live
             /\ known' = [known EXCEPT ![r].fiber = "done", ![r].sigterm = TRUE]
    <3> DEFINE n == [known[r] EXCEPT !.fiber = "done", !.sigterm = TRUE]
    <3>1. known' = [known EXCEPT ![r] = n]
      BY <2>4
    <3>2. /\ n \in Knowledge /\ n.fiber = "done" /\ n.sigint = known[r].sigint
          /\ n.orphan = known[r].orphan /\ n.launching = known[r].launching
          /\ n.live = known[r].live /\ n.stopping = known[r].stopping
      BY <1>1, SigtermEntry, Zenon
    <3> HIDE DEF n
    <3>4. MayBecome(r, n)
      BY <1>1, <2>1, <2>4, <3>1, <3>2 DEF MayBecome, Signalled, ByPid
    <3>. QED
      BY <1>1, <2>1, <2>4, <3>1, <3>2, <3>4, FiberMoves
  <2>. QED
    BY <1>4, <2>2, <2>3, <2>4 DEF Escalate
<1>5. CASE EscalateOrphan(r)
  <2>1. known[r].fiber \in ByPid /\ ~Untouched(r) /\ ~known[r].live /\ ~known[r].stopping
    BY <1>1, <1>5 DEF EscalateOrphan, ByPid, Untouched, Signalled
  <2>2. CASE /\ known[r].fiber = "int pid" /\ UNCHANGED state
             /\ known' = [known EXCEPT ![r].fiber = "grace pid", ![r].sigint = Interrupted(r)]
    <3> DEFINE n == [known[r] EXCEPT !.fiber = "grace pid", !.sigint = i]
    <3>1. known' = [known EXCEPT ![r] = n]
      BY <1>2, <2>2
    <3>2. /\ n \in Knowledge /\ n.fiber = "grace pid" /\ n.sigint = i
          /\ n.orphan = known[r].orphan /\ n.launching = known[r].launching
          /\ n.live = known[r].live /\ n.stopping = known[r].stopping
      <4>1. known[r] \in Knowledge
        BY <1>1
      <4>. QED
        BY <4>1, SigintByPidEntry, Zenon
    <3> HIDE DEF n
    <3>3. known[r].orphan # "none" /\ n.sigint \in {0, 1}
      BY <1>1, <1>2, <2>2, <3>2 DEF Signalled
    <3>4. MayBecome(r, n)
      BY <1>1, <2>1, <2>2, <3>1, <3>2, <3>3 DEF MayBecome, Signalled, ByPid
    <3>. QED
      BY <1>1, <2>1, <2>2, <3>1, <3>2, <3>3, <3>4, FiberMoves
  <2>3. CASE /\ known[r].fiber = "grace pid" /\ child[r] = "alive" /\ UNCHANGED state
             /\ known' = [known EXCEPT ![r].fiber = "last pid", ![r].sigterm = TRUE]
    <3> DEFINE n == [known[r] EXCEPT !.fiber = "last pid", !.sigterm = TRUE]
    <3>1. known' = [known EXCEPT ![r] = n]
      BY <2>3
    <3>2. /\ n \in Knowledge /\ n.fiber = "last pid" /\ n.sigint = known[r].sigint
          /\ n.orphan = known[r].orphan /\ n.launching = known[r].launching
          /\ n.live = known[r].live /\ n.stopping = known[r].stopping
      BY <1>1, SigtermEntry, Zenon
    <3> HIDE DEF n
    <3>4. MayBecome(r, n)
      BY <1>1, <2>1, <2>3, <3>1, <3>2 DEF MayBecome, Signalled, ByPid
    <3>. QED
      BY <1>1, <2>1, <2>3, <3>1, <3>2, <3>4, FiberMoves
  <2>4. ASSUME NEW o \in {"ended", "ignored"},
               known' = [known EXCEPT ![r].fiber = "done", ![r].orphan = o],
               state' \in {state, [state EXCEPT ![r] = "ended"]},
               state' # state => child[r] # "alive"
        PROVE  Supervised'
    <3> DEFINE n == [known[r] EXCEPT !.fiber = "done", !.orphan = o]
    <3>1. known' = [known EXCEPT ![r] = n]
      BY <2>4
    <3>2. /\ n \in Knowledge /\ n.fiber = "done" /\ n.sigint = known[r].sigint
          /\ n.orphan = o /\ n.launching = known[r].launching
          /\ n.live = known[r].live /\ n.stopping = known[r].stopping
      BY <1>1, OutcomeEntry, ZenonT(40)
    <3> HIDE DEF n
    <3>4. MayBecome(r, n)
      BY <1>1, <2>1, <2>4, <3>1, <3>2 DEF MayBecome, Signalled, ByPid
    <3>. QED
      BY <1>1, <2>1, <2>4, <3>1, <3>2, <3>4, FiberMoves
  <2>. QED
    BY <1>5, <2>2, <2>3, <2>4 DEF EscalateOrphan, Outcome
<1>. QED
  BY <1>3, <1>4, <1>5 DEF Fibers

\* A process that exits only leaves fewer alive.
LEMMA ChildExitsKeeps ==
  ASSUME Supervised, NEW r \in Runs, ChildExits(r)
  PROVE  Supervised'
<1> USE DEF Supervised
<1>1. /\ child \in [Runs -> {"none", "alive", "gone"}] /\ child[r] = "alive"
      /\ child' = [child EXCEPT ![r] = "gone"]
      /\ UNCHANGED <<state, ask, server, servers, known, call, calls, watched>>
  BY DEF TypeOK, ChildExits, registry, history
<1>2. \A q \in Runs : /\ child'[q] = child[q] \/ child'[q] = "gone"
                      /\ child'[q] = "none" <=> child[q] = "none"
                      /\ child'[q] = "alive" => child[q] = "alive"
                      /\ child[q] = "gone" => child'[q] = "gone"
  BY <1>1
<1>3. TypeOK'
  BY <1>1 DEF TypeOK
<1>4. Calls' /\ OneStart' /\ RequestsApart'
  BY <1>1 DEF Calls, OneStart, RequestsApart, NewRequest
<1>5. Launches'
  BY <1>1, <1>2 DEF Launches
<1>6. Unborn' /\ Watches'
  BY <1>1, <1>2 DEF Unborn, Untouched, Watches
<1>7. Signals'
  <2>1. ASSUME NEW q \in Runs
        PROVE  Signalled(q)'
    BY <1>1, <1>2, Zenon DEF Signals, Signalled, ByPid
  <2>. QED
    BY <2>1 DEF Signals
<1>8. Readings'
  BY <1>1, <1>2 DEF Readings
<1>9. Room' /\ WithinLimit'
  BY <1>1, <1>2, RoomKept, LimitKept
<1>. QED
  BY <1>3, <1>4, <1>5, <1>6, <1>7, <1>8, <1>9

\* A spawn that is cut off may start the process of the one run that is being launched.
LEMMA CutOff ==
  ASSUME Supervised, NEW S \in SUBSET Callers, CutOffSpawns(S)
  PROVE  /\ child' \in [Runs -> {"none", "alive", "gone"}]
         /\ \A r \in Runs : child'[r] # child[r] =>
                /\ child'[r] = "alive" /\ child[r] = "none"
                /\ state[r] = "starting" /\ r \notin watched /\ Untouched(r) /\ known[r].launching
                /\ \E c \in S : call[c].at = "spawning" /\ call[c].run = r
<1>1. PICK T \in SUBSET {call[c].run : c \in {d \in S : call[d].at = "spawning"}} :
          child' = [r \in Runs |-> IF r \in T THEN "alive" ELSE child[r]]
  BY DEF CutOffSpawns
<1>2. child \in [Runs -> {"none", "alive", "gone"}]
  BY DEF Supervised, TypeOK
<1>3. child' \in [Runs -> {"none", "alive", "gone"}]
  BY <1>1, <1>2
<1>4. ASSUME NEW r \in Runs, child'[r] # child[r]
      PROVE  /\ child'[r] = "alive" /\ child[r] = "none"
             /\ state[r] = "starting" /\ r \notin watched /\ Untouched(r) /\ known[r].launching
             /\ \E c \in S : call[c].at = "spawning" /\ call[c].run = r
  <2>1. r \in T /\ child'[r] = "alive"
    BY <1>1, <1>4
  <2>2. PICK c \in S : call[c].at = "spawning" /\ call[c].run = r
    BY <2>1
  <2>. QED
    BY <2>1, <2>2 DEF Supervised, Launches, LaunchPoints, Unborn
<1>. QED
  BY <1>3, <1>4

\* An entry, when the call ends that launched the run or another.
LEMMA CallEndedEntry ==
  ASSUME NEW x \in Knowledge, NEW b \in BOOLEAN
  PROVE  LET n == [x EXCEPT !.launching = x.launching /\ b, !.fiber = x.fiber]
         IN  /\ n \in Knowledge /\ n.launching = (x.launching /\ b)
             /\ n.live = x.live /\ n.stopping = x.stopping /\ n.orphan = x.orphan
             /\ n.fiber = x.fiber /\ n.sigint = x.sigint
BY DEF Knowledge

\* A call that ends, whatever it was about: a launch it cut off leaves a run nobody watches.
LEMMA CancelKeeps ==
  ASSUME Supervised, NEW c \in Callers, Cancel(c)
  PROVE  Supervised'
<1> USE DEF Supervised
<1>1. /\ known \in [Runs -> Knowledge] /\ call \in [Callers -> CallStates]
      /\ state \in [Runs -> States] /\ call[c].at # "idle" /\ server = "up"
      /\ UNCHANGED <<state, ask, server, servers, calls, watched>>
      /\ call' = [call EXCEPT ![c] = AtRest]
  BY DEF TypeOK, Calls, Cancel, registry, history, Return
<1>2. /\ child' \in [Runs -> {"none", "alive", "gone"}]
      /\ \A r \in Runs : child'[r] # child[r] =>
             /\ child'[r] = "alive" /\ child[r] = "none"
             /\ state[r] = "starting" /\ r \notin watched /\ Untouched(r) /\ known[r].launching
             /\ call[c].at = "spawning" /\ call[c].run = r
  <2>1. {c} \in SUBSET Callers /\ CutOffSpawns({c})
    BY DEF Cancel
  <2>. QED
    BY <2>1, CutOff
<1>3. call'[c] = AtRest /\ \A d \in Callers : d # c => call'[d] = call[d]
  BY <1>1
<1>4. \A d \in Callers : d # c /\ call[d].at \in LaunchPoints =>
          call[c].op # "start" /\ call'[d] = call[d]
  BY <1>1, <1>3 DEF OneStart, Calls
<1>5. ASSUME NEW r \in Runs
      PROVE  /\ known'[r] \in Knowledge
             /\ known'[r].launching => known[r].launching /\ ~(call[c].op = "start" /\ r = call[c].run)
             /\ known[r].launching /\ ~(call[c].op = "start" /\ r = call[c].run) => known'[r].launching
             /\ known'[r].live <=> known[r].live
             /\ known'[r].stopping <=> known[r].stopping
             /\ known'[r].orphan = known[r].orphan
             /\ known'[r].fiber = known[r].fiber /\ known'[r].sigint = known[r].sigint
  <2>1. known[r] \in Knowledge
    BY <1>1
  <2> DEFINE b == ~(call[c].op = "start" /\ r = call[c].run)
  <2>3. known'[r] = [known[r] EXCEPT !.launching = known[r].launching /\ b, !.fiber = known[r].fiber]
    BY DEF Cancel, InWatchers
  <2>4. b \in BOOLEAN
    OBVIOUS
  <2> HIDE DEF b
  <2>5. LET n == [known[r] EXCEPT !.launching = known[r].launching /\ b, !.fiber = known[r].fiber]
        IN  /\ n \in Knowledge /\ n.launching = (known[r].launching /\ b)
            /\ n.live = known[r].live /\ n.stopping = known[r].stopping /\ n.orphan = known[r].orphan
            /\ n.fiber = known[r].fiber /\ n.sigint = known[r].sigint
    BY <2>1, <2>4, CallEndedEntry, Zenon
  <2>. QED
    BY <2>3, <2>5, Zenon DEF b
<1>6. TypeOK'
  <2>1. known' \in [Runs -> Knowledge]
    BY <1>5 DEF Cancel
  <2>2. \A r \in Runs : known'[r].stopping => known'[r].live
    BY <1>5 DEF TypeOK
  <2>. QED
    BY <1>1, <1>2, <2>1, <2>2, CallTypes DEF TypeOK
<1>7. Calls' /\ OneStart'
  BY <1>1, <1>3, CallTypes DEF Calls, OneStart, LaunchPoints
<1>8. Launches'
  <2>1. \A r \in Runs : known'[r].launching =>
            \E d \in Callers : call'[d].at \in LaunchPoints /\ call'[d].run = r
    <3>1. ASSUME NEW r \in Runs, known'[r].launching
          PROVE  \E d \in Callers : call'[d].at \in LaunchPoints /\ call'[d].run = r
      <4>1. PICK d \in Callers : call[d].at \in LaunchPoints /\ call[d].run = r
        BY <1>5, <3>1 DEF Launches
      <4>2. d # c
        BY <1>5, <3>1, <4>1 DEF Calls
      <4>. QED
        BY <1>3, <4>1, <4>2
    <3>. QED
      BY <3>1
  <2>2. ASSUME NEW d \in Callers, call'[d].at \in LaunchPoints
        PROVE  /\ call'[d] = call[d] /\ call[d].run \in Runs /\ call[d].at \in LaunchPoints
               /\ child'[call[d].run] = child[call[d].run] /\ known'[call[d].run].launching
    <3>1. d # c /\ call'[d] = call[d]
      BY <1>3, <2>2, CallTypes DEF LaunchPoints
    <3>2. call[c].op # "start"
      BY <1>4, <2>2, <3>1
    <3>3. call[c].at # "spawning"
      BY <3>2 DEF Calls, LaunchPoints
    <3>4. call[d].run \in Runs /\ known[call[d].run].launching
      BY <2>2, <3>1 DEF Launches
    <3>. QED
      BY <1>2, <1>5, <2>2, <3>1, <3>2, <3>3, <3>4
  <2>. QED
    BY <1>1, <2>1, <2>2 DEF Launches
<1>9. Unborn'
  BY <1>1, <1>2, <1>5 DEF Unborn, Untouched
<1>10. Watches'
  BY <1>1, <1>2, <1>5 DEF Watches
<1>11. Signals'
  <2>1. ASSUME NEW r \in Runs, child'[r] = child[r]
        PROVE  Signalled(r)'
    BY <1>5, <2>1, SignalledSame DEF Signals
  <2>2. ASSUME NEW r \in Runs, child'[r] # child[r]
        PROVE  Signalled(r)'
    <3>1. known'[r].sigint = 0 /\ known'[r].fiber = "none" /\ ~known'[r].live
      BY <1>2, <1>5, <2>2 DEF Untouched
    <3>. QED
      BY <3>1 DEF Signalled, ByPid
  <2>. QED
    BY <2>1, <2>2 DEF Signals
<1>12. Readings'
  <2>1. \A d \in Callers : call'[d].at = "reading" => call'[d] = call[d]
    BY <1>3, CallTypes
  <2>2. \A r \in Runs : r \in watched => child'[r] = child[r]
    BY <1>2
  <2>3. \A r \in Runs : known[r].live => known'[r].live
    BY <1>5
  <2>. QED
    BY <1>1, <2>1, <2>2, <2>3 DEF Readings
<1>13. RequestsApart'
  BY <1>1, <1>3, CallTypes DEF RequestsApart, NewRequest
<1>14. Room' /\ WithinLimit'
  <2>1. \A r \in Runs : child'[r] = "alive" /\ r \in watched => child[r] = "alive"
    BY <1>2
  <2>2. \A r \in Runs : child'[r] = "alive" /\ known'[r].launching => child[r] = "alive" /\ known[r].launching
    BY <1>2, <1>5 DEF Calls, LaunchPoints
  <2>3. \A d \in Callers : call'[d].at \in {"announcing", "spawning"} => call'[d] = call[d]
    BY <1>3, CallTypes
  <2>. QED
    BY <1>1, <2>1, <2>2, <2>3, RoomKept, LimitKept
<1>. QED
  BY <1>6, <1>7, <1>8, <1>9, <1>10, <1>11, <1>12, <1>13, <1>14

\* The entry of a run the server is closing: the first stop of a live run signals it.
LEMMA ClosingEntry ==
  ASSUME NEW x \in Knowledge
  PROVE  /\ LET n == [x EXCEPT !.launching = FALSE]
            IN  n \in Knowledge
         /\ LET n == [[x EXCEPT !.stopping = TRUE, !.fiber = IF ~x.stopping THEN "int" ELSE @]
                           EXCEPT !.launching = FALSE]
            IN  /\ n \in Knowledge /\ n.live = x.live /\ ~n.launching
                /\ n.stopping /\ n.orphan = x.orphan /\ n.sigint = x.sigint
                /\ n.fiber = IF ~x.stopping THEN "int" ELSE x.fiber
BY DEF Knowledge

\* With the calls gone, and the launches with them, nothing is left to be decided.
LEMMA CallsOver ==
  ASSUME Supervised, TypeOK', call' = [c \in Callers |-> AtRest],
         UNCHANGED <<ask, watched>>,
         \A r \in Runs : ~known'[r].launching,
         \A r \in Runs : known'[r].live => known[r].live,
         \A r \in Runs : known'[r].live \/ state[r] # "absent" \/ Untouched(r)',
         \A r \in Runs : /\ child'[r] = child[r] \/ (state[r] # "absent" /\ r \notin watched)
                         /\ state'[r] = state[r]
                            \/ (state[r] # "absent" /\ state'[r] = "ended"
                                /\ ~(r \in watched /\ child[r] = "alive")),
         Signals'
  PROVE  Supervised'
<1> USE DEF Supervised
<1>1. \A c \in Callers : call'[c] = AtRest
  OBVIOUS
<1>2. Calls' /\ OneStart'
  BY <1>1, CallTypes DEF Calls, OneStart, LaunchPoints
<1>3. Launches' /\ Readings'
  BY <1>1, CallTypes DEF Launches, Readings, LaunchPoints
<1>4. \A r \in Runs : state'[r] = "absent" <=> state[r] = "absent"
  OBVIOUS
<1>5. Unborn'
  BY <1>4 DEF Unborn, Untouched, Watches
<1>6. Watches'
  BY <1>4 DEF Unborn, Watches
<1>7. RequestsApart'
  BY <1>1, <1>4, CallTypes DEF RequestsApart
<1>8. Room' /\ WithinLimit'
  <2>1. \A r \in Runs : child'[r] = "alive" /\ r \in watched => child[r] = "alive"
    OBVIOUS
  <2>2. \A c \in Callers : call'[c].at \notin {"announcing", "spawning"}
    BY <1>1, CallTypes
  <2>. QED
    BY <2>1, <2>2, RoomKept, LimitKept
<1>. QED
  BY <1>2, <1>3, <1>5, <1>6, <1>7, <1>8

\* A server told to close stops every live run and ends every call.
LEMMA CloseKeeps ==
  ASSUME Supervised, Close
  PROVE  Supervised'
<1> USE DEF Supervised
<1>1. /\ known \in [Runs -> Knowledge] /\ server = "up" /\ server' = "closing"
      /\ UNCHANGED <<state, ask, servers, calls, watched>> /\ call' = [c \in Callers |-> AtRest]
  BY DEF TypeOK, Close, registry, history
<1>2. /\ child' \in [Runs -> {"none", "alive", "gone"}]
      /\ \A r \in Runs : child'[r] # child[r] =>
             /\ child'[r] = "alive" /\ child[r] = "none"
             /\ state[r] = "starting" /\ r \notin watched /\ Untouched(r) /\ known[r].launching
  <2>1. Calling \in SUBSET Callers /\ CutOffSpawns(Calling)
    BY DEF Close, Calling
  <2>. QED
    BY <2>1, CutOff
<1>3. ASSUME NEW r \in Runs
      PROVE  /\ known'[r] \in Knowledge /\ ~known'[r].launching /\ (known'[r].live <=> known[r].live)
             /\ known'[r].orphan = known[r].orphan /\ known'[r].sigint = known[r].sigint
             /\ known[r].live => known'[r].stopping
             /\ known[r].live => known'[r].fiber = IF known[r].stopping THEN known[r].fiber ELSE "int"
             /\ ~known[r].live => known'[r].fiber = known[r].fiber
             /\ ~known[r].live => known'[r].stopping = known[r].stopping
  <2>1. known[r] \in Knowledge
    BY <1>1
  <2>2. CASE known[r].live
    <3>1. known'[r] = [[known[r] EXCEPT !.stopping = TRUE, !.fiber = IF ~known[r].stopping THEN "int" ELSE @]
                           EXCEPT !.launching = FALSE]
      BY <2>2 DEF Close, Stopped, FirstStop
    <3>2. LET n == [[known[r] EXCEPT !.stopping = TRUE, !.fiber = IF ~known[r].stopping THEN "int" ELSE @]
                           EXCEPT !.launching = FALSE]
          IN  /\ n \in Knowledge /\ n.live = known[r].live /\ ~n.launching
              /\ n.stopping /\ n.orphan = known[r].orphan /\ n.sigint = known[r].sigint
              /\ n.fiber = IF ~known[r].stopping THEN "int" ELSE known[r].fiber
      BY <2>1, ClosingEntry, Zenon
    <3>3. /\ known'[r] \in Knowledge /\ known'[r].live = known[r].live /\ ~known'[r].launching
          /\ known'[r].stopping /\ known'[r].orphan = known[r].orphan
          /\ known'[r].sigint = known[r].sigint
          /\ known'[r].fiber = IF ~known[r].stopping THEN "int" ELSE known[r].fiber
      BY <3>1, <3>2, Zenon
    <3>. QED
      BY <2>2, <3>3
  <2>3. CASE ~known[r].live
    <3>1. known'[r] = [known[r] EXCEPT !.launching = FALSE]
      BY <2>3 DEF Close
    <3>2. LET n == [known[r] EXCEPT !.launching = FALSE]
          IN  /\ n \in Knowledge /\ n.launching = FALSE
              /\ n.live = known[r].live /\ n.stopping = known[r].stopping /\ n.orphan = known[r].orphan
              /\ n.fiber = known[r].fiber /\ n.sigint = known[r].sigint
      BY <2>1, LaunchOver, Zenon
    <3>3. /\ known'[r] \in Knowledge /\ known'[r].launching = FALSE
          /\ known'[r].live = known[r].live /\ known'[r].stopping = known[r].stopping
          /\ known'[r].orphan = known[r].orphan
          /\ known'[r].fiber = known[r].fiber /\ known'[r].sigint = known[r].sigint
      BY <3>1, <3>2, Zenon
    <3>. QED
      BY <2>3, <3>3
  <2>. QED
    BY <2>2, <2>3
<1>4. TypeOK'
  <2>1. known' \in [Runs -> Knowledge]
    BY <1>3 DEF Close
  <2>2. \A r \in Runs : known'[r].stopping => known'[r].live
    BY <1>3 DEF TypeOK
  <2>. QED
    BY <1>1, <1>2, <2>1, <2>2, CallTypes DEF TypeOK
<1>5. Signals'
  <2>1. ASSUME NEW r \in Runs, known[r].live
        PROVE  Signalled(r)'
    <3>1. Signalled(r) /\ child'[r] = child[r]
      BY <1>2, <2>1 DEF Signals, Untouched
    <3>2. /\ known'[r].live /\ known'[r].stopping /\ known'[r].orphan = "none"
          /\ known'[r].sigint = known[r].sigint
      BY <1>3, <2>1, <3>1 DEF Signalled
    <3>3. known'[r].fiber \notin ByPid /\ known'[r].fiber # "int pid"
      BY <1>3, <2>1, <3>1 DEF Signalled, ByPid
    <3>4. known'[r].fiber = "int" => known'[r].sigint = 0
      BY <1>3, <2>1, <3>1 DEF Signalled
    <3>5. known'[r].sigint \in {0, 1}
      BY <3>1, <3>2 DEF Signalled
    <3>. QED
      BY <3>2, <3>3, <3>4, <3>5 DEF Signalled
  <2>2. ASSUME NEW r \in Runs, ~known[r].live, child'[r] = child[r]
        PROVE  Signalled(r)'
    BY <1>3, <2>2, SignalledSame DEF Signals, TypeOK
  <2>3. ASSUME NEW r \in Runs, child'[r] # child[r]
        PROVE  Signalled(r)'
    <3>1. known'[r].sigint = 0 /\ known'[r].fiber = "none" /\ ~known'[r].live
      BY <1>2, <1>3, <2>3 DEF Untouched
    <3>. QED
      BY <3>1 DEF Signalled, ByPid
  <2>. QED
    BY <2>1, <2>2, <2>3 DEF Signals
<1>6. \A r \in Runs : known'[r].live \/ state[r] # "absent" \/ Untouched(r)'
  <2>1. ASSUME NEW r \in Runs, state[r] = "absent"
        PROVE  Untouched(r)'
    <3>1. Untouched(r)
      BY <2>1 DEF Unborn
    <3>. QED
      BY <1>3, <3>1 DEF Untouched
  <2>. QED
    BY <2>1
<1>. QED
  BY <1>1, <1>2, <1>3, <1>4, <1>5, <1>6, CallsOver

\* The server that is no more knows nothing.
LEMMA ForgottenKeeps ==
  ASSUME Supervised, Forgotten, child' \in [Runs -> {"none", "alive", "gone"}],
         \A r \in Runs : child'[r] # child[r] => state[r] = "starting" /\ r \notin watched
  PROVE  Supervised'
<1> USE DEF Supervised
<1>1. /\ server' = "down" /\ known' = [r \in Runs |-> Unknown]
      /\ UNCHANGED <<state, ask, servers, calls, watched>> /\ call' = [c \in Callers |-> AtRest]
  BY DEF Forgotten, registry, history
<1>2. /\ Unknown \in Knowledge /\ ~Unknown.live /\ ~Unknown.launching /\ ~Unknown.stopping
      /\ Unknown.orphan = "none" /\ Unknown.fiber = "none" /\ Unknown.sigint = 0
  BY DEF Unknown, Knowledge
<1>3. \A r \in Runs : known'[r] = Unknown
  BY <1>1
<1>4. TypeOK'
  <2>1. known' \in [Runs -> Knowledge] /\ \A r \in Runs : known'[r].stopping => known'[r].live
    BY <1>1, <1>2
  <2>. QED
    BY <1>1, <2>1, CallTypes DEF TypeOK
<1>5. \A r \in Runs : Untouched(r)'
  BY <1>2, <1>3 DEF Untouched
<1>6. Signals'
  BY <1>2, <1>3 DEF Signals, Signalled, ByPid
<1>7. \A r \in Runs : ~known'[r].launching /\ (known'[r].live => known[r].live)
  BY <1>2, <1>3
<1>. QED
  BY <1>1, <1>4, <1>5, <1>6, <1>7, CallsOver

\* The next server ends the runs that are not watched alive.
LEMMA BootKeeps ==
  ASSUME Supervised, Boot
  PROVE  Supervised'
<1> USE DEF Supervised
<1>1. /\ state \in [Runs -> States] /\ server = "down" /\ server' = "up"
      /\ servers \in 1..MaxServers /\ servers < MaxServers /\ servers' = servers + 1
      /\ UNCHANGED <<ask, child, known, call, calls, watched>>
  BY DEF TypeOK, Boot, history
<1>2. \A r \in Runs :
          /\ state'[r] \in States
          /\ state'[r] = "absent" <=> state[r] = "absent"
          /\ state'[r] = state[r] \/ state'[r] = "ended"
          /\ state[r] = "running" /\ child[r] = "alive" => state'[r] = "running"
  BY <1>1 DEF Boot, States
<1>3. TypeOK'
  <2>1. state' \in [Runs -> States]
    BY <1>2 DEF Boot
  <2>2. servers' \in 1..MaxServers
    BY <1>1, SupervisorAssumption
  <2>. QED
    BY <1>1, <2>1, <2>2 DEF TypeOK
<1>4. \A c \in Callers : call[c].at = "idle"
  BY <1>1 DEF Calls
<1>5. Calls' /\ OneStart' /\ Readings'
  BY <1>1, <1>4 DEF Calls, OneStart, Readings
<1>6. Launches'
  BY <1>1, <1>4 DEF Launches, LaunchPoints
<1>7. Unborn'
  BY <1>1, <1>2 DEF Unborn, Untouched
<1>8. Watches'
  BY <1>1, <1>2 DEF Watches
<1>9. Signals'
  BY <1>1 DEF Signals, Signalled
<1>10. RequestsApart'
  BY <1>1, <1>2, <1>4 DEF RequestsApart
<1>11. Room' /\ WithinLimit'
  BY <1>1, RoomKept, LimitKept
<1>. QED
  BY <1>3, <1>5, <1>6, <1>7, <1>8, <1>9, <1>10, <1>11

\* A registry without runs satisfies the invariant.
LEMMA SupervisedInit == Init => Supervised
<1> SUFFICES ASSUME Init
             PROVE  Supervised
  OBVIOUS
<1> USE SupervisorAssumption, CallTypes
<1>1. /\ Unknown \in Knowledge /\ ~Unknown.live /\ ~Unknown.launching /\ ~Unknown.stopping
      /\ Unknown.orphan = "none" /\ Unknown.fiber = "none" /\ Unknown.sigint = 0
  BY DEF Unknown, Knowledge
<1>2. \A r \in Runs : /\ state[r] = "absent" /\ child[r] = "none" /\ known[r] = Unknown
                      /\ r \notin watched
  BY DEF Init
<1>3. \A c \in Callers : call[c] = AtRest
  BY DEF Init
<1>4. TypeOK
  BY <1>1 DEF Init, TypeOK, States
<1>5. Calls /\ OneStart /\ Launches /\ Readings
  BY <1>1, <1>2, <1>3 DEF Calls, OneStart, Launches, Readings, LaunchPoints
<1>6. Unborn /\ Watches
  BY <1>1, <1>2 DEF Unborn, Untouched, Watches
<1>7. Signals
  BY <1>1, <1>2 DEF Signals, Signalled, ByPid
<1>8. RequestsApart /\ Room
  BY <1>2, <1>3 DEF RequestsApart, Room
<1>9. WithinLimit
  <2>1. {r \in Alive : ask[r].writes /\ (r \in watched \/ known[r].launching)} = {}
    BY <1>2 DEF Alive
  <2>2. Cardinality({}) = 0
    BY FS_EmptySet
  <2>3. ParallelRuns \in Nat
    OBVIOUS
  <2>4. Cardinality({}) <= ParallelRuns
    BY <2>2, <2>3
  <2>. QED
    BY <2>1, <2>4 DEF WithinLimit
<1>. QED
  BY <1>4, <1>5, <1>6, <1>7, <1>8, <1>9 DEF Supervised

\* Every step keeps it.
LEMMA SupervisedStep == Supervised /\ [Next]_vars => Supervised'
<1> SUFFICES ASSUME Supervised, [Next]_vars
             PROVE  Supervised'
  OBVIOUS
<1>1. ASSUME NEW c \in Callers, Request(c) \/ Continue(c) \/ Cancel(c)
      PROVE  Supervised'
  BY <1>1, RequestKeeps, ContinueKeeps, CancelKeeps
<1>2. ASSUME NEW r \in Runs, Fibers(r) \/ ChildExits(r)
      PROVE  Supervised'
  BY <1>2, FibersKeep, ChildExitsKeeps
<1>3. CASE Close
  BY <1>3, CloseKeeps
<1>4. CASE Closed
  <2>1. child' = child /\ Forgotten /\ child \in [Runs -> {"none", "alive", "gone"}]
    BY <1>4 DEF Closed, Supervised, TypeOK
  <2>. QED
    BY <2>1, ForgottenKeeps
<1>5. CASE Crash
  <2>1. Calling \in SUBSET Callers /\ CutOffSpawns(Calling) /\ Forgotten
    BY <1>5 DEF Crash, Calling
  <2>2. /\ child' \in [Runs -> {"none", "alive", "gone"}]
        /\ \A r \in Runs : child'[r] # child[r] => state[r] = "starting" /\ r \notin watched
    BY <2>1, CutOff
  <2>. QED
    BY <2>1, <2>2, ForgottenKeeps
<1>6. CASE Boot
  BY <1>6, BootKeeps
<1>7. CASE UNCHANGED vars
  <2>1. UNCHANGED <<state, ask, child, server, servers, known, call, calls, watched>>
    BY <1>7 DEF vars, registry, host, history
  <2>2. TypeOK' /\ Calls' /\ OneStart' /\ Launches'
    BY <2>1 DEF Supervised, TypeOK, Calls, OneStart, Launches
  <2>3. Unborn' /\ Watches' /\ Signals'
    BY <2>1, Zenon DEF Supervised, Unborn, Untouched, Watches, Signals, Signalled
  <2>4. Readings' /\ RequestsApart'
    BY <2>1 DEF Supervised, Readings, RequestsApart, NewRequest
  <2>5. Room' /\ WithinLimit'
    BY <2>1 DEF Supervised, Room, Writing, WithinLimit, Alive
  <2>. QED
    BY <2>2, <2>3, <2>4, <2>5 DEF Supervised
<1>. QED
  BY <1>1, <1>2, <1>3, <1>4, <1>5, <1>6, <1>7 DEF Next

\* The invariant holds of every reachable state.
LEMMA Invariance == Spec => []Supervised
<1>. QED
  BY SupervisedInit, SupervisedStep, PTL DEF Spec
-----------------------------------------------------------------------------
\* TypeOK holds of every state: what the supervisor keeps has its type.
THEOREM TypeCorrect == Spec => []TypeOK
<1>1. Supervised => TypeOK
  BY DEF Supervised
<1>. QED
  BY <1>1, Invariance, PTL

\* Decide's refusal and the lock keep the writing flows of the runs that are watched or
\* being launched to the limit, whatever was read of the registry, across restarts.
THEOREM LimitHolds == Spec => []WithinLimit
<1>1. Supervised => WithinLimit
  BY DEF Supervised
<1>. QED
  BY <1>1, Invariance, PTL

\* A request id repeated to any server, at any time, has started one process.
THEOREM OneProcessPerRequest == Spec => []OneRunPerRequest
<1>1. Supervised => OneRunPerRequest
  <2> SUFFICES ASSUME Supervised
               PROVE  OneRunPerRequest
    OBVIOUS
  <2>1. \A r \in Runs : child[r] # "none" => state[r] # "absent"
    BY DEF Supervised, Unborn
  <2>. QED
    BY <2>1 DEF Supervised, RequestsApart, OneRunPerRequest
<1>. QED
  BY <1>1, Invariance, PTL

\* No server signals SIGINT twice to a run, by its handle, by its pid or by both.
THEOREM SigintOnce == Spec => []SignalledOnce
<1>1. Supervised => SignalledOnce
  <2> SUFFICES ASSUME Supervised, NEW r \in Runs
               PROVE  known[r].sigint <= 1
    BY DEF SignalledOnce
  <2>1. known[r].sigint \in {0, 1}
    BY DEF Supervised, Signals, Signalled
  <2>2. CASE known[r].sigint = 0
    BY <2>2
  <2>3. CASE known[r].sigint = 1
    BY <2>3
  <2>. QED
    BY <2>1, <2>2, <2>3
<1>. QED
  BY <1>1, Invariance, PTL

-----------------------------------------------------------------------------
(* The refinement of RunLife.                                              *)

\* A step of RunLife, or none.
LifeStep == Promise!Next \/ UNCHANGED <<Life, child>>

\* Runs are ended while the registry does not say so yet: no run that was live among
\* them, unless its process is gone.
LEMMA Ends ==
  ASSUME Supervised, NEW S \in SUBSET Runs, UNCHANGED <<child, watched>>,
         \A r \in S : state[r] # "absent" /\ (r \in watched => child[r] # "alive"),
         \A r \in Runs : state'[r] = IF r \in S THEN "ended" ELSE state[r]
  PROVE  LifeStep
<1> DEFINE T == {r \in S : state[r] # "ended"}
<1>1. state \in [Runs -> States] /\ child \in [Runs -> {"none", "alive", "gone"}]
  BY DEF Supervised, TypeOK
<1>2. \A r \in T : Life[r] = "starting" \/ (Life[r] = "running" /\ child[r] = "gone")
  <2> SUFFICES ASSUME NEW r \in T
               PROVE  Life[r] = "starting" \/ (Life[r] = "running" /\ child[r] = "gone")
    OBVIOUS
  <2>1. state[r] \in {"starting", "running"}
    BY <1>1 DEF States
  <2>2. CASE r \notin watched
    BY <2>1, <2>2 DEF Life
  <2>3. CASE r \in watched
    BY <1>1, <2>1, <2>3 DEF Life, Supervised, Watches
  <2>. QED
    BY <2>2, <2>3
<1>3. Life' = [r \in Runs |-> IF r \in T THEN "ended" ELSE Life[r]]
  <2>1. \A r \in Runs : Life'[r] = IF r \in T THEN "ended" ELSE Life[r]
    BY DEF Life
  <2>. QED
    BY <2>1 DEF Life
<1>4. Promise!End(T)
  BY <1>2, <1>3 DEF Promise!End
<1>5. T \in SUBSET Runs
  OBVIOUS
<1>. QED
  BY <1>4, <1>5 DEF LifeStep, Promise!Next

\* A process that starts is that of a run which is announced.
LEMMA Starts ==
  ASSUME Supervised, NEW S \in SUBSET Callers, CutOffSpawns(S), UNCHANGED <<state, watched>>
  PROVE  LifeStep
<1>1. child \in [Runs -> {"none", "alive", "gone"}] /\ child' \in [Runs -> {"none", "alive", "gone"}]
  BY CutOff DEF Supervised, TypeOK
<1>2. Life' = Life
  BY DEF Life
<1>3. CASE \A r \in Runs : child'[r] = child[r]
  <2>1. child' = child
    BY <1>1, <1>3
  <2>. QED
    BY <1>2, <2>1 DEF LifeStep
<1>4. ASSUME NEW r \in Runs, child'[r] # child[r]
      PROVE  LifeStep
  <2>1. /\ child'[r] = "alive" /\ child[r] = "none" /\ state[r] = "starting"
        /\ \E c \in S : call[c].at = "spawning" /\ call[c].run = r
    BY <1>4, CutOff
  <2>2. \A q \in Runs : q # r => child'[q] = child[q]
    <3>1. SUFFICES ASSUME NEW q \in Runs, q # r, child'[q] # child[q]
                   PROVE  FALSE
      OBVIOUS
    <3>2. \E c \in S : call[c].at = "spawning" /\ call[c].run = q
      BY <3>1, CutOff
    <3>3. \A c \in S : call[c].at = "spawning" => call[c].op = "start"
      BY DEF Supervised, Calls, LaunchPoints
    <3>. QED
      BY <2>1, <3>1, <3>2, <3>3 DEF Supervised, OneStart
  <2>3. child' = [child EXCEPT ![r] = "alive"]
    BY <1>1, <2>1, <2>2
  <2>4. Life[r] = "starting"
    BY <2>1 DEF Life
  <2>5. Promise!Spawn(r)
    BY <1>2, <2>1, <2>3, <2>4 DEF Promise!Spawn
  <2>. QED
    BY <2>5 DEF LifeStep, Promise!Next
<1>. QED
  BY <1>3, <1>4

\* Each step of the fiber of a call is one of RunLife, or none.
LEMMA ContinueRefines ==
  ASSUME Supervised, NEW c \in Callers, Continue(c)
  PROVE  LifeStep
<1>1. /\ state \in [Runs -> States] /\ child \in [Runs -> {"none", "alive", "gone"}]
      /\ call \in [Callers -> CallStates] /\ call[c] \in CallStates
  BY DEF Supervised, TypeOK
<1>2. ASSUME UNCHANGED <<state, child, watched>>
      PROVE  LifeStep
  BY <1>2 DEF LifeStep, Life
<1>3. ASSUME NEW r \in Runs, Reconcile(c, r)
      PROVE  LifeStep
  <2>1. UNCHANGED <<child, watched>>
    BY <1>3 DEF Reconcile, host, history
  <2>2. CASE state' = state
    BY <1>2, <2>1, <2>2
  <2>3. CASE state' # state
    <3>1. /\ state' = [state EXCEPT ![r] = "ended"] /\ Unwatched(r)
          /\ call[c].read[r] = "starting" \/ child[r] # "alive"
          /\ call[c].at = "reading" /\ r \in call[c].todo
      BY <1>3, <2>3 DEF Reconcile
    <3>2. state[r] # "absent" /\ (r \in watched => child[r] # "alive")
      BY <3>1 DEF Supervised, Readings, Unwatched, Active
    <3>3. \A q \in Runs : state'[q] = IF q \in {r} THEN "ended" ELSE state[q]
      BY <1>1, <3>1
    <3>. QED
      BY <2>1, <3>2, <3>3, Ends
  <2>. QED
    BY <2>2, <2>3
<1>4. CASE RecordStarting(c)
  <2>1. PICK r \in Runs : /\ r = call[c].run /\ r \notin watched /\ state[r] = "absent"
                          /\ state' = [state EXCEPT ![r] = "starting"]
    BY <1>4 DEF RecordStarting, Supervised, Launches, LaunchPoints
  <2>2. UNCHANGED <<child, watched>>
    BY <1>4 DEF RecordStarting, host, history
  <2>3. \A q \in Runs : Life'[q] = IF q = r THEN "starting" ELSE Life[q]
    BY <1>1, <2>1, <2>2 DEF Life
  <2>4. Life[r] = "absent" /\ Life' = [Life EXCEPT ![r] = "starting"]
    BY <2>1, <2>3 DEF Life
  <2>5. Promise!Announce(r)
    BY <2>2, <2>4 DEF Promise!Announce
  <2>. QED
    BY <2>5 DEF LifeStep, Promise!Next
<1>5. CASE Spawn(c)
  <2>1. PICK r \in Runs : /\ r = call[c].run /\ r \notin watched
                          /\ state[r] = "starting" /\ child[r] = "none"
    BY <1>5 DEF Spawn, Supervised, Launches, LaunchPoints
  <2>2. watched' = watched
    BY <1>5 DEF Spawn, history
  <2>3. CASE child' = [child EXCEPT ![r] = "alive"] /\ UNCHANGED state
    <3>1. Life' = Life /\ Life[r] = "starting"
      BY <2>1, <2>2, <2>3 DEF Life
    <3>2. Promise!Spawn(r)
      BY <2>1, <2>3, <3>1 DEF Promise!Spawn
    <3>. QED
      BY <3>2 DEF LifeStep, Promise!Next
  <2>4. CASE state' = state /\ UNCHANGED child
    BY <1>2, <2>2, <2>4
  <2>5. CASE state' = [state EXCEPT ![r] = "ended"] /\ UNCHANGED child
    <3>1. \A q \in Runs : state'[q] = IF q \in {r} THEN "ended" ELSE state[q]
      BY <1>1, <2>5
    <3>. QED
      BY <2>1, <2>2, <2>5, <3>1, Ends
  <2>. QED
    BY <1>5, <2>1, <2>3, <2>4, <2>5 DEF Spawn
<1>6. CASE RecordRunning(c)
  <2>1. PICK r \in Runs : /\ r \notin watched /\ state[r] = "starting"
                          /\ state' = [state EXCEPT ![r] = "running"]
    BY <1>6 DEF RecordRunning, Supervised, Launches, LaunchPoints
  <2>2. UNCHANGED <<child, watched>>
    BY <1>6 DEF RecordRunning, host, history
  <2>3. \A q \in Runs : Life'[q] = Life[q]
    BY <1>1, <2>1, <2>2 DEF Life
  <2>4. Life' = Life
    BY <2>3 DEF Life
  <2>. QED
    BY <2>2, <2>4 DEF LifeStep
<1>7. CASE Enter(c)
  <2>1. PICK r \in Runs : /\ r \notin watched /\ state[r] = "running" /\ child[r] # "none"
                          /\ watched' = watched \cup {r}
    BY <1>7 DEF Enter, Supervised, Launches, LaunchPoints
  <2>2. UNCHANGED <<state, child>>
    BY <1>7 DEF Enter, host, registry
  <2>3. \A q \in Runs : Life'[q] = IF q = r THEN "running" ELSE Life[q]
    BY <2>1, <2>2 DEF Life
  <2>4. Life[r] = "starting" /\ Life' = [Life EXCEPT ![r] = "running"]
    BY <2>1, <2>3 DEF Life
  <2>5. Promise!Report(r)
    BY <2>1, <2>2, <2>4 DEF Promise!Report
  <2>. QED
    BY <2>5 DEF LifeStep, Promise!Next
<1>8. CASE Listed(c) \/ Decide(c) \/ StopKnown(c) \/ AwaitFinal(c) \/ AwaitOutcome(c)
  <2>1. UNCHANGED <<state, child, watched>>
    BY <1>8 DEF Listed, Decide, StopKnown, AwaitFinal, AwaitOutcome, registry, host, history
  <2>. QED
    BY <1>2, <2>1
<1>. QED
  BY <1>3, <1>4, <1>5, <1>6, <1>7, <1>8 DEF Continue

\* So is each step of what watches and signals the runs.
LEMMA FibersRefine ==
  ASSUME Supervised, NEW r \in Runs, Fibers(r)
  PROVE  LifeStep
<1>1. /\ UNCHANGED <<child, watched>>
      /\ state' = state \/ state' = [state EXCEPT ![r] = "ended"]
      /\ state' # state => child[r] = "gone"
  BY DEF Fibers, Watch, Escalate, EscalateOrphan, registry, host, history
<1>2. CASE state' = state
  BY <1>1, <1>2 DEF LifeStep, Life
<1>3. CASE state' # state
  <2>1. \A q \in Runs : state'[q] = IF q \in {r} THEN "ended" ELSE state[q]
    BY <1>1, <1>3 DEF Supervised, TypeOK
  <2>2. state[r] # "absent"
    BY <1>1, <1>3 DEF Supervised, Unborn
  <2>. QED
    BY <1>1, <1>3, <2>1, <2>2, Ends
<1>. QED
  BY <1>2, <1>3

\* Every step of the supervisor is one of RunLife, or none.
LEMMA StepRefines == Supervised /\ [Next]_vars => LifeStep
<1> SUFFICES ASSUME Supervised, [Next]_vars
             PROVE  LifeStep
  OBVIOUS
<1>1. ASSUME UNCHANGED <<state, child, watched>>
      PROVE  LifeStep
  BY <1>1 DEF LifeStep, Life
<1>2. ASSUME NEW c \in Callers, Request(c)
      PROVE  LifeStep
  <2>1. UNCHANGED <<state, child, watched>>
    BY <1>2 DEF Request, List, Start, Stop, registry, host
  <2>. QED
    BY <1>1, <2>1
<1>3. ASSUME NEW c \in Callers, Continue(c)
      PROVE  LifeStep
  BY <1>3, ContinueRefines
<1>4. ASSUME NEW c \in Callers, Cancel(c)
      PROVE  LifeStep
  <2>1. {c} \in SUBSET Callers /\ CutOffSpawns({c}) /\ UNCHANGED <<state, watched>>
    BY <1>4 DEF Cancel, registry, history
  <2>. QED
    BY <2>1, Starts
<1>5. ASSUME NEW r \in Runs, Fibers(r)
      PROVE  LifeStep
  BY <1>5, FibersRefine
<1>6. ASSUME NEW r \in Runs, ChildExits(r)
      PROVE  LifeStep
  <2>1. Life' = Life
    BY <1>6 DEF ChildExits, registry, history, Life
  <2>2. Promise!Exit(r)
    BY <1>6, <2>1 DEF ChildExits, Promise!Exit
  <2>. QED
    BY <2>2 DEF LifeStep, Promise!Next
<1>7. CASE Close \/ Crash
  <2>1. Calling \in SUBSET Callers /\ CutOffSpawns(Calling) /\ UNCHANGED <<state, watched>>
    BY <1>7 DEF Close, Crash, Forgotten, Calling, registry, history
  <2>. QED
    BY <2>1, Starts
<1>8. CASE Closed \/ UNCHANGED vars
  <2>1. UNCHANGED <<state, child, watched>>
    BY <1>8 DEF Closed, Forgotten, vars, registry, host, history
  <2>. QED
    BY <1>1, <2>1
<1>9. CASE Boot
  <2> DEFINE S == {r \in Runs : state[r] = "starting" \/ (state[r] = "running" /\ child[r] # "alive")}
  <2>1. UNCHANGED <<child, watched>>
    BY <1>9 DEF Boot, history
  <2>2. \A r \in Runs : state'[r] = IF r \in S THEN "ended" ELSE state[r]
    BY <1>9 DEF Boot
  <2>3. \A r \in S : state[r] # "absent" /\ (r \in watched => child[r] # "alive")
    BY DEF Supervised, Watches
  <2>4. S \in SUBSET Runs
    OBVIOUS
  <2> HIDE DEF S
  <2>. QED
    BY <2>1, <2>2, <2>3, <2>4, Ends
<1>. QED
  BY <1>2, <1>3, <1>4, <1>5, <1>6, <1>7, <1>8, <1>9 DEF Next

\* The supervisor implements RunLife: whatever its clients, its children and its crashes do,
\* a run that was live is called ended once and for good, and only when its process is gone.
THEOREM PromiseKept == Spec => KeepsPromise
<1>1. Init => Promise!Init
  BY DEF Init, Promise!Init, Life
<1>2. Supervised /\ [Next]_vars => [Promise!Next]_<<Life, child>>
  BY StepRefines DEF LifeStep
<1>. QED
  BY <1>1, <1>2, Invariance, PTL DEF Spec, KeepsPromise, Promise!Spec
=============================================================================
