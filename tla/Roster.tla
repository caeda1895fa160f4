------------------------------- MODULE Roster -------------------------------
(***************************************************************************)
(* The executor roster of packages/flow/src/Roster.ts: executors with      *)
(* slots, leased by role to contexts that run concurrently, through the    *)
(* seats of RosterSeats.ts.                                                *)
(*                                                                         *)
(* A context is a fiber with a scope: a story that leases a coder for its  *)
(* lifetime, and while it holds it leases one reasoning slot per call.  A  *)
(* call that fails moves once to another executor; a failure of the coder  *)
(* hands the story over to the next one.                                   *)
(* Every critical section of the roster runs under one semaphore and is    *)
(* synchronous, so it is one step here.  A step ends where the fiber       *)
(* awaits something: an event to be published, the state file to be        *)
(* written, a probe to answer, a timer or the wake-up Deferred.            *)
(***************************************************************************)
EXTENDS Naturals, FiniteSets, Sequences

CONSTANTS
    Executors,      \* the ids of the roster's executors
    Contexts,       \* the fibers that lease from it
    Operators,      \* who pauses and resumes executors, each by one call at a time
    Takes,          \* the roles each executor takes
    Slots,          \* slotsOf
    CoderSlots,     \* coderSlotsOf
    Priority,       \* priorityOf: lower first, per executor and role
    Kinds,          \* the exclusion kinds a run meets
    Interrupts,     \* whether a context may be interrupted
    MaxHandovers,   \* maxHandovers of a held coder
    MaxCalls,       \* bound: reasoning calls of one context
    MaxChanges      \* bound: exclusions, and resumes of them, in one behaviour

Roles == {"coder", "reviewer"}  \* planner, judge and verifier lease as reviewer does

ASSUME ExecutorsAssumption == IsFiniteSet(Executors)
ASSUME SlotsAssumption ==
    /\ Slots \in [Executors -> Nat \ {0}]
    /\ CoderSlots \in [Executors -> Nat]
    /\ \A e \in Executors : CoderSlots[e] <= Slots[e]
ASSUME SpecsAssumption ==
    /\ Takes \in [Executors -> SUBSET Roles]
    /\ Priority \in [Executors -> [Roles -> Nat]]
    /\ Kinds \subseteq {"until", "health", "run", "manual"}
    /\ Interrupts \in BOOLEAN
    /\ MaxHandovers \in Nat
    /\ MaxCalls \in Nat
    /\ MaxChanges \in Nat

VARIABLES
    busy,       \* usage.busy, per executor
    busyCoders, \* usage.busyCoders, per executor
    clones,     \* the clone numbers in use, per executor
    turn,       \* lastLeased as a rank: the lower, the longer ago (bounded form of the counter)
    excl,       \* exclusions: kind, and whether its instant (or next probe) has come
    seats,      \* the slots taken and not yet freed, whoever still knows of them
    pc,         \* where each context's fiber awaits
    want,       \* the role the context's current lease asks for
    because,    \* Lease.because of the context's current call
    tried,      \* the executors the context's current call has failed on
    handovers,  \* how often the context's coder was handed over
    due,        \* the exclusions the context's probeDue still has to probe
    waiting,    \* contexts whose wake-up Deferred has not been completed
    timed,      \* contexts whose wait races a timer
    telling,    \* the executor each operator paused or resumed and has not signalled yet
    callsLeft, changesLeft

vars == <<busy, busyCoders, clones, turn, excl, seats, pc, want, because, tried, handovers,
          due, waiting, timed, telling, callsLeft, changesLeft>>
usage == <<busy, busyCoders, clones, turn, seats>>
moves == <<tried, handovers>>
wakes == <<waiting, timed, telling>>
bounds == <<callsLeft, changesLeft>>

InRound == [kind |-> "none", due |-> FALSE]
Final == {"ended", "interrupted"}
Points == {"idle", "asking", "checking", "owning", "announced", "probing",
           "recovered", "saving", "asleep", "taken", "held", "calling", "failing", "reported",
           "coderFailed", "handing", "exhausted"} \cup Final

Init ==
    /\ busy = [e \in Executors |-> 0]
    /\ busyCoders = [e \in Executors |-> 0]
    /\ clones = [e \in Executors |-> {}]
    /\ turn \in [Executors -> 1..Cardinality(Executors)]
    /\ \A e, f \in Executors : turn[e] = turn[f] => e = f
    /\ excl = [e \in Executors |-> InRound]
    /\ seats = {}
    /\ pc = [c \in Contexts |-> "idle"]
    /\ want = [c \in Contexts |-> "coder"]
    /\ because = [c \in Contexts |-> "none"]
    /\ tried = [c \in Contexts |-> <<>>]
    /\ handovers = [c \in Contexts |-> 0]
    /\ due = [c \in Contexts |-> {}]
    /\ waiting = {} /\ timed = {} /\ telling = [o \in Operators |-> {}]
    /\ callsLeft = [c \in Contexts |-> MaxCalls]
    /\ changesLeft = MaxChanges

-----------------------------------------------------------------------------
(* Who may be leased, and which of them is.                                *)

SeatsOf(c) == {s \in seats : s.of = c}
Own(c) == {s.on : s \in {t \in SeatsOf(c) : t.role = "coder"}}
AvoidNobody(c) == {}
Tried(c) == {tried[c][i] : i \in DOMAIN tried[c]}
Avoid(c) == IF want[c] = "coder" THEN {} ELSE Own(c) \cup Tried(c)
BorrowInRound(c) == {e \in Own(c) : "reviewer" \in Takes[e] /\ excl[e].kind = "none"}
Borrow(c) == IF want[c] = "coder" THEN {} ELSE {e \in Own(c) : "reviewer" \in Takes[e]}

Expired == {e \in Executors : excl[e].kind = "until" /\ excl[e].due}
AfterExpire == [e \in Executors |-> IF e \in Expired THEN InRound ELSE excl[e]]

AnySlotFree(e, r) == busy[e] < Slots[e]
FreeFor(e, r) ==
    /\ busy[e] < Slots[e]
    /\ r = "coder" => busyCoders[e] < CoderSlots[e]

Eligible(r, avoid, ex) == {e \in Executors \ avoid : r \in Takes[e] /\ ex[e].kind = "none"}
Candidates(r, avoid) == {e \in Eligible(r, avoid, AfterExpire) : FreeFor(e, r)}

Best(r, cands) ==
    {e \in cands : \A f \in cands :
        \/ Priority[e][r] < Priority[f][r]
        \/ Priority[e][r] = Priority[f][r] /\ turn[e] <= turn[f]}

\* The preferred executor while it ranks with the best free one, else the best.
Pick(r, avoid, prefer) ==
    LET cands == Candidates(r, avoid)
        ranked == {e \in prefer \cap cands :
                      \A f \in cands : Priority[e][r] <= Priority[f][r]}
    IN  IF ranked # {} THEN ranked ELSE Best(r, cands)

NextNumber(used) == Cardinality(used) + 1
FromZero(used) == CHOOSE n \in 0..Cardinality(used) : n \notin used

\* The lowest clone number not in use (a number within one of their count).
LowestFree(used) ==
    LET free == {n \in 1..(Cardinality(used) + 1) : n \notin used}
    IN  CHOOSE n \in free : \A m \in free : n <= m

CanEverServe(c) ==
    \E e \in Executors \ Avoid(c) : want[c] \in Takes[e] /\ excl[e].kind # "run"

OnlyOut(c) == IF Eligible(want[c], Avoid(c), excl) = {} THEN "out" ELSE "none"
Blocked(c) ==
    LET round == Eligible(want[c], Avoid(c), excl)
    IN  IF round = {} THEN "out"
        ELSE IF \A e \in round : busyCoders[e] >= Slots[e] THEN "held"
        ELSE "none"

-----------------------------------------------------------------------------
(* Taking and freeing a slot, under the lock.                              *)

Take(c, e) ==
    LET n == LowestFree(clones[e])
        isCoder == want[c] = "coder"
    IN  /\ busy' = [busy EXCEPT ![e] = @ + 1]
        /\ busyCoders' = [busyCoders EXCEPT ![e] = IF isCoder THEN @ + 1 ELSE @]
        /\ clones' = [clones EXCEPT ![e] = @ \cup {n}]
        /\ turn' = [f \in Executors |->
                       IF f = e THEN Cardinality(Executors)
                       ELSE IF turn[f] > turn[e] THEN turn[f] - 1 ELSE turn[f]]
        /\ seats' = seats \cup {[of |-> c, role |-> want[c], on |-> e, clone |-> n]}

SignalNobody == UNCHANGED waiting
Signal == waiting' = {}

On(S, e) == {s \in S : s.on = e}
Coding(S) == {s \in S : s.role = "coder"}
Less(n, k) == IF n > k THEN n - k ELSE 0

\* Frees the slots of `gone` and completes the wake-up Deferred.
Free(gone) ==
    LET freed(e) == On(gone, e)
    IN  /\ busy' = [e \in Executors |-> Less(busy[e], Cardinality(freed(e)))]
        /\ busyCoders' = [e \in Executors |->
                             Less(busyCoders[e], Cardinality(Coding(freed(e))))]
        /\ clones' = [e \in Executors |-> clones[e] \ {s.clone : s \in freed(e)}]
        /\ seats' = seats \ gone
        /\ IF gone = {} THEN UNCHANGED waiting ELSE Signal
        /\ UNCHANGED turn

At(c, point) == pc[c] = point
Goto(c, point) == pc' = [pc EXCEPT ![c] = point]

\* One attempt: expire, pick, take.  `Otherwise` is what the fiber goes on
\* with when nobody is free.
Attempt(c, avoid, prefer, Otherwise) ==
    /\ excl' = AfterExpire
    /\ \/ Candidates(want[c], avoid) = {} /\ Otherwise /\ UNCHANGED usage
       \/ \E e \in Pick(want[c], avoid, prefer) :
             Take(c, e) /\ Goto(c, "taken") /\ UNCHANGED <<because, wakes>>

-----------------------------------------------------------------------------
(* One lease, from the asking to the slot.                                 *)

\* A story leases its coder, or a flow without one makes a reasoning call.
Ask(c) ==
    /\ At(c, "idle")
    /\ \E r \in Roles : want' = [want EXCEPT ![c] = r]
    /\ because' = [because EXCEPT ![c] = "none"]
    /\ Goto(c, "asking")
    /\ UNCHANGED <<usage, excl, moves, due, wakes, bounds>>

\* tryLease: a coder now, or none at all.
TryLease(c) ==
    /\ At(c, "idle")
    /\ want[c] = "coder"
    /\ Attempt(c, {}, {}, Goto(c, "ended") /\ UNCHANGED <<because, wakes>>)
    /\ UNCHANGED <<want, moves, due, bounds>>

\* The context that holds a coder makes a reasoning call.
Call(c) ==
    /\ At(c, "held")
    /\ callsLeft[c] > 0
    /\ callsLeft' = [callsLeft EXCEPT ![c] = @ - 1]
    /\ want' = [want EXCEPT ![c] = "reviewer"]
    /\ because' = [because EXCEPT ![c] = "none"]
    /\ Goto(c, "asking")
    /\ UNCHANGED <<usage, excl, moves, due, wakes, changesLeft>>

\* Nobody can ever serve, independence is blocked, or the lease must wait.
Decide(c) ==
    LET why == IF ~CanEverServe(c) THEN "nobody" ELSE Blocked(c)
        own == \/ why = "nobody" /\ Borrow(c) # {}
               \/ why \in {"held", "out"} /\ \E e \in Borrow(c) : excl[e].kind = "none"
    IN  /\ because' = [because EXCEPT ![c] = IF own THEN why ELSE "none"]
        /\ Goto(c, IF own THEN "owning"
                   ELSE IF why = "nobody" THEN "exhausted" ELSE "announced")
        /\ UNCHANGED wakes

\* The first attempt, and the checks after it: an attempt that ended an
\* exclusion writes the state file between the two.
FirstAttempt(c) ==
    /\ At(c, "asking")
    /\ Attempt(c, Avoid(c), {},
               IF Expired = {} THEN Decide(c)
               ELSE Goto(c, "checking") /\ UNCHANGED <<because, wakes>>)
    /\ UNCHANGED <<want, moves, due, bounds>>

Check(c) ==
    /\ At(c, "checking")
    /\ Decide(c)
    /\ UNCHANGED <<usage, excl, want, moves, due, bounds>>

\* takeOwn: the context's own executor, on a slot of its own or without one;
\* someone else who came back is independent after all.
TakeOwn(c) ==
    /\ At(c, "owning")
    /\ excl' = AfterExpire
    /\ LET avoid == Avoid(c) \ Borrow(c) IN
         \/ /\ Candidates(want[c], avoid) = {}
            /\ Goto(c, "calling")
            /\ UNCHANGED <<usage, because>>
         \/ \E e \in Pick(want[c], avoid, Borrow(c)) :
               /\ Take(c, e)
               /\ Goto(c, "taken")
               /\ because' = IF e \in Borrow(c) THEN because ELSE [because EXCEPT ![c] = "none"]
    /\ UNCHANGED <<want, moves, due, wakes, bounds>>

StartProbes(c) ==
    /\ At(c, "announced")
    /\ due' = [due EXCEPT ![c] = {e \in Executors : excl[e].kind = "health" /\ excl[e].due}]
    /\ Goto(c, "probing")
    /\ UNCHANGED <<usage, excl, want, because, moves, wakes, bounds>>

\* A probe answers, whatever happened to the exclusion meanwhile: up ends it, and
\* is told of next; down sets the next probe; with nothing to probe the outage
\* cooldown decides.
Answer(c, e) ==
    /\ At(c, "probing")
    /\ e \in due[c]
    /\ due' = [due EXCEPT ![c] = @ \ {e}]
    /\ \/ excl' = [excl EXCEPT ![e] = InRound] /\ Goto(c, "recovered")
       \/ /\ \E kind \in {"health", "until"} :
                excl' = [excl EXCEPT ![e] = [kind |-> kind, due |-> FALSE]]
          /\ UNCHANGED pc
    /\ UNCHANGED <<usage, want, because, moves, wakes, bounds>>

\* The wake-up comes once the recovery is published and saved.
Recovered(c) ==
    /\ At(c, "recovered")
    /\ Signal
    /\ Goto(c, "probing")
    /\ UNCHANGED <<usage, excl, want, because, moves, due, timed, telling, bounds>>

\* waitOrProbe: takes the wake-up Deferred and races it with the soonest
\* deadline, or with the probe interval while a health exclusion waits.
Arm(c) ==
    /\ waiting' = waiting \cup {c}
    /\ timed' = IF \E e \in Executors :
                      \/ excl[e].kind = "health"
                      \/ excl[e].kind = "until" /\ want[c] \in Takes[e]
                THEN timed \cup {c} ELSE timed \ {c}
    /\ UNCHANGED telling

\* The second attempt.  When it ended an exclusion, the fiber writes the
\* state file before it takes the Deferred; otherwise it takes it at once.
Retry(c) ==
    /\ At(c, "probing")
    /\ due[c] = {}
    /\ Attempt(c, Avoid(c), {},
               /\ UNCHANGED because
               /\ IF Expired = {} THEN Arm(c) /\ Goto(c, "asleep")
                  ELSE Goto(c, "saving") /\ UNCHANGED wakes)
    /\ UNCHANGED <<want, moves, due, bounds>>

Saved(c) ==
    /\ At(c, "saving")
    /\ Arm(c)
    /\ Goto(c, "asleep")
    /\ UNCHANGED <<usage, excl, want, because, moves, due, bounds>>

Wake(c) ==
    /\ At(c, "asleep")
    /\ c \notin waiting \/ c \in timed
    /\ waiting' = waiting \ {c} /\ timed' = timed \ {c}
    /\ Goto(c, "asking")
    /\ UNCHANGED <<usage, excl, want, because, moves, due, telling, bounds>>

\* leaseOf: the finalizer that frees the slot is registered.
Leased(c) ==
    /\ At(c, "taken")
    /\ Goto(c, IF want[c] = "coder" THEN "held" ELSE "calling")
    /\ UNCHANGED <<usage, excl, want, because, moves, due, wakes, bounds>>

-----------------------------------------------------------------------------
(* The ends of a lease.                                                    *)

CallSeats(c) == {s \in SeatsOf(c) : s.role = "reviewer"}

\* The context goes on after a call, which succeeded or failed for good.
Done(c) ==
    /\ Goto(c, IF Own(c) = {} THEN "ended" ELSE "held")
    /\ tried' = [tried EXCEPT ![c] = <<>>]
    /\ UNCHANGED handovers

\* The scope of one call closes.
EndCall(c) ==
    /\ At(c, "calling")
    /\ Free(CallSeats(c))
    /\ Done(c)
    /\ UNCHANGED <<excl, want, because, due, timed, telling, bounds>>

\* The scope of the context closes: it is done, or its lease failed RosterExhausted.
EndStory(c) ==
    /\ pc[c] \in {"held", "exhausted"}
    /\ Free(SeatsOf(c))
    /\ Goto(c, "ended")
    /\ UNCHANGED <<excl, want, because, moves, due, timed, telling, bounds>>

\* A slot taken whose finalizer is not registered yet: its scope does not know it.
Unregistered(c) == IF pc[c] = "taken" THEN {s \in SeatsOf(c) : s.role = want[c]} ELSE {}

\* The context is interrupted where it awaits; its scope closes.
Interrupt(c) ==
    /\ Interrupts
    /\ pc[c] \notin Final \cup {"idle"}
    /\ Free(SeatsOf(c) \ Unregistered(c))
    /\ Goto(c, "interrupted")
    /\ due' = [due EXCEPT ![c] = {}] /\ timed' = timed \ {c}
    /\ UNCHANGED <<excl, want, because, moves, telling, bounds>>

-----------------------------------------------------------------------------
(* Calls whose failure takes their executor out of the round.              *)

ReportedKinds == Kinds \ {"manual"}
OneChange == changesLeft > 0 /\ changesLeft' = changesLeft - 1
Out(e, kind) == excl' = [excl EXCEPT ![e] = [kind |-> kind, due |-> kind = "health"]]

\* Who serves the call: the lease's executor, or the own one without a slot.
Serving(c) == IF CallSeats(c) = {} THEN Own(c) ELSE {s.on : s \in CallSeats(c)}

\* The slot is released before the failure is reported.
FailCall(c) ==
    /\ At(c, "calling")
    /\ OneChange
    /\ \E e \in Serving(c) : tried' = [tried EXCEPT ![c] = Append(@, e)]
    /\ Free(CallSeats(c))
    /\ Goto(c, "failing")
    /\ UNCHANGED <<excl, want, because, handovers, due, timed, telling, callsLeft>>

Last(c) == tried[c][Len(tried[c])]

\* report: the wake-up comes once the exclusion is saved.
Report(c) ==
    /\ At(c, "failing")
    /\ \E kind \in ReportedKinds : Out(Last(c), kind)
    /\ Goto(c, "reported")
    /\ UNCHANGED <<usage, want, because, moves, due, wakes, bounds>>

\* retryElsewhere: the call moves once, to its own executor or an independent one.
OwnElse(c) == \E e \in Borrow(c) : e # Last(c)
MovesOn(c) == Len(tried[c]) = 1 /\ (OwnElse(c) \/ CanEverServe(c))

Move(c) ==
    /\ At(c, "reported")
    /\ Signal
    /\ because' = [because EXCEPT ![c] = "none"]
    /\ IF MovesOn(c) THEN Goto(c, "asking") /\ UNCHANGED moves ELSE Done(c)
    /\ UNCHANGED <<usage, excl, want, due, timed, telling, bounds>>

\* A call of the held coder fails, and its executor is reported.
FailCoder(c) ==
    /\ At(c, "held")
    /\ OneChange
    /\ \E e \in Own(c), kind \in ReportedKinds : Out(e, kind)
    /\ Goto(c, "coderFailed")
    /\ UNCHANGED <<usage, want, because, moves, due, wakes, callsLeft>>

\* handover, or the failure surfaces when there were enough of them.
CoderReported(c) ==
    /\ At(c, "coderFailed")
    /\ Signal
    /\ IF handovers[c] < MaxHandovers
       THEN Goto(c, "handing") /\ handovers' = [handovers EXCEPT ![c] = @ + 1]
       ELSE Goto(c, "held") /\ UNCHANGED handovers
    /\ UNCHANGED <<usage, excl, want, because, tried, due, timed, telling, bounds>>

\* The slot goes back, and the next coder is leased.
HandOver(c) ==
    /\ At(c, "handing")
    /\ Free(SeatsOf(c))
    /\ want' = [want EXCEPT ![c] = "coder"]
    /\ because' = [because EXCEPT ![c] = "none"]
    /\ Goto(c, "asking")
    /\ UNCHANGED <<excl, moves, due, timed, telling, bounds>>

-----------------------------------------------------------------------------
(* The rest of the run: the operator and the clock.                        *)

\* exclude and resume from outside a call, by an operator: the wake-up comes
\* once the change is published and saved.
Telling(o, e) == telling[o] = {} /\ telling' = [telling EXCEPT ![o] = {e}]

Pause(o, e) ==
    /\ "manual" \in Kinds
    /\ OneChange
    /\ Out(e, "manual")
    /\ Telling(o, e)
    /\ UNCHANGED <<usage, pc, want, because, moves, due, waiting, timed, callsLeft>>

Resume(o, e) ==
    /\ excl[e].kind # "none"
    /\ OneChange
    /\ excl' = [excl EXCEPT ![e] = InRound]
    /\ Telling(o, e)
    /\ UNCHANGED <<usage, pc, want, because, moves, due, waiting, timed, callsLeft>>

Told(o) ==
    /\ telling[o] # {}
    /\ telling' = [telling EXCEPT ![o] = {}]
    /\ Signal
    /\ UNCHANGED <<usage, excl, pc, want, because, moves, due, timed, bounds>>

\* The instant of an exclusion, or of its next probe, comes.
ComesDue(e) ==
    /\ excl[e].kind \in {"until", "health"} /\ ~excl[e].due
    /\ excl' = [excl EXCEPT ![e].due = TRUE]
    /\ UNCHANGED <<usage, pc, want, because, moves, due, wakes, bounds>>

\* available, capacity and snapshot expire exclusions and signal nobody.
Expire ==
    /\ Expired # {}
    /\ excl' = AfterExpire
    /\ UNCHANGED <<usage, pc, want, because, moves, due, wakes, bounds>>

Step(c) ==
    \/ Ask(c) \/ TryLease(c) \/ Call(c)
    \/ FirstAttempt(c) \/ Check(c) \/ TakeOwn(c) \/ StartProbes(c)
    \/ \E e \in Executors : Answer(c, e)
    \/ Recovered(c) \/ Retry(c) \/ Saved(c) \/ Wake(c) \/ Leased(c)
    \/ EndCall(c) \/ EndStory(c)
    \/ Report(c) \/ Move(c) \/ CoderReported(c) \/ HandOver(c)

Next ==
    \/ \E c \in Contexts : Step(c) \/ FailCall(c) \/ FailCoder(c) \/ Interrupt(c)
    \/ \E o \in Operators : Told(o) \/ \E e \in Executors : Pause(o, e) \/ Resume(o, e)
    \/ \E e \in Executors : ComesDue(e)
    \/ Expire

Spec == Init /\ [][Next]_vars

\* Every fiber that can go on does, an operator's call among them, and time passes;
\* nothing makes a call fail, an operator act or a context be interrupted.
Fairness ==
    /\ \A c \in Contexts : WF_vars(Step(c))
    /\ \A o \in Operators : WF_vars(Told(o))
    /\ \A e \in Executors : WF_vars(ComesDue(e))

FairSpec == Spec /\ Fairness

-----------------------------------------------------------------------------
(* What the roster promises.                                               *)

\* Every variable keeps its type: counters are naturals, and a seat names
\* the context, the executor and the clone of one taken slot.
TypeOK ==
    /\ busy \in [Executors -> Nat]
    /\ busyCoders \in [Executors -> Nat]
    /\ clones \in [Executors -> SUBSET (Nat \ {0})]
    /\ turn \in [Executors -> Nat]
    /\ excl \in [Executors -> [kind : Kinds \cup {"none", "health", "until"}, due : BOOLEAN]]
    /\ seats \subseteq [of : Contexts, role : Roles, on : Executors, clone : Nat \ {0}]
    /\ pc \in [Contexts -> Points]
    /\ want \in [Contexts -> Roles]
    /\ because \in [Contexts -> {"none", "nobody", "held", "out"}]
    /\ tried \in [Contexts -> Seq(Executors)] /\ \A c \in Contexts : Len(tried[c]) <= 2
    /\ handovers \in [Contexts -> 0..MaxHandovers]
    /\ due \in [Contexts -> SUBSET Executors]
    /\ waiting \subseteq Contexts /\ timed \subseteq Contexts
    /\ telling \in [Operators -> SUBSET Executors]
    /\ callsLeft \in [Contexts -> Nat] /\ changesLeft \in Nat

\* The counters of Roster.ts never drift from the slots really taken, over
\* leases, waits, borrowed calls and interruptions, and no executor serves
\* more contexts, or more coders, than it has slots for.
SlotAccounting ==
    \A e \in Executors :
        /\ busy[e] = Cardinality(On(seats, e))
        /\ busyCoders[e] = Cardinality(Coding(On(seats, e)))
        /\ busy[e] <= Slots[e] /\ busyCoders[e] <= CoderSlots[e]

\* Two leases of one executor are never the same clone, a clone in use is
\* some lease's, and clone numbers stay within the executor's slots (ADR 0033).
ClonesDistinct ==
    \A e \in Executors :
        /\ clones[e] = {s.clone : s \in On(seats, e)}
        /\ clones[e] \subseteq 1..Slots[e]
        /\ \A s, t \in On(seats, e) : s.clone = t.clone => s = t

\* A reasoning call is independent of the context's coder unless the lease
\* said why not, and a call without a slot rides on a coder its context holds.
Independence ==
    \A c \in Contexts : pc[c] \in {"taken", "calling"} /\ want[c] = "reviewer" =>
        /\ because[c] = "none" => \A s \in CallSeats(c) : s.on \notin Own(c)
        /\ CallSeats(c) = {} => because[c] # "none" /\ Own(c) # {}

\* A context that holds a coder able to take the role never fails
\* RosterExhausted: its own executor serves the call, whatever is out.
HolderNeverExhausted ==
    \A c \in Contexts : pc[c] = "exhausted" /\ want[c] = "reviewer" =>
        \A e \in Own(c) : "reviewer" \notin Takes[e]

\* The executors an operator changed and has not told of yet.
BeingTold == UNION {telling[o] : o \in Operators}

\* A context that waits without a timer and has not been woken waits for a
\* slot that is really taken, not for one it could have had; but for that of an
\* executor whose resume is about to wake it.
NoMissedWake ==
    \A c \in waiting \ timed : pc[c] = "asleep" =>
        Candidates(want[c], Avoid(c)) \subseteq BeingTold

\* While a context is under way, one at least is not asleep for another to free
\* a slot: stories that keep their coders' slots while they wait for reasoning
\* slots never all wait for each other's.
NoCyclicWait ==
    LET stuck == {c \in waiting \ timed : pc[c] = "asleep"}
    IN  \A c \in stuck : \E d \in Contexts \ stuck : pc[d] \notin Final

\* Every context ends: stories that hold their coders while they wait for
\* each other's reasoning slots never wait on one another for ever.
EveryStoryEnds == <>[](\A c \in Contexts : pc[c] \in Final)
=============================================================================
