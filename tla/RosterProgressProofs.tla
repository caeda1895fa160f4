------------------------ MODULE RosterProgressProofs ------------------------
(***************************************************************************)
(* That the contexts of a roster never all wait for each other's slots, for *)
(* any executors and any contexts, while no call fails: the counterpart of  *)
(* the rule that a context whose independent executors are all held by      *)
(* coders goes on with its own.                                             *)
(***************************************************************************)
EXTENDS RosterProofs

\* The hypotheses: no call fails and no executor is paused, no context is
\* interrupted, and who takes coders has a slot for one.
Peaceful == Kinds = {} /\ MaxChanges = 0 /\ ~Interrupts
CodersPlaced == \A e \in Executors : "coder" \in Takes[e] => CoderSlots[e] > 0

\* No executor is out, and no context deals with a failure.
Quiet ==
    /\ excl = [e \in Executors |-> InRound]
    /\ changesLeft = 0 /\ timed = {} /\ \A o \in Operators : telling[o] = {}
    /\ \A d \in Contexts :
          /\ pc[d] \in {"idle", "asking", "owning", "announced", "probing", "asleep",
                        "taken", "held", "calling", "exhausted", "ended"}
          /\ tried[d] = <<>> /\ due[d] = {}

\* A context holds one coder at most, and none while it leases one.
Seated(d) ==
    /\ \A e, f \in Own(d) : e = f
    /\ pc[d] \in {"idle", "ended"} => SeatsOf(d) = {}
    /\ want[d] = "coder" /\ pc[d] \notin {"taken", "held"} => SeatsOf(d) = {}

\* A context has decided to wait, and nobody has woken it.
Late(d) == pc[d] \in {"announced", "probing"} \/ (pc[d] = "asleep" /\ d \in waiting)

\* Whom a context may wait for: its own executors are not independent of it.
Serves(e, d) == want[d] \in Takes[e] /\ (want[d] = "reviewer" => e \notin Own(d))
Hopeful == \A d \in Contexts : Late(d) => \E e \in Executors : Serves(e, d)

\* A slot of the executor is free, or held by a context that may still free it.
Room(e) == busy[e] < Slots[e] \/ \E s \in On(seats, e) : ~Late(s.of)

\* A context waits for a call and keeps, on an executor that takes calls, a coder.
Bound(d) == Late(d) /\ want[d] = "reviewer" /\ \E o \in Own(d) : "reviewer" \in Takes[o]

\* If there are such contexts, there is room for the call of one of them.
Open ==
    \A b \in Contexts : Bound(b) =>
        \E h \in Contexts, e \in Executors : Bound(h) /\ Serves(e, h) /\ Room(e)

Flowing == Quiet /\ (\A d \in Contexts : Seated(d)) /\ Hopeful /\ Open

-----------------------------------------------------------------------------
(* The steps that are left, by what they do to slots and to who waits.     *)

Others(c) ==
    \A d \in Contexts \ {c} : pc'[d] = pc[d] /\ want'[d] = want[d] /\ SeatsOf(d)' = SeatsOf(d)

\* The context takes a slot, for which it may have waited.
Seizes(c) ==
    /\ pc[c] \in {"idle", "asking", "owning", "probing"} /\ pc'[c] = "taken"
    /\ pc[c] = "idle" => want[c] = "coder"
    /\ \E e \in Executors : Take(c, e)
    /\ UNCHANGED <<want, waiting>>

\* It decides to wait for somebody who is not held by coders, or has no own
\* executor to go on with.
Waits(c) ==
    /\ pc[c] = "asking" /\ pc'[c] = "announced" /\ UNCHANGED <<usage, want, waiting>>
    /\ CanEverServe(c) /\ (Blocked(c) = "none" \/ Borrow(c) = {})

\* It waits on.
Stays(c) ==
    /\ Late(c) /\ Late(c)' /\ pc'[c] \in {"probing", "asleep"}
    /\ UNCHANGED <<usage, want>> /\ waiting \subseteq waiting' /\ waiting' \subseteq waiting \cup {c}

\* It goes on with what it has.
Goes(c) ==
    /\ ~Late(c) /\ pc'[c] \notin {"announced", "probing", "asleep"}
    /\ UNCHANGED <<usage, waiting>>
    /\ \/ SeatsOf(c) = {}
       \/ pc'[c] \notin {"idle", "ended"} /\ (want'[c] = "coder" => pc'[c] = "held")

\* It gives slots back, of a call or of all.
Frees(c) ==
    /\ pc[c] \in {"calling", "held", "exhausted"} /\ UNCHANGED want
    /\ \E gone \in SUBSET SeatsOf(c) : Free(gone)
    /\ \/ pc'[c] = "held"
       \/ pc'[c] = "ended" /\ SeatsOf(c)' = {}

Shape(c) == Others(c) /\ (Seizes(c) \/ Waits(c) \/ Stays(c) \/ Goes(c) \/ Frees(c))

\* Nothing expires.
LEMMA AllInRound ==
  ASSUME Quiet
  PROVE  Expired = {} /\ AfterExpire = excl /\ \A e \in Executors : excl[e].kind = "none"
<1>1. \A e \in Executors : excl[e].kind = "none"
  BY DEF Quiet, InRound
<1>2. Expired = {}
  BY <1>1 DEF Expired
<1>3. excl \in [Executors -> {InRound}]
  BY DEF Quiet
<1> QED
  BY <1>1, <1>2, <1>3 DEF AfterExpire

\* A step of one context, to a point without a failure, leaves the roster quiet.
LEMMA StaysQuiet ==
  ASSUME Leasing, Quiet, NEW c \in Contexts, NEW point, Goto(c, point),
         point \in {"idle", "asking", "owning", "announced", "probing", "asleep",
                    "taken", "held", "calling", "exhausted", "ended"},
         excl' = excl, changesLeft' = changesLeft, timed' = {}, telling' = telling,
         \A d \in Contexts : tried'[d] = <<>> /\ due'[d] = {}
  PROVE  Quiet' /\ pc'[c] = point /\ \A d \in Contexts \ {c} : pc'[d] = pc[d]
<1>1. pc'[c] = point /\ \A d \in Contexts \ {c} : pc'[d] = pc[d]
  BY Alone
<1> QED
  BY <1>1 DEF Quiet

\* Where no slot changes hands, the other contexts' slots stay.
LEMMA OthersStay ==
  ASSUME UNCHANGED usage, NEW c \in Contexts, \A d \in Contexts \ {c} : pc'[d] = pc[d],
         \A d \in Contexts \ {c} : want'[d] = want[d]
  PROVE  Others(c)
BY SameSeats DEF Others

\* A context asks for a lease or for a call, wakes up, or has its finalizer registered.
LEMMA MovesShape ==
  ASSUME Leasing, Quiet, telling' = telling, NEW c \in Contexts, Seated(c),
         Ask(c) \/ Call(c) \/ Wake(c) \/ Leased(c) \/ StartProbes(c)
  PROVE  Quiet' /\ Shape(c)
<1>1. /\ UNCHANGED <<usage, excl, changesLeft, tried>> /\ timed' = {}
      /\ \A d \in Contexts : tried'[d] = <<>> /\ due'[d] = {}
  <2>1. UNCHANGED <<usage, excl, changesLeft, tried>> /\ timed' \in {timed, timed \ {c}}
    BY DEF Ask, Call, Wake, Leased, StartProbes, moves, wakes, bounds
  <2>2. \A d \in Contexts : due'[d] = {}
    <3>1. CASE StartProbes(c)
      <4>1. {e \in Executors : excl[e].kind = "health" /\ excl[e].due} = {}
        BY AllInRound
      <4> QED
        BY <3>1, <4>1 DEF StartProbes, Quiet, Leasing, Fibers
    <3> QED
      BY <3>1 DEF Ask, Call, Wake, Leased, StartProbes, Quiet
  <2> QED
    BY <2>1, <2>2 DEF Quiet
<1>2. \A d \in Contexts \ {c} : want'[d] = want[d]
  BY DEF Ask, Call, Wake, Leased, StartProbes, Leasing, Fibers
<1>3. c \notin timed
  BY DEF Quiet
<1>4. CASE Ask(c)
  <2>1. Quiet' /\ pc'[c] = "asking" /\ \A d \in Contexts \ {c} : pc'[d] = pc[d]
    BY <1>1, <1>4, StaysQuiet DEF Ask
  <2>2. pc[c] = "idle" /\ SeatsOf(c) = {} /\ waiting' = waiting
    BY <1>4 DEF Ask, At, wakes, Seated
  <2>3. Goes(c)
    BY <1>1, <2>1, <2>2 DEF Goes, Late
  <2> QED
    BY <1>1, <1>2, <2>1, <2>3, OthersStay DEF Shape
<1>5. CASE Call(c)
  <2>1. Quiet' /\ pc'[c] = "asking" /\ \A d \in Contexts \ {c} : pc'[d] = pc[d]
    BY <1>1, <1>5, StaysQuiet DEF Call
  <2>2. pc[c] = "held" /\ want'[c] = "reviewer" /\ waiting' = waiting
    BY <1>5 DEF Call, At, wakes, Leasing, Fibers
  <2>3. Goes(c)
    BY <1>1, <2>1, <2>2 DEF Goes, Late
  <2> QED
    BY <1>1, <1>2, <2>1, <2>3, OthersStay DEF Shape
<1>6. CASE Wake(c)
  <2>1. Quiet' /\ pc'[c] = "asking" /\ \A d \in Contexts \ {c} : pc'[d] = pc[d]
    BY <1>1, <1>6, StaysQuiet DEF Wake
  <2>2. /\ pc[c] = "asleep" /\ c \notin waiting /\ waiting' = waiting \ {c}
        /\ want'[c] = want[c]
    BY <1>3, <1>6 DEF Wake, At
  <2>3. want[c] = "coder" => SeatsOf(c) = {}
    BY <2>2 DEF Seated
  <2>4. Goes(c)
    BY <1>1, <2>1, <2>2, <2>3 DEF Goes, Late
  <2> QED
    BY <1>1, <1>2, <2>1, <2>4, OthersStay DEF Shape
<1>7. CASE Leased(c)
  <2>1. PICK point \in {"held", "calling"} : Goto(c, point) /\ (want[c] = "coder" => point = "held")
    BY <1>7 DEF Leased
  <2>2. Quiet' /\ pc'[c] = point /\ \A d \in Contexts \ {c} : pc'[d] = pc[d]
    BY <1>1, <2>1, StaysQuiet
  <2>3. pc[c] = "taken" /\ waiting' = waiting /\ want'[c] = want[c]
    BY <1>7 DEF Leased, At, wakes
  <2>4. Goes(c)
    BY <1>1, <2>1, <2>2, <2>3 DEF Goes, Late
  <2> QED
    BY <1>1, <1>2, <2>2, <2>4, OthersStay DEF Shape
<1>8. CASE StartProbes(c)
  <2>1. Quiet' /\ pc'[c] = "probing" /\ \A d \in Contexts \ {c} : pc'[d] = pc[d]
    BY <1>1, <1>8, StaysQuiet DEF StartProbes
  <2>2. pc[c] = "announced" /\ waiting' = waiting /\ want' = want
    BY <1>8 DEF StartProbes, At, wakes
  <2>3. Stays(c)
    BY <1>1, <2>1, <2>2 DEF Stays, Late
  <2> QED
    BY <1>1, <1>2, <2>1, <2>3, OthersStay DEF Shape
<1> QED
  BY <1>4, <1>5, <1>6, <1>7, <1>8

\* An attempt takes a slot, or the context ends, goes on with its own executor or waits.
LEMMA AttemptsShape ==
  ASSUME Leasing, Quiet, telling' = telling, NEW c \in Contexts, Seated(c),
         TryLease(c) \/ FirstAttempt(c) \/ TakeOwn(c) \/ Retry(c)
  PROVE  Quiet' /\ Shape(c)
<1>1. Expired = {} /\ AfterExpire = excl /\ \A e \in Executors : excl[e].kind = "none"
  BY AllInRound
<1>2. /\ UNCHANGED <<excl, changesLeft, tried, want>>
      /\ \A d \in Contexts : tried'[d] = <<>> /\ due'[d] = {}
  BY <1>1 DEF TryLease, FirstAttempt, TakeOwn, Retry, Attempt, moves, bounds, Quiet
<1>3. ASSUME NEW e, Take(c, e), Goto(c, "taken"), UNCHANGED wakes, e \in Executors
      PROVE  Quiet' /\ Shape(c)
  <2>1. Quiet' /\ pc'[c] = "taken" /\ \A d \in Contexts \ {c} : pc'[d] = pc[d]
    BY <1>2, <1>3, StaysQuiet DEF wakes, Quiet
  <2>2. \A d \in Contexts \ {c} : SeatsOf(d)' = SeatsOf(d)
    BY <1>3, TakenSeat
  <2>3. /\ pc[c] \in {"idle", "asking", "owning", "probing"}
        /\ pc[c] = "idle" => want[c] = "coder"
    BY DEF TryLease, FirstAttempt, TakeOwn, Retry, At
  <2>4. Seizes(c)
    BY <1>2, <1>3, <2>1, <2>3 DEF Seizes, wakes
  <2> QED
    BY <1>2, <2>1, <2>2, <2>4 DEF Shape, Others
<1>4. CASE TryLease(c)
  <2>1. CASE \E e \in Pick(want[c], {}, {}) :
                Take(c, e) /\ Goto(c, "taken") /\ UNCHANGED <<because, wakes>>
    BY <2>1, <1>3, PickIsFree
  <2>2. CASE Goto(c, "ended") /\ UNCHANGED wakes /\ UNCHANGED usage
    <3>1. Quiet' /\ pc'[c] = "ended" /\ \A d \in Contexts \ {c} : pc'[d] = pc[d]
      BY <1>2, <2>2, StaysQuiet DEF wakes, Quiet
    <3>2. pc[c] = "idle" /\ SeatsOf(c) = {}
      BY <1>4 DEF TryLease, At, Seated
    <3>3. Goes(c)
      BY <2>2, <3>1, <3>2 DEF Goes, Late, wakes
    <3> QED
      BY <1>2, <2>2, <3>1, <3>3, OthersStay DEF Shape
  <2> QED
    BY <1>4, <2>1, <2>2 DEF TryLease, Attempt
<1>5. CASE FirstAttempt(c)
  <2>1. CASE \E e \in Pick(want[c], Avoid(c), {}) :
                Take(c, e) /\ Goto(c, "taken") /\ UNCHANGED <<because, wakes>>
    BY <2>1, <1>3, PickIsFree
  <2>2. CASE Decide(c) /\ UNCHANGED usage
    <3> DEFINE why == IF ~CanEverServe(c) THEN "nobody" ELSE Blocked(c)
               own == \/ why = "nobody" /\ Borrow(c) # {}
                      \/ why \in {"held", "out"} /\ \E e \in Borrow(c) : excl[e].kind = "none"
    <3>1. /\ Goto(c, IF own THEN "owning" ELSE IF why = "nobody" THEN "exhausted" ELSE "announced")
          /\ UNCHANGED wakes
      BY <2>2 DEF Decide
    <3>2. Borrow(c) # {} => \E e \in Borrow(c) : excl[e].kind = "none"
      <4>1. Borrow(c) \subseteq Executors
        BY DEF Borrow, Own, SeatsOf, Leasing, Usage
      <4> QED
        BY <4>1, <1>1
    <3>3. Blocked(c) \in {"none", "held", "out"}
      BY DEF Blocked
    <3>4. CASE own \/ why = "nobody"
      <4>1. PICK point \in {"owning", "exhausted"} : Goto(c, point)
        BY <3>1, <3>4
      <4>2. Quiet' /\ pc'[c] = point /\ \A d \in Contexts \ {c} : pc'[d] = pc[d]
        BY <1>2, <3>1, <4>1, StaysQuiet DEF wakes, Quiet
      <4>3. pc[c] = "asking" /\ (want[c] = "coder" => SeatsOf(c) = {})
        BY <1>5 DEF FirstAttempt, At, Seated
      <4>4. Goes(c)
        BY <1>2, <2>2, <3>1, <4>2, <4>3 DEF Goes, Late, wakes
      <4> QED
        BY <1>2, <2>2, <4>2, <4>4, OthersStay DEF Shape
    <3>5. CASE ~own /\ why # "nobody"
      <4>1. Goto(c, "announced")
        BY <3>1, <3>5
      <4>2. Quiet' /\ pc'[c] = "announced" /\ \A d \in Contexts \ {c} : pc'[d] = pc[d]
        BY <1>2, <3>1, <4>1, StaysQuiet DEF wakes, Quiet
      <4>3. CanEverServe(c)
        BY <3>5
      <4>4. Blocked(c) = "none" \/ Borrow(c) = {}
        BY <3>2, <3>3, <3>5, <4>3
      <4>5. Waits(c)
        BY <1>2, <1>5, <2>2, <3>1, <4>2, <4>3, <4>4 DEF Waits, FirstAttempt, At, wakes
      <4> QED
        BY <1>2, <2>2, <4>2, <4>5, OthersStay DEF Shape
    <3> QED
      BY <3>4, <3>5
  <2> QED
    BY <1>1, <1>5, <2>1, <2>2 DEF FirstAttempt, Attempt
<1>6. CASE TakeOwn(c)
  <2>1. CASE \E e \in Pick(want[c], Avoid(c) \ Borrow(c), Borrow(c)) : Take(c, e) /\ Goto(c, "taken")
    BY <2>1, <1>3, <1>6, PickIsFree DEF TakeOwn
  <2>2. CASE Goto(c, "calling") /\ UNCHANGED usage
    <3>1. Quiet' /\ pc'[c] = "calling" /\ \A d \in Contexts \ {c} : pc'[d] = pc[d]
      BY <1>2, <1>6, <2>2, StaysQuiet DEF wakes, Quiet, TakeOwn
    <3>2. pc[c] = "owning" /\ want[c] = "reviewer" /\ waiting' = waiting
      BY <1>6 DEF TakeOwn, At, wakes, Leasing, Sound, Owns
    <3>3. Goes(c)
      BY <1>2, <2>2, <3>1, <3>2 DEF Goes, Late
    <3> QED
      BY <1>2, <2>2, <3>1, <3>3, OthersStay DEF Shape
  <2> QED
    BY <1>6, <2>1, <2>2 DEF TakeOwn
<1>7. CASE Retry(c)
  <2>1. CASE \E e \in Pick(want[c], Avoid(c), {}) :
                Take(c, e) /\ Goto(c, "taken") /\ UNCHANGED <<because, wakes>>
    BY <2>1, <1>3, PickIsFree
  <2>2. CASE Arm(c) /\ Goto(c, "asleep") /\ UNCHANGED usage
    <3>1. waiting' = waiting \cup {c} /\ timed' = {}
      BY <1>1, <2>2 DEF Arm, Quiet
    <3>2. Quiet' /\ pc'[c] = "asleep" /\ \A d \in Contexts \ {c} : pc'[d] = pc[d]
      BY <1>2, <2>2, <3>1, StaysQuiet
    <3>3. pc[c] = "probing"
      BY <1>7 DEF Retry, At
    <3>4. Stays(c)
      BY <1>2, <2>2, <3>1, <3>2, <3>3 DEF Stays, Late
    <3> QED
      BY <1>2, <2>2, <3>2, <3>4, OthersStay DEF Shape
  <2> QED
    BY <1>1, <1>7, <2>1, <2>2 DEF Retry, Attempt
<1> QED
  BY <1>4, <1>5, <1>6, <1>7

\* A call or a context ends and gives back what it holds.
LEMMA EndsShape ==
  ASSUME Leasing, Quiet, telling' = telling, NEW c \in Contexts, Seated(c),
         EndCall(c) \/ EndStory(c)
  PROVE  Quiet' /\ Shape(c)
<1>1. /\ UNCHANGED <<excl, changesLeft, want>> /\ timed' = {}
      /\ \A d \in Contexts : tried'[d] = <<>> /\ due'[d] = {}
  BY DEF EndCall, EndStory, Done, moves, bounds, Quiet, Leasing, Fibers
<1>2. CallSeats(c) \in SUBSET SeatsOf(c)
  BY DEF CallSeats
<1>3. CASE EndCall(c)
  <2>1. PICK point \in {"held", "ended"} : Goto(c, point) /\ (point = "ended" => Own(c) = {})
    BY <1>3 DEF EndCall, Done
  <2>2. Quiet' /\ pc'[c] = point /\ \A d \in Contexts \ {c} : pc'[d] = pc[d]
    BY <1>1, <2>1, StaysQuiet
  <2>3. Free(CallSeats(c)) /\ pc[c] = "calling"
    BY <1>3 DEF EndCall, At
  <2>4. (\A d \in Contexts \ {c} : SeatsOf(d)' = SeatsOf(d)) /\ SeatsOf(c)' = SeatsOf(c) \ CallSeats(c)
    BY <1>2, <2>3, FreedSeats
  <2>5. Own(c) = {} => SeatsOf(c)' = {}
    <3>1. \A s \in SeatsOf(c) : s.role \in {"coder", "reviewer"}
      BY DEF SeatsOf, Leasing, Usage, Roles
    <3> QED
      BY <2>4, <3>1 DEF Own, CallSeats
  <2>6. Frees(c)
    BY <1>1, <1>2, <2>1, <2>2, <2>3, <2>5 DEF Frees
  <2> QED
    BY <1>1, <2>2, <2>4, <2>6 DEF Shape, Others
<1>4. CASE EndStory(c)
  <2>1. Quiet' /\ pc'[c] = "ended" /\ \A d \in Contexts \ {c} : pc'[d] = pc[d]
    BY <1>1, <1>4, StaysQuiet DEF EndStory
  <2>2. Free(SeatsOf(c)) /\ pc[c] \in {"held", "exhausted"}
    BY <1>4 DEF EndStory
  <2>3. (\A d \in Contexts \ {c} : SeatsOf(d)' = SeatsOf(d)) /\ SeatsOf(c)' = {}
    BY <2>2, FreedSeats
  <2>4. Frees(c)
    BY <1>1, <2>1, <2>2, <2>3 DEF Frees
  <2> QED
    BY <1>1, <2>1, <2>3, <2>4 DEF Shape, Others
<1> QED
  BY <1>3, <1>4

\* Every step is one of these, and nothing goes out of the round.
LEMMA Shapes ==
  ASSUME Peaceful, Leasing, Quiet, \A d \in Contexts : Seated(d), Next
  PROVE  Quiet' /\ \E c \in Contexts : Shape(c)
<1>1. ~Acts /\ ~(\E e \in Executors : ComesDue(e)) /\ ~Expire
  <2>1. changesLeft = 0 /\ \A o \in Operators : telling[o] = {}
    BY DEF Quiet
  <2>2. ~OneChange
    BY <2>1 DEF OneChange
  <2>3. ~Acts
    BY <2>1, <2>2 DEF Acts, Told, Pause, Resume
  <2> QED
    BY <2>3, AllInRound DEF ComesDue, Expire
<1>2. PICK c \in Contexts : Step(c) \/ FailCall(c) \/ FailCoder(c) \/ Interrupt(c)
  BY <1>1 DEF Next, Acts
<1>3. ~FailCall(c) /\ ~FailCoder(c) /\ ~Interrupt(c)
  <2>1. changesLeft = 0
    BY DEF Quiet
  <2>2. ~OneChange
    BY <2>1 DEF OneChange
  <2> QED
    BY <2>2 DEF FailCall, FailCoder, Interrupt, Peaceful
<1>4. /\ ~Check(c) /\ ~Recovered(c) /\ ~Saved(c)
      /\ ~Report(c) /\ ~Move(c) /\ ~CoderReported(c) /\ ~HandOver(c)
  BY DEF Check, Recovered, Saved, Report, Move, CoderReported, HandOver, At, Quiet
<1>5. ~(\E e \in Executors : Answer(c, e))
  BY DEF Answer, Quiet
<1>6. \/ Ask(c) \/ Call(c) \/ Wake(c) \/ Leased(c) \/ StartProbes(c)
      \/ TryLease(c) \/ FirstAttempt(c) \/ TakeOwn(c) \/ Retry(c)
      \/ EndCall(c) \/ EndStory(c)
  BY <1>2, <1>3, <1>4, <1>5 DEF Step
<1>7. telling' = telling
  BY <1>2, OnlyOperatorsTell
<1> QED
  BY <1>6, <1>7, MovesShape, AttemptsShape, EndsShape

-----------------------------------------------------------------------------
(* What such a step leaves true.                                           *)

\* A context has one coder at most through every step.
LEMMA SeatedNext ==
  ASSUME Leasing, \A d \in Contexts : Seated(d), NEW c \in Contexts, Shape(c)
  PROVE  \A d \in Contexts : Seated(d)'
<1>1. ASSUME NEW d \in Contexts, d # c
      PROVE  Seated(d)'
  <2>1. pc'[d] = pc[d] /\ want'[d] = want[d] /\ SeatsOf(d)' = SeatsOf(d)
    BY <1>1 DEF Shape, Others
  <2>2. Own(d)' = Own(d)
    BY <2>1 DEF Own
  <2> QED
    BY <2>1, <2>2 DEF Seated
<1>2. Seated(c)'
  <2>1. CASE Seizes(c)
    <3>1. PICK e \in Executors : Take(c, e)
      BY <2>1 DEF Seizes
    <3>2. want[c] = "coder" => SeatsOf(c) = {}
      BY <2>1 DEF Seizes, Seated, Leasing, Sound, Owns
    <3>3. \A s \in SeatsOf(c)' : s \in SeatsOf(c) \/ s.on = e
      BY <3>1 DEF Take, SeatsOf
    <3>4. want[c] # "coder" => Own(c)' = Own(c)
      BY <3>1, TakenSeat
    <3>5. \A f, g \in Own(c)' : f = g
      BY <3>2, <3>3, <3>4 DEF Own, Seated
    <3> QED
      BY <2>1, <3>5 DEF Seizes, Seated
  <2>2. CASE UNCHANGED usage /\ (Waits(c) \/ Stays(c) \/ Goes(c))
    <3>1. SeatsOf(c)' = SeatsOf(c) /\ Own(c)' = Own(c)
      BY <2>2, SameSeats
    <3> QED
      BY <2>2, <3>1 DEF Waits, Stays, Goes, Late, Seated
  <2>3. CASE Frees(c)
    <3>1. SeatsOf(c)' \subseteq SeatsOf(c)
      BY <2>3, FreedSeats DEF Frees
    <3>2. Own(c)' \subseteq Own(c)
      BY <3>1 DEF Own
    <3> QED
      BY <2>3, <3>1, <3>2 DEF Frees, Seated
  <2> QED
    BY <2>1, <2>2, <2>3 DEF Shape, Waits, Stays, Goes
<1> QED
  BY <1>1, <1>2

\* Nobody begins to wait but by deciding to, and who waits on keeps what it
\* holds and asks for.
LEMMA LateStays ==
  ASSUME Leasing, NEW c \in Contexts, Shape(c), NEW d \in Contexts
  PROVE  /\ Late(d)' /\ ~Waits(c) =>
               Late(d) /\ want'[d] = want[d] /\ Own(d)' = Own(d)
         /\ Late(d)' /\ d # c =>
               Late(d) /\ want'[d] = want[d] /\ Own(d)' = Own(d)
         /\ Late(d) /\ want[d] = "reviewer" => want'[d] = "reviewer" /\ Own(d)' = Own(d)
<1>1. waiting' \subseteq waiting \cup {c}
  <2>1. Frees(c) => waiting' \subseteq waiting
    BY FreedSeats DEF Frees
  <2> QED
    BY <2>1 DEF Shape, Seizes, Waits, Stays, Goes
<1>2. CASE d # c
  <2>1. pc'[d] = pc[d] /\ want'[d] = want[d] /\ SeatsOf(d)' = SeatsOf(d)
    BY <1>2 DEF Shape, Others
  <2>2. Own(d)' = Own(d)
    BY <2>1 DEF Own
  <2> QED
    BY <1>1, <1>2, <2>1, <2>2 DEF Late
<1>3. CASE d = c
  <2>1. CASE Seizes(c)
    <3>1. ~Late(c)' /\ want' = want
      BY <2>1 DEF Seizes, Late
    <3>2. want[c] = "reviewer" => Own(c)' = Own(c)
      BY <2>1, TakenSeat DEF Seizes
    <3> QED
      BY <1>3, <3>1, <3>2
  <2>2. CASE Waits(c)
    BY <1>3, <2>2, SameSeats DEF Waits, Late
  <2>3. CASE Stays(c)
    BY <1>3, <2>3, SameSeats DEF Stays
  <2>4. CASE Goes(c)
    BY <1>3, <2>4 DEF Goes, Late
  <2>5. CASE Frees(c)
    BY <1>3, <2>5 DEF Frees, Late
  <2> QED
    BY <2>1, <2>2, <2>3, <2>4, <2>5 DEF Shape
<1> QED
  BY <1>2, <1>3

\* Whom a context waits for may still serve it.
LEMMA HopefulNext ==
  ASSUME Leasing, Quiet, Hopeful, NEW c \in Contexts, Shape(c)
  PROVE  Hopeful'
<1>1. ASSUME NEW d \in Contexts, Late(d)', ~Waits(c) \/ d # c
      PROVE  \E e \in Executors : Serves(e, d)'
  <2>1. Late(d) /\ want'[d] = want[d] /\ Own(d)' = Own(d)
    BY <1>1, LateStays
  <2> QED
    BY <2>1 DEF Hopeful, Serves
<1>2. ASSUME Waits(c)
      PROVE  \E e \in Executors : Serves(e, c)'
  <2>1. PICK e \in Executors \ Avoid(c) : want[c] \in Takes[e]
    BY <1>2 DEF Waits, CanEverServe
  <2>2. want'[c] = want[c] /\ Own(c)' = Own(c)
    BY <1>2, SameSeats DEF Waits
  <2>3. want[c] = "reviewer" => e \notin Own(c)
    BY <2>1 DEF Avoid
  <2> QED
    BY <2>1, <2>2, <2>3 DEF Serves
<1> QED
  BY <1>1, <1>2 DEF Hopeful

\* Where there is room it stays, while nobody begins to wait who holds a slot there.
LEMMA RoomStays ==
  ASSUME Leasing, Leasing', NEW c \in Contexts, Shape(c), NEW e \in Executors, Room(e),
         \A s \in On(seats, e) : s.of = c => ~Waits(c)
  PROVE  Room(e)'
<1>1. /\ busy[e] \in Nat /\ busy'[e] \in Nat /\ Slots[e] \in Nat
  BY SlotsAssumption DEF Leasing, Usage
<1>2. \A s \in On(seats, e) : ~Late(s.of) => ~Late(s.of)'
  BY LateStays DEF On, Leasing, Usage
<1>3. CASE UNCHANGED usage
  BY <1>2, <1>3 DEF Room, usage
<1>4. CASE Seizes(c)
  <2>1. PICK f \in Executors : Take(c, f)
    BY <1>4 DEF Seizes
  <2>2. busy' = [busy EXCEPT ![f] = @ + 1] /\ seats \subseteq seats'
    BY <2>1 DEF Take
  <2>3. f = e => \E s \in On(seats', e) : s.of = c
    <3> DEFINE s == [of |-> c, role |-> want[c], on |-> f, clone |-> LowestFree(clones[f])]
    <3>1. s \in seats' /\ s.of = c /\ s.on = f
      BY <2>1 DEF Take
    <3> QED
      BY <3>1 DEF On
  <2>4. ~Late(c)'
    BY <1>4 DEF Seizes, Late
  <2>5. f # e => busy'[e] = busy[e]
    BY <2>2 DEF Leasing, Usage
  <2>6. On(seats, e) \subseteq On(seats', e)
    BY <2>2 DEF On
  <2> QED
    BY <1>2, <2>3, <2>4, <2>5, <2>6 DEF Room
<1>5. CASE Frees(c)
  <2>1. PICK gone \in SUBSET SeatsOf(c) : Free(gone)
    BY <1>5 DEF Frees
  <2>2. gone \in SUBSET seats /\ seats' = seats \ gone
    BY <2>1, FreedSeats DEF Free
  <2>3. busy[e] = Cardinality(On(seats, e)) /\ busy'[e] = Cardinality(On(seats', e))
        /\ busy[e] <= Slots[e] /\ IsFiniteSet(On(seats, e))
    BY OnFinite DEF Leasing, Usage, SlotAccounting
  <2>4. CASE On(gone, e) = {}
    <3>1. On(seats', e) = On(seats, e)
      BY <2>2, <2>4 DEF On
    <3> QED
      BY <1>2, <2>3, <3>1 DEF Room
  <2>5. CASE On(gone, e) # {}
    <3>1. On(seats', e) \subseteq On(seats, e) /\ On(seats', e) # On(seats, e)
      BY <2>2, <2>5 DEF On
    <3>2. busy'[e] <= busy[e] /\ busy'[e] # busy[e]
      BY <2>3, <3>1, FS_Subset
    <3>3. busy'[e] < Slots[e]
      BY <1>1, <2>3, <3>2
    <3> QED
      BY <3>3 DEF Room
  <2> QED
    BY <2>4, <2>5
<1> QED
  BY <1>3, <1>4, <1>5 DEF Shape, Waits, Stays, Goes

\* Who decides to wait for a call and keeps a coder where calls are taken has
\* found an executor with a slot that no coder holds.
LEMMA WaitsWithRoom ==
  ASSUME Leasing, NEW c \in Contexts, Waits(c), Others(c), Bound(c)'
  PROVE  \E e \in Executors : Serves(e, c)' /\ Room(e)'
<1>1. /\ UNCHANGED <<busy, busyCoders, seats, want>> /\ pc[c] = "asking"
      /\ Own(c)' = Own(c) /\ want[c] = "reviewer"
  BY SameSeats DEF Waits, usage, Bound
<1>2. Borrow(c) # {}
  BY <1>1 DEF Bound, Borrow
<1>3. PICK e \in Eligible(want[c], Avoid(c), excl) : busyCoders[e] < Slots[e]
  <2>1. Blocked(c) = "none"
    BY <1>2 DEF Waits
  <2>2. PICK e \in Eligible(want[c], Avoid(c), excl) : ~(busyCoders[e] >= Slots[e])
    BY <2>1 DEF Blocked
  <2>3. e \in Executors
    BY DEF Eligible
  <2>4. busyCoders[e] \in Nat /\ Slots[e] \in Nat
    BY <2>3, SlotsAssumption DEF Leasing, Usage
  <2> QED
    BY <2>2, <2>4
<1>4. e \in Executors /\ Serves(e, c)'
  BY <1>1, <1>3 DEF Eligible, Avoid, Serves
<1>5. Room(e)'
  <2>1. /\ busy[e] \in Nat /\ busyCoders[e] \in Nat /\ Slots[e] \in Nat
        /\ busy[e] = Cardinality(On(seats, e)) /\ busyCoders[e] = Cardinality(Coding(On(seats, e)))
    BY <1>4, SlotsAssumption DEF Leasing, Usage, SlotAccounting
  <2>2. CASE busy[e] < Slots[e]
    BY <1>1, <2>2 DEF Room
  <2>3. CASE ~(busy[e] < Slots[e])
    <3>1. Cardinality(Coding(On(seats, e))) # Cardinality(On(seats, e))
      BY <1>3, <2>1, <2>3
    <3>2. PICK s \in On(seats, e) : s.role # "coder"
      BY <3>1 DEF Coding
    <3>3. s \in seats /\ s.of \in Contexts /\ s.role = "reviewer"
      BY <3>2 DEF On, Leasing, Usage, Roles
    <3>4. s \in CallSeats(s.of)
      BY <3>3 DEF CallSeats, SeatsOf
    <3>5. pc[s.of] \in {"taken", "calling", "interrupted"}
      BY <3>3, <3>4 DEF Leasing, Sound, OneCall
    <3>6. pc'[s.of] = pc[s.of]
      BY <1>1, <3>3, <3>5 DEF Others
    <3>7. ~Late(s.of)'
      BY <3>5, <3>6 DEF Late
    <3> QED
      BY <1>1, <3>2, <3>7 DEF Room, On
  <2> QED
    BY <2>2, <2>3
<1> QED
  BY <1>4, <1>5

\* Through every step, some context that waits for a call and keeps a coder
\* where calls are taken has room to hope for.
LEMMA OpenNext ==
  ASSUME Leasing, Leasing', \A d \in Contexts : Seated(d), Open, NEW c \in Contexts, Shape(c)
  PROVE  Open'
<1> SUFFICES ASSUME NEW b \in Contexts, Bound(b)'
             PROVE  \E h \in Contexts, e \in Executors : Bound(h)' /\ Serves(e, h)' /\ Room(e)'
  BY DEF Open
<1>1. CASE Waits(c) /\ Bound(c)'
  BY <1>1, WaitsWithRoom DEF Shape
<1>2. CASE ~(Waits(c) /\ Bound(c)')
  <2>1. ASSUME NEW d \in Contexts, Bound(d)'
        PROVE  Bound(d) /\ want'[d] = want[d] /\ Own(d)' = Own(d)
    <3>1. Late(d)' /\ (~Waits(c) \/ d # c)
      BY <1>2, <2>1 DEF Bound
    <3> QED
      BY <2>1, <3>1, LateStays DEF Bound
  <2>2. ASSUME NEW e \in Executors, "reviewer" \in Takes[e], Room(e)
        PROVE  Room(e)'
    <3>1. ASSUME NEW s \in On(seats, e), s.of = c, Waits(c)
          PROVE  FALSE
      <4>1. s \in SeatsOf(c) /\ s.role \in Roles /\ s.on = e
        BY <3>1 DEF On, SeatsOf, Leasing, Usage
      <4>2. pc[c] = "asking" /\ pc'[c] = "announced" /\ want' = want
        BY <3>1 DEF Waits
      <4>3. want[c] # "coder"
        BY <4>1, <4>2 DEF Seated
      <4>4. s.role # "reviewer"
        BY <4>1, <4>2 DEF CallSeats, Leasing, Sound, OneCall
      <4>5. e \in Own(c) /\ want[c] = "reviewer"
        BY <4>1, <4>3, <4>4 DEF Own, Roles, Leasing, Fibers
      <4>6. Own(c)' = Own(c)
        BY <3>1, SameSeats DEF Waits
      <4>7. Bound(c)'
        BY <2>2, <4>2, <4>5, <4>6 DEF Bound, Late
      <4> QED
        BY <1>2, <3>1, <4>7
    <3> QED
      BY <2>2, <3>1, RoomStays
  <2>3. PICK h \in Contexts, e \in Executors : Bound(h) /\ Serves(e, h) /\ Room(e)
    BY <2>1 DEF Open
  <2>4. /\ want[h] = "reviewer" /\ e \notin Own(h) /\ "reviewer" \in Takes[e]
        /\ want'[h] = "reviewer" /\ Own(h)' = Own(h)
    BY <2>3, LateStays DEF Bound, Serves
  <2>5. Room(e)'
    BY <2>2, <2>3, <2>4
  <2>6. CASE Bound(h)'
    <3>1. Serves(e, h)'
      BY <2>4 DEF Serves
    <3> QED
      BY <2>5, <2>6, <3>1
  <2>7. CASE ~Bound(h)'
    <3>1. PICK o \in Own(h) : "reviewer" \in Takes[o]
      BY <2>3 DEF Bound
    <3>2. ~Late(h)'
      BY <2>4, <2>7, <3>1 DEF Bound
    <3>3. o \in Executors /\ Room(o)'
      <4>1. o \in Own(h)'
        BY <2>4, <3>1
      <4>2. PICK s \in seats' : s.of = h /\ s.on = o
        BY <4>1 DEF Own, SeatsOf
      <4> QED
        BY <3>2, <4>2 DEF Room, On, Leasing, Usage
    <3>4. Bound(b) /\ want'[b] = want[b] /\ Own(b)' = Own(b) /\ want[b] = "reviewer"
      BY <2>1 DEF Bound
    <3>5. CASE o \notin Own(b)
      <4>1. Serves(o, b)'
        BY <3>1, <3>4, <3>5 DEF Serves
      <4> QED
        BY <3>3, <4>1
    <3>6. CASE o \in Own(b)
      <4>1. e \notin Own(b)
        BY <2>4, <3>1, <3>6 DEF Seated
      <4>2. Serves(e, b)'
        BY <2>4, <3>4, <4>1 DEF Serves
      <4> QED
        BY <2>5, <4>2
    <3> QED
      BY <3>5, <3>6
  <2> QED
    BY <2>6, <2>7
<1> QED
  BY <1>1, <1>2

-----------------------------------------------------------------------------
(* The invariant, and that not everyone waits.                             *)

\* The roster begins without a slot taken and with nobody waiting.
LEMMA FlowingAtFirst ==
  ASSUME Peaceful, Init
  PROVE  Flowing
<1>1. Quiet
  BY DEF Init, Quiet, Peaceful
<1>2. \A d \in Contexts : SeatsOf(d) = {} /\ Own(d) = {} /\ ~Late(d)
  BY DEF Init, SeatsOf, Own, Late
<1> QED
  BY <1>1, <1>2 DEF Flowing, Seated, Hopeful, Open, Bound

\* Every step keeps it.
LEMMA FlowingNext ==
  ASSUME Peaceful, Leasing, Leasing', Flowing, [Next]_vars
  PROVE  Flowing'
<1>1. CASE Next
  <2>1. Quiet' /\ \E c \in Contexts : Shape(c)
    BY <1>1, Shapes DEF Flowing
  <2>2. PICK c \in Contexts : Shape(c)
    BY <2>1
  <2> QED
    BY <2>1, <2>2, SeatedNext, HopefulNext, OpenNext DEF Flowing
<1>2. CASE UNCHANGED vars
  <2>1. UNCHANGED <<busy, seats, excl, pc, want, tried, due, waiting, timed, telling, changesLeft>>
    BY <1>2 DEF vars
  <2>2. \A d : /\ SeatsOf(d)' = SeatsOf(d) /\ Own(d)' = Own(d) /\ Late(d)' = Late(d)
               /\ Bound(d)' = Bound(d)
    BY <2>1 DEF SeatsOf, Own, Late, Bound
  <2>3. Quiet' /\ \A d \in Contexts : Seated(d)'
    BY <2>1, <2>2 DEF Flowing, Quiet, Seated
  <2>4. \A e, d : Serves(e, d)' = Serves(e, d)
    BY <2>1, <2>2 DEF Serves
  <2>5. \A e : Room(e)' = Room(e)
    BY <2>1, <2>2 DEF Room, On
  <2> QED
    BY <2>2, <2>3, <2>4, <2>5 DEF Flowing, Hopeful, Open
<1> QED
  BY <1>1, <1>2

\* Who sleeps waits for an executor with a slot taken.
LEMMA SleepsForTaken ==
  ASSUME CodersPlaced, Leasing, Calm, Quiet, NEW d \in waiting, pc[d] = "asleep",
         NEW e \in Executors, Serves(e, d)
  PROVE  On(seats, e) # {} /\ (want[d] = "reviewer" => ~(busy[e] < Slots[e]))
<1>1. d \in Contexts /\ tried[d] = <<>> /\ want[d] \in Roles
  BY DEF Leasing, Round, Fibers, Quiet
<1>2. e \notin Avoid(d)
  BY <1>1 DEF Serves, Avoid, Tried, Roles
<1>3. ~FreeFor(e, want[d])
  <2>1. AfterExpire[e].kind = "none"
    BY AllInRound
  <2>2. Candidates(want[d], Avoid(d)) \subseteq BeingTold /\ BeingTold = {}
    BY DEF Calm, Quiet, BeingTold
  <2> QED
    BY <1>2, <2>1, <2>2 DEF Candidates, Eligible, Serves
<1>4. /\ busy[e] \in Nat /\ busyCoders[e] \in Nat /\ Slots[e] \in Nat \ {0} /\ CoderSlots[e] \in Nat
      /\ busy[e] = Cardinality(On(seats, e)) /\ busyCoders[e] = Cardinality(Coding(On(seats, e)))
  BY SlotsAssumption DEF Leasing, Usage, SlotAccounting
<1>5. On(seats, e) # {}
  <2> SUFFICES ASSUME On(seats, e) = {}
               PROVE  FALSE
    OBVIOUS
  <2>1. Coding(On(seats, e)) = {}
    BY DEF Coding
  <2>2. busy[e] = 0 /\ busyCoders[e] = 0
    BY <1>4, <2>1, FS_EmptySet
  <2>3. want[d] = "coder" => CoderSlots[e] > 0
    BY DEF Serves, CodersPlaced
  <2>4. busy[e] < Slots[e] /\ (want[d] = "coder" => busyCoders[e] < CoderSlots[e])
    BY <1>4, <2>2, <2>3
  <2> QED
    BY <1>3, <2>4 DEF FreeFor
<1>6. want[d] = "reviewer" => ~(busy[e] < Slots[e])
  BY <1>3 DEF FreeFor
<1> QED
  BY <1>5, <1>6

\* Where everyone under way slept for another, somebody would have had a slot.
LEMMA SomebodyGoesOn ==
  ASSUME CodersPlaced, Leasing, Calm, Flowing
  PROVE  NoCyclicWait
<1> DEFINE stuck == {c \in waiting \ timed : pc[c] = "asleep"}
<1> SUFFICES ASSUME NEW c \in stuck, \A d \in Contexts \ stuck : pc[d] \in Final
             PROVE  FALSE
  BY DEF NoCyclicWait
<1>1. ASSUME NEW d \in Contexts, pc[d] # "ended"
      PROVE  d \in waiting /\ pc[d] = "asleep" /\ Late(d)
  BY <1>1 DEF Final, Flowing, Quiet, Late
<1>2. ASSUME NEW s \in seats
      PROVE  /\ s.of \in Contexts /\ s.of \in waiting /\ pc[s.of] = "asleep" /\ Late(s.of)
             /\ want[s.of] = "reviewer" /\ s.on \in Own(s.of)
  <2>1. s.of \in Contexts /\ s \in SeatsOf(s.of) /\ s.role \in Roles
    BY DEF SeatsOf, Leasing, Usage
  <2>2. Seated(s.of) /\ pc[s.of] # "ended"
    BY <2>1 DEF Flowing, Seated
  <2>3. pc[s.of] = "asleep" /\ s.of \in waiting /\ Late(s.of)
    BY <1>1, <2>1, <2>2
  <2>4. want[s.of] = "reviewer"
    BY <2>1, <2>2, <2>3 DEF Seated, Leasing, Fibers, Roles
  <2>5. CallSeats(s.of) = {}
    BY <2>1, <2>3 DEF Leasing, Sound, OneCall
  <2>6. s.role = "coder"
    BY <2>1, <2>5 DEF CallSeats, Roles
  <2> QED
    BY <2>1, <2>3, <2>4, <2>6 DEF Own
<1>3. ASSUME NEW d \in waiting, pc[d] = "asleep"
      PROVE  \E e \in Executors, s \in seats : Serves(e, d) /\ s.on = e
  <2>1. d \in Contexts /\ Late(d)
    BY <1>3 DEF Late, Leasing, Round
  <2>2. PICK e \in Executors : Serves(e, d)
    BY <2>1 DEF Flowing, Hopeful
  <2>3. On(seats, e) # {}
    BY <1>3, <2>2, SleepsForTaken DEF Flowing
  <2> QED
    BY <2>2, <2>3 DEF On
<1>4. PICK s \in seats : TRUE
  BY <1>3
<1>5. PICK e \in Executors, t \in seats : Serves(e, s.of) /\ t.on = e
  BY <1>2, <1>3
<1>6. "reviewer" \in Takes[e]
  BY <1>2, <1>5 DEF Serves
<1>7. Bound(t.of) /\ t.of \in Contexts
  BY <1>2, <1>5, <1>6 DEF Bound
<1>8. PICK h \in Contexts, o \in Executors : Bound(h) /\ Serves(o, h) /\ Room(o)
  BY <1>7 DEF Flowing, Open
<1>9. pc[h] = "asleep" /\ h \in waiting /\ want[h] = "reviewer"
  BY <1>1, <1>8 DEF Bound, Late
<1>10. busy[o] < Slots[o]
  BY <1>2, <1>8 DEF Room, On
<1> QED
  BY <1>8, <1>9, <1>10, SleepsForTaken DEF Flowing

\* As long as no call fails and nobody is interrupted, contexts that keep their
\* coders' slots while they wait for reasoning slots never all wait for each
\* other, whatever the executors take and however few their slots.
THEOREM NoneWaitForAll ==
  ASSUME Peaceful, CodersPlaced
  PROVE  Spec => []NoCyclicWait
<1>1. NoClock
  BY DEF Peaceful, NoClock
<1>2. Init => Calm /\ Flowing
  BY FlowingAtFirst DEF Init, InRound, Calm
<1>3. Calm /\ Flowing /\ Leasing /\ Leasing' /\ Telltale /\ [Next]_vars => (Calm /\ Flowing)'
  BY <1>1, CalmNext, FlowingNext
<1>4. Calm /\ Flowing /\ Leasing => NoCyclicWait
  BY SomebodyGoesOn
<1> QED
  BY <1>2, <1>3, <1>4, AlwaysLeasing, AlwaysTelltale, PTL DEF Spec
=============================================================================
