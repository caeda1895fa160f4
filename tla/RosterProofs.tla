---------------------------- MODULE RosterProofs ----------------------------
(***************************************************************************)
(* Proofs about Roster, for any executors, any contexts and any            *)
(* exclusions.  The inductive invariant says that counters and clones are  *)
(* those of the slots taken, and when a context holds a slot for a call; a *)
(* second one, for the wake-ups, says who sleeps and what may end.         *)
(***************************************************************************)
EXTENDS Roster, FiniteSetTheorems, SequenceTheorems, WellFoundedInduction, TLAPS

\* The counters, the clones and the slots taken agree.
Usage ==
    /\ busy \in [Executors -> Nat] /\ busyCoders \in [Executors -> Nat]
    /\ clones \in [Executors -> SUBSET (Nat \ {0})] /\ turn \in [Executors -> Nat]
    /\ seats \subseteq [of : Contexts, role : Roles, on : Executors, clone : Nat \ {0}]
    /\ IsFiniteSet(seats)
    /\ SlotAccounting /\ ClonesDistinct

\* What the fibers keep is well typed.
Fibers ==
    /\ pc \in [Contexts -> Points] /\ want \in [Contexts -> Roles]
    /\ because \in [Contexts -> {"none", "nobody", "held", "out"}]
    /\ tried \in [Contexts -> Seq(Executors)]
    /\ handovers \in [Contexts -> 0..MaxHandovers]
    /\ due \in [Contexts -> SUBSET Executors]
    /\ callsLeft \in [Contexts -> Nat]

\* So are the exclusions and the wake-ups.
Exclusion == [kind : Kinds \cup {"none", "health", "until"}, due : BOOLEAN]
Round ==
    /\ excl \in [Executors -> Exclusion]
    /\ waiting \subseteq Contexts /\ timed \subseteq Contexts /\ changesLeft \in Nat

\* A call that failed knows on whom, and moves once: nobody fails a third time.
Moves(d) ==
    /\ Len(tried[d]) <= 2
    /\ pc[d] \in {"failing", "reported"} => tried[d] # <<>>
    /\ pc[d] \notin {"failing", "reported", "interrupted"} => Len(tried[d]) <= 1

\* A slot for a call is held from the taking of it to the end of the call only.
OneCall(d) ==
    /\ pc[d] = "calling" => want[d] = "reviewer"
    /\ pc[d] # "interrupted" /\ ~(pc[d] \in {"taken", "calling"} /\ want[d] = "reviewer") =>
           CallSeats(d) = {}

\* A context goes on with its own executor only for a reason.
Owns(d) == pc[d] = "owning" => want[d] = "reviewer" /\ because[d] # "none" /\ Own(d) # {}

\* A call is independent of the coder, or rides on it, for a reason.
Independent(d) ==
    pc[d] \in {"taken", "calling"} /\ want[d] = "reviewer" =>
        /\ because[d] = "none" => \A s \in CallSeats(d) : s.on \notin Own(d)
        /\ CallSeats(d) = {} => because[d] # "none" /\ Own(d) # {}

\* Who holds a coder that can serve is not told that nobody can.
Served(d) ==
    pc[d] = "exhausted" /\ want[d] = "reviewer" => \A e \in Own(d) : "reviewer" \notin Takes[e]

Sound(d) == Moves(d) /\ OneCall(d) /\ Owns(d) /\ Independent(d) /\ Served(d)

Leasing == Usage /\ Fibers /\ Round /\ \A d \in Contexts : Sound(d)

-----------------------------------------------------------------------------
(* Taking and freeing slots.                                               *)

\* A nonempty set of natural numbers has a least element.
LEMMA Least ==
  ASSUME NEW S \in SUBSET Nat, S # {}
  PROVE  \E n \in S : \A m \in S : n <= m
<1>1. PICK n \in S : \A m \in S : ~(<<m, n>> \in OpToRel(<, Nat))
  BY NatLessThanWellFounded, WFMin, Zenon
<1>2. ASSUME NEW m \in S
      PROVE  n <= m
  <2>1. ~(<<m, n>> \in OpToRel(<, Nat))
    BY <1>1
  <2>2. ~(m < n)
    BY <2>1, Zenon DEF OpToRel
  <2> QED
    BY <2>2
<1> QED
  BY <1>2

\* LowestFree finds a number that is not in use, within one of their count.
LEMMA LowestFreeIsFree ==
  ASSUME NEW used \in SUBSET Nat, IsFiniteSet(used)
  PROVE  /\ LowestFree(used) \in 1..(Cardinality(used) + 1)
         /\ LowestFree(used) \notin used
<1> DEFINE n == Cardinality(used)
           free == {k \in 1..(n + 1) : k \notin used}
<1>1. n \in Nat
  BY FS_CardinalityType
<1>2. IsFiniteSet(1..(n + 1)) /\ Cardinality(1..(n + 1)) = n + 1
  BY <1>1, FS_Interval
<1>3. free # {}
  <2> SUFFICES ASSUME 1..(n + 1) \subseteq used
               PROVE  FALSE
    OBVIOUS
  <2>1. Cardinality(1..(n + 1)) <= n
    BY FS_Subset
  <2> QED
    BY <2>1, <1>1, <1>2
<1>4. free \in SUBSET Nat
  BY <1>1
<1> HIDE DEF free
<1>5. PICK k \in free : \A m \in free : k <= m
  BY <1>3, <1>4, Least
<1>6. LowestFree(used) = CHOOSE i \in free : \A m \in free : i <= m
  BY DEF LowestFree, free
<1>7. LowestFree(used) \in free
  BY <1>5, <1>6
<1> QED
  BY <1>7 DEF free

\* The slots on one executor, and those of them for coders, are finitely many.
LEMMA OnFinite ==
  ASSUME NEW S, IsFiniteSet(S), NEW e
  PROVE  /\ IsFiniteSet(On(S, e)) /\ Cardinality(On(S, e)) \in Nat
         /\ IsFiniteSet(Coding(On(S, e))) /\ Cardinality(Coding(On(S, e))) \in Nat
<1>1. On(S, e) \in SUBSET S /\ Coding(On(S, e)) \in SUBSET S
  BY DEF On, Coding
<1> QED
  BY <1>1, FS_Subset, FS_CardinalityType

\* As many clones are in use as slots are taken.
LEMMA ClonesCounted ==
  ASSUME Usage, NEW e \in Executors
  PROVE  /\ IsFiniteSet(clones[e]) /\ clones[e] \in SUBSET Nat
         /\ Cardinality(clones[e]) = busy[e]
<1> DEFINE taken == On(seats, e)
           number == [s \in taken |-> s.clone]
<1>1. /\ clones[e] = {s.clone : s \in taken} /\ busy[e] = Cardinality(taken)
      /\ \A s, t \in taken : s.clone = t.clone => s = t
  BY DEF Usage, ClonesDistinct, SlotAccounting
<1>2. IsFiniteSet(taken)
  BY OnFinite DEF Usage
<1>3. number \in Injection(taken, clones[e]) /\ number \in Surjection(taken, clones[e])
  BY <1>1 DEF Injection, Surjection, IsInjective
<1>4. IsFiniteSet(clones[e]) /\ Cardinality(clones[e]) = Cardinality(taken)
  BY <1>2, <1>3, FS_Surjection
<1>5. clones[e] \in SUBSET Nat
  BY DEF Usage
<1> QED
  BY <1>1, <1>4, <1>5

\* Taking a free slot keeps the counters and the clones true.
LEMMA TakeCounts ==
  ASSUME Usage, want \in [Contexts -> Roles], NEW c \in Contexts, NEW e \in Executors,
         FreeFor(e, want[c]), Take(c, e)
  PROVE  Usage'
<1> DEFINE n == LowestFree(clones[e])
           coder == want[c] = "coder"
           seat == [of |-> c, role |-> want[c], on |-> e, clone |-> n]
<1>1. /\ busy' = [busy EXCEPT ![e] = @ + 1]
      /\ busyCoders' = [busyCoders EXCEPT ![e] = IF coder THEN @ + 1 ELSE @]
      /\ clones' = [clones EXCEPT ![e] = @ \cup {n}]
      /\ turn' = [f \in Executors |-> IF f = e THEN Cardinality(Executors)
                                      ELSE IF turn[f] > turn[e] THEN turn[f] - 1 ELSE turn[f]]
      /\ seats' = seats \cup {seat}
  BY DEF Take
<1>2. n \in 1..(busy[e] + 1) /\ n \notin clones[e]
  BY ClonesCounted, LowestFreeIsFree
<1>3. busy[e] \in Nat /\ busyCoders[e] \in Nat /\ Slots[e] \in Nat /\ CoderSlots[e] \in Nat
  BY SlotsAssumption DEF Usage
<1>4. busy[e] < Slots[e] /\ (coder => busyCoders[e] < CoderSlots[e])
  BY DEF FreeFor
<1>5. want[c] \in Roles /\ n \in Nat \ {0} /\ n \in 1..Slots[e]
  BY <1>2, <1>3, <1>4
<1> HIDE DEF n
<1>6. seat \in [of : Contexts, role : Roles, on : Executors, clone : Nat \ {0}]
  BY <1>5
<1>7. seat.on = e /\ seat.clone = n /\ (seat.role = "coder" <=> coder)
  OBVIOUS
<1> HIDE DEF seat, coder
<1>8. /\ busy' \in [Executors -> Nat] /\ busyCoders' \in [Executors -> Nat]
      /\ clones' \in [Executors -> SUBSET (Nat \ {0})]
  BY <1>1, <1>5 DEF Usage
<1>9. turn' \in [Executors -> Nat]
  <2>1. Cardinality(Executors) \in Nat
    BY ExecutorsAssumption, FS_CardinalityType
  <2>2. \A f \in Executors : turn[f] \in Nat /\ turn[e] \in Nat
    BY DEF Usage
  <2>3. \A f \in Executors : turn[f] > turn[e] => turn[f] - 1 \in Nat
    BY <2>2
  <2> QED
    BY <1>1, <2>1, <2>2, <2>3
<1>10. IsFiniteSet(seats') /\ seats' \subseteq [of : Contexts, role : Roles, on : Executors,
                                                clone : Nat \ {0}]
  BY <1>1, <1>6, FS_AddElement DEF Usage
<1>11. seat \notin seats
  BY <1>2, <1>7 DEF Usage, ClonesDistinct, On
<1>12. ASSUME NEW f \in Executors, f # e
       PROVE  /\ On(seats', f) = On(seats, f) /\ busy'[f] = busy[f]
              /\ busyCoders'[f] = busyCoders[f] /\ clones'[f] = clones[f]
  BY <1>1, <1>7, <1>12 DEF On, Usage
<1>13. On(seats', e) = On(seats, e) \cup {seat}
  BY <1>1, <1>7 DEF On
<1>14. Coding(On(seats', e)) = IF coder THEN Coding(On(seats, e)) \cup {seat}
                               ELSE Coding(On(seats, e))
  BY <1>13, <1>7 DEF Coding
<1>15. /\ IsFiniteSet(On(seats, e)) /\ Cardinality(On(seats, e)) \in Nat
       /\ IsFiniteSet(Coding(On(seats, e))) /\ Cardinality(Coding(On(seats, e))) \in Nat
  BY OnFinite DEF Usage
<1>16. seat \notin On(seats, e) /\ seat \notin Coding(On(seats, e))
  BY <1>11 DEF On, Coding
<1>17. Cardinality(On(seats', e)) = Cardinality(On(seats, e)) + 1
  BY <1>13, <1>15, <1>16, FS_AddElement
<1>18. Cardinality(Coding(On(seats', e)))
          = IF coder THEN Cardinality(Coding(On(seats, e))) + 1
            ELSE Cardinality(Coding(On(seats, e)))
  BY <1>14, <1>15, <1>16, FS_AddElement
<1>19. busy'[e] = busy[e] + 1 /\ busyCoders'[e] = IF coder THEN busyCoders[e] + 1 ELSE busyCoders[e]
  BY <1>1 DEF Usage
<1>20. SlotAccounting'
  <2>1. busy[e] = Cardinality(On(seats, e)) /\ busyCoders[e] = Cardinality(Coding(On(seats, e)))
        /\ busyCoders[e] <= CoderSlots[e]
    BY DEF Usage, SlotAccounting
  <2>2. busy'[e] = Cardinality(On(seats', e)) /\ busy'[e] <= Slots[e]
    BY <2>1, <1>3, <1>4, <1>17, <1>19
  <2>3. busyCoders'[e] = Cardinality(Coding(On(seats', e))) /\ busyCoders'[e] <= CoderSlots[e]
    BY <2>1, <1>3, <1>4, <1>18, <1>19
  <2>4. ASSUME NEW f \in Executors, f # e
        PROVE  /\ busy'[f] = Cardinality(On(seats', f)) /\ busy'[f] <= Slots[f]
               /\ busyCoders'[f] = Cardinality(Coding(On(seats', f)))
               /\ busyCoders'[f] <= CoderSlots[f]
    BY <1>12, <2>4 DEF Usage, SlotAccounting
  <2> QED
    BY <2>2, <2>3, <2>4 DEF SlotAccounting
<1>21. ClonesDistinct'
  <2>1. /\ clones[e] = {s.clone : s \in On(seats, e)} /\ clones[e] \subseteq 1..Slots[e]
        /\ \A s, t \in On(seats, e) : s.clone = t.clone => s = t
    BY DEF Usage, ClonesDistinct
  <2>2. clones'[e] = clones[e] \cup {n}
    BY <1>1 DEF Usage
  <2>3. clones'[e] = {s.clone : s \in On(seats', e)}
    BY <2>1, <2>2, <1>7, <1>13
  <2>4. clones'[e] \subseteq 1..Slots[e]
    BY <2>1, <2>2, <1>5
  <2>5. \A s, t \in On(seats', e) : s.clone = t.clone => s = t
    BY <2>1, <1>2, <1>7, <1>13
  <2>6. ASSUME NEW f \in Executors, f # e
        PROVE  /\ clones'[f] = {s.clone : s \in On(seats', f)} /\ clones'[f] \subseteq 1..Slots[f]
               /\ \A s, t \in On(seats', f) : s.clone = t.clone => s = t
    BY <1>12, <2>6 DEF Usage, ClonesDistinct
  <2> QED
    BY <2>3, <2>4, <2>5, <2>6 DEF ClonesDistinct
<1> QED
  BY <1>8, <1>9, <1>10, <1>20, <1>21 DEF Usage

\* Freeing slots that are taken keeps the counters and the clones true.
LEMMA FreeCounts ==
  ASSUME Usage, NEW gone \in SUBSET seats, Free(gone)
  PROVE  Usage'
<1>1. /\ busy' = [e \in Executors |-> Less(busy[e], Cardinality(On(gone, e)))]
      /\ busyCoders' = [e \in Executors |->
                           Less(busyCoders[e], Cardinality(Coding(On(gone, e))))]
      /\ clones' = [e \in Executors |-> clones[e] \ {s.clone : s \in On(gone, e)}]
      /\ seats' = seats \ gone /\ turn' = turn
  BY DEF Free
<1>2. /\ IsFiniteSet(seats') /\ turn' \in [Executors -> Nat]
      /\ seats' \subseteq [of : Contexts, role : Roles, on : Executors, clone : Nat \ {0}]
  BY <1>1, FS_Difference DEF Usage
<1>3. \A s \in seats : s \in [of : Contexts, role : Roles, on : Executors, clone : Nat \ {0}]
  BY DEF Usage
<1>4. ASSUME NEW e \in Executors
      PROVE  /\ busy'[e] = Cardinality(On(seats', e)) /\ busy'[e] <= Slots[e] /\ busy'[e] \in Nat
             /\ busyCoders'[e] = Cardinality(Coding(On(seats', e)))
             /\ busyCoders'[e] <= CoderSlots[e] /\ busyCoders'[e] \in Nat
             /\ clones'[e] = {s.clone : s \in On(seats', e)}
             /\ clones'[e] \in SUBSET (Nat \ {0}) /\ clones'[e] \subseteq 1..Slots[e]
             /\ \A s, t \in On(seats', e) : s.clone = t.clone => s = t
  <2>1. /\ busy[e] = Cardinality(On(seats, e)) /\ busy[e] <= Slots[e]
        /\ busyCoders[e] = Cardinality(Coding(On(seats, e))) /\ busyCoders[e] <= CoderSlots[e]
        /\ clones[e] = {s.clone : s \in On(seats, e)} /\ clones[e] \subseteq 1..Slots[e]
        /\ \A s, t \in On(seats, e) : s.clone = t.clone => s = t
    BY DEF Usage, SlotAccounting, ClonesDistinct
  <2>2. Slots[e] \in Nat /\ CoderSlots[e] \in Nat
    BY SlotsAssumption
  <2>3. /\ On(seats', e) = On(seats, e) \ On(gone, e)
        /\ On(seats, e) \cap On(gone, e) = On(gone, e)
        /\ Coding(On(seats', e)) = Coding(On(seats, e)) \ Coding(On(gone, e))
        /\ Coding(On(seats, e)) \cap Coding(On(gone, e)) = Coding(On(gone, e))
    BY <1>1 DEF On, Coding
  <2>4. IsFiniteSet(gone) /\ IsFiniteSet(seats)
    BY FS_Subset DEF Usage
  <2>5. /\ IsFiniteSet(On(seats, e)) /\ Cardinality(On(seats, e)) \in Nat
        /\ IsFiniteSet(Coding(On(seats, e))) /\ Cardinality(Coding(On(seats, e))) \in Nat
        /\ Cardinality(On(gone, e)) \in Nat /\ Cardinality(Coding(On(gone, e))) \in Nat
        /\ Cardinality(On(seats', e)) \in Nat /\ Cardinality(Coding(On(seats', e))) \in Nat
    BY <2>4, <1>2, OnFinite
  <2>6. /\ Cardinality(On(seats', e)) = Cardinality(On(seats, e)) - Cardinality(On(gone, e))
        /\ Cardinality(Coding(On(seats', e)))
              = Cardinality(Coding(On(seats, e))) - Cardinality(Coding(On(gone, e)))
    <3>1. Cardinality(On(seats, e) \ On(gone, e))
             = Cardinality(On(seats, e)) - Cardinality(On(seats, e) \cap On(gone, e))
      BY <2>5, FS_Difference
    <3>2. Cardinality(Coding(On(seats, e)) \ Coding(On(gone, e)))
             = Cardinality(Coding(On(seats, e)))
               - Cardinality(Coding(On(seats, e)) \cap Coding(On(gone, e)))
      BY <2>5, FS_Difference
    <3> QED
      BY <2>3, <3>1, <3>2
  <2>7. /\ busy'[e] = Less(busy[e], Cardinality(On(gone, e)))
        /\ busyCoders'[e] = Less(busyCoders[e], Cardinality(Coding(On(gone, e))))
        /\ clones'[e] = clones[e] \ {s.clone : s \in On(gone, e)}
    BY <1>1
  <2>8. busy'[e] = Cardinality(On(seats', e)) /\ busy'[e] <= Slots[e] /\ busy'[e] \in Nat
    BY <2>1, <2>2, <2>5, <2>6, <2>7 DEF Less
  <2>9. /\ busyCoders'[e] = Cardinality(Coding(On(seats', e)))
        /\ busyCoders'[e] <= CoderSlots[e] /\ busyCoders'[e] \in Nat
    BY <2>1, <2>2, <2>5, <2>6, <2>7 DEF Less
  <2>10. On(gone, e) \subseteq On(seats, e)
    BY DEF On
  <2>11. clones'[e] = {s.clone : s \in On(seats', e)}
    <3>1. ASSUME NEW s \in On(seats, e), s \notin On(gone, e)
          PROVE  s.clone \notin {t.clone : t \in On(gone, e)}
      BY <3>1, <2>1, <2>10
    <3> QED
      BY <3>1, <2>1, <2>3, <2>7
  <2>12. clones[e] \in SUBSET (Nat \ {0})
    BY DEF Usage
  <2>13. clones'[e] \in SUBSET (Nat \ {0}) /\ clones'[e] \subseteq 1..Slots[e]
    BY <2>1, <2>7, <2>12
  <2>14. \A s, t \in On(seats', e) : s.clone = t.clone => s = t
    BY <2>1, <2>3
  <2> QED
    BY <2>8, <2>9, <2>11, <2>13, <2>14
<1>5. /\ busy' \in [Executors -> Nat] /\ busyCoders' \in [Executors -> Nat]
      /\ clones' \in [Executors -> SUBSET (Nat \ {0})]
  BY <1>1, <1>4
<1>6. SlotAccounting' /\ ClonesDistinct'
  BY <1>4 DEF SlotAccounting, ClonesDistinct
<1> QED
  BY <1>2, <1>5, <1>6 DEF Usage

-----------------------------------------------------------------------------
(* Whose slots a step changes.                                             *)

\* What the invariant says of a context depends on its own slots and words only.
LEMMA OthersKeep ==
  ASSUME NEW d, Sound(d), SeatsOf(d)' = SeatsOf(d), pc'[d] = pc[d], want'[d] = want[d],
         because'[d] = because[d], tried'[d] = tried[d]
  PROVE  Sound(d)'
<1>1. CallSeats(d)' = CallSeats(d) /\ Own(d)' = Own(d)
  BY DEF CallSeats, Own
<1> QED
  BY <1>1 DEF Sound, Moves, OneCall, Owns, Independent, Served

\* A slot that is taken goes to the context that asked, for the role it asked for.
LEMMA TakenSeat ==
  ASSUME NEW c \in Contexts, NEW e, Take(c, e)
  PROVE  /\ \A d \in Contexts \ {c} : SeatsOf(d)' = SeatsOf(d)
         /\ want[c] # "coder" => Own(c)' = Own(c)
         /\ want[c] # "reviewer" => CallSeats(c)' = CallSeats(c)
         /\ want[c] = "reviewer" =>
               CallSeats(c)' # {} /\ \A s \in CallSeats(c)' : s \in CallSeats(c) \/ s.on = e
<1>1. PICK seat : /\ seat.of = c /\ seat.role = want[c] /\ seat.on = e
                  /\ seats' = seats \cup {seat}
  <2> DEFINE s == [of |-> c, role |-> want[c], on |-> e, clone |-> LowestFree(clones[e])]
  <2>1. s.of = c /\ s.role = want[c] /\ s.on = e /\ seats' = seats \cup {s}
    BY DEF Take
  <2> QED
    BY <2>1
<1>2. SeatsOf(c)' = SeatsOf(c) \cup {seat}
  BY <1>1 DEF SeatsOf
<1>3. \A d \in Contexts \ {c} : SeatsOf(d)' = SeatsOf(d)
  BY <1>1 DEF SeatsOf
<1>4. want[c] # "coder" => Own(c)' = Own(c)
  BY <1>1, <1>2 DEF Own
<1>5. CallSeats(c)' = IF want[c] = "reviewer" THEN CallSeats(c) \cup {seat} ELSE CallSeats(c)
  BY <1>1, <1>2 DEF CallSeats
<1> QED
  BY <1>1, <1>3, <1>4, <1>5

\* A scope that closes frees slots of its context only.
LEMMA FreedSeats ==
  ASSUME NEW c \in Contexts, NEW gone \in SUBSET SeatsOf(c), Free(gone)
  PROVE  /\ gone \in SUBSET seats
         /\ \A d \in Contexts \ {c} : SeatsOf(d)' = SeatsOf(d)
         /\ SeatsOf(c)' = SeatsOf(c) \ gone
         /\ waiting' \subseteq waiting
<1>1. seats' = seats \ gone /\ (waiting' = waiting \/ waiting' = {})
  BY DEF Free, Signal
<1>2. \A s \in gone : s \in seats /\ s.of = c
  BY DEF SeatsOf
<1> QED
  BY <1>1, <1>2 DEF SeatsOf

\* Expired exclusions leave an executor in the round.
LEMMA ExpireTyped ==
  ASSUME excl \in [Executors -> Exclusion]
  PROVE  AfterExpire \in [Executors -> Exclusion]
<1>1. InRound \in Exclusion
  BY DEF InRound, Exclusion
<1> QED
  BY <1>1 DEF AfterExpire

\* Who is picked may be leased and has a slot free.
LEMMA PickIsFree ==
  ASSUME NEW r, NEW avoid, NEW prefer, NEW e \in Pick(r, avoid, prefer)
  PROVE  e \in Executors /\ e \notin avoid /\ r \in Takes[e] /\ FreeFor(e, r)
<1>1. e \in Candidates(r, avoid)
  BY DEF Pick, Best
<1> QED
  BY <1>1 DEF Candidates, Eligible

\* What an attempt that takes a slot leaves behind.
LEMMA AttemptTakes ==
  ASSUME Leasing, NEW c \in Contexts, NEW e \in Executors, FreeFor(e, want[c]), Take(c, e),
         Goto(c, "taken"), UNCHANGED <<want, tried>>,
         \A d \in Contexts \ {c} : because'[d] = because[d],
         because'[c] = "none" => e \notin Own(c) \/ want[c] = "coder",
         CallSeats(c) = {}, Len(tried[c]) <= 1
  PROVE  Usage' /\ pc' \in [Contexts -> Points] /\ \A d \in Contexts : Sound(d)'
<1>1. Usage'
  BY TakeCounts DEF Leasing, Fibers
<1>2. pc' = [pc EXCEPT ![c] = "taken"] /\ pc'[c] = "taken" /\ pc' \in [Contexts -> Points]
  BY DEF Goto, Leasing, Fibers, Points
<1>3. ASSUME NEW d \in Contexts, d # c
      PROVE  Sound(d)'
  <2>1. SeatsOf(d)' = SeatsOf(d) /\ pc'[d] = pc[d] /\ because'[d] = because[d]
    BY <1>3, <1>2, TakenSeat DEF Leasing, Fibers
  <2> QED
    BY <2>1, OthersKeep DEF Leasing
<1>4. want'[c] = want[c] /\ want[c] \in Roles /\ tried'[c] = tried[c]
  BY DEF Leasing, Fibers
<1>5. Moves(c)' /\ Owns(c)' /\ Served(c)'
  BY <1>2, <1>4 DEF Moves, Owns, Served
<1>6. OneCall(c)'
  BY <1>2, <1>4, TakenSeat DEF OneCall, Roles
<1>7. Independent(c)'
  <2> SUFFICES ASSUME want[c] = "reviewer"
               PROVE  /\ because'[c] = "none" => \A s \in CallSeats(c)' : s.on \notin Own(c)'
                      /\ CallSeats(c)' # {}
    BY <1>4 DEF Independent
  <2>1. Own(c)' = Own(c) /\ CallSeats(c)' # {} /\ \A s \in CallSeats(c)' : s.on = e
    BY TakenSeat
  <2> QED
    BY <2>1
<1> QED
  BY <1>1, <1>2, <1>3, <1>5, <1>6, <1>7 DEF Sound

\* What a step leaves behind that moves one context on and no slot.
LEMMA MovesOnly ==
  ASSUME Leasing, NEW c \in Contexts, NEW point \in Points, Goto(c, point), UNCHANGED usage,
         \A d \in Contexts \ {c} :
            want'[d] = want[d] /\ because'[d] = because[d] /\ tried'[d] = tried[d],
         Sound(c)'
  PROVE  Usage' /\ pc' \in [Contexts -> Points] /\ \A d \in Contexts : Sound(d)'
<1>1. UNCHANGED <<busy, busyCoders, clones, turn, seats>>
  BY DEF usage
<1>2. Usage'
  BY <1>1 DEF Leasing, Usage, SlotAccounting, ClonesDistinct
<1>3. pc' = [pc EXCEPT ![c] = point] /\ pc' \in [Contexts -> Points]
  BY DEF Goto, Leasing, Fibers
<1>4. ASSUME NEW d \in Contexts, d # c
      PROVE  Sound(d)'
  <2>1. SeatsOf(d)' = SeatsOf(d) /\ pc'[d] = pc[d]
    BY <1>1, <1>3, <1>4 DEF SeatsOf, Leasing, Fibers
  <2> QED
    BY <2>1, <1>4, OthersKeep DEF Leasing
<1> QED
  BY <1>2, <1>3, <1>4

\* What a step leaves behind that moves one context on and frees slots of it.
LEMMA MovesAndFrees ==
  ASSUME Leasing, NEW c \in Contexts, NEW point \in Points, Goto(c, point),
         NEW gone \in SUBSET SeatsOf(c), Free(gone),
         \A d \in Contexts \ {c} :
            want'[d] = want[d] /\ because'[d] = because[d] /\ tried'[d] = tried[d],
         Sound(c)'
  PROVE  /\ Usage' /\ pc' \in [Contexts -> Points] /\ \A d \in Contexts : Sound(d)'
         /\ waiting' \subseteq Contexts
<1>1. Usage'
  BY FreedSeats, FreeCounts DEF Leasing
<1>2. pc' = [pc EXCEPT ![c] = point] /\ pc' \in [Contexts -> Points]
  BY DEF Goto, Leasing, Fibers
<1>3. ASSUME NEW d \in Contexts, d # c
      PROVE  Sound(d)'
  <2>1. SeatsOf(d)' = SeatsOf(d) /\ pc'[d] = pc[d]
    BY <1>2, <1>3, FreedSeats DEF Leasing, Fibers
  <2> QED
    BY <2>1, <1>3, OthersKeep DEF Leasing
<1>4. waiting' \subseteq Contexts
  BY FreedSeats DEF Leasing, Round
<1> QED
  BY <1>1, <1>2, <1>3, <1>4

-----------------------------------------------------------------------------
(* The steps of one lease.                                                 *)

\* Where no slot changes hands, no context's slots change.
LEMMA SameSeats ==
  ASSUME UNCHANGED usage, NEW d
  PROVE  SeatsOf(d)' = SeatsOf(d) /\ CallSeats(d)' = CallSeats(d) /\ Own(d)' = Own(d)
<1>1. seats' = seats
  BY DEF usage
<1> QED
  BY <1>1 DEF SeatsOf, CallSeats, Own

\* A context asks, for its coder or for a call.
LEMMA AskKeeps ==
  ASSUME Leasing, NEW c \in Contexts, Ask(c) \/ Call(c)
  PROVE  Leasing'
<1>1. /\ pc[c] \in {"idle", "held"} /\ Goto(c, "asking")
      /\ because' = [because EXCEPT ![c] = "none"]
      /\ UNCHANGED <<usage, excl, tried, handovers, due, waiting, timed, changesLeft>>
  BY DEF Ask, Call, At, moves, wakes, bounds
<1>2. PICK r \in Roles : want' = [want EXCEPT ![c] = r]
  BY DEF Ask, Call, Roles
<1>3. callsLeft' \in [Contexts -> Nat]
  <2>1. callsLeft' = callsLeft \/ (callsLeft[c] > 0 /\ callsLeft' = [callsLeft EXCEPT ![c] = @ - 1])
    BY DEF Ask, Call, bounds
  <2>2. ASSUME callsLeft[c] > 0  PROVE callsLeft[c] - 1 \in Nat
    BY <2>2 DEF Leasing, Fibers
  <2> QED
    BY <2>1, <2>2 DEF Leasing, Fibers
<1>4. pc'[c] = "asking" /\ tried'[c] = tried[c] /\ CallSeats(c)' = CallSeats(c)
  BY <1>1, SameSeats DEF Goto, Leasing, Fibers
<1>5. CallSeats(c) = {} /\ Len(tried[c]) <= 1
  BY <1>1 DEF Leasing, Sound, OneCall, Moves
<1>6. Sound(c)'
  BY <1>4, <1>5 DEF Sound, Moves, OneCall, Owns, Independent, Served
<1>7. Usage' /\ pc' \in [Contexts -> Points] /\ \A d \in Contexts : Sound(d)'
  <2>1. \A d \in Contexts \ {c} :
           want'[d] = want[d] /\ because'[d] = because[d] /\ tried'[d] = tried[d]
    BY <1>1, <1>2 DEF Leasing, Fibers
  <2> QED
    BY <1>1, <1>6, <2>1, MovesOnly DEF Points
<1>8. Fibers'
  BY <1>1, <1>2, <1>3, <1>7 DEF Leasing, Fibers
<1>9. Round'
  BY <1>1 DEF Leasing, Round
<1> QED
  BY <1>7, <1>8, <1>9 DEF Leasing

\* Nobody can serve, or the context goes on with its own executor for a
\* reason, or it waits.
LEMMA DecideKeeps ==
  ASSUME Leasing, NEW c \in Contexts, pc[c] \in {"asking", "checking"}, Decide(c),
         UNCHANGED <<usage, want, tried, handovers, due, callsLeft>>
  PROVE  Usage' /\ Fibers' /\ UNCHANGED wakes /\ \A d \in Contexts : Sound(d)'
<1> DEFINE why == IF ~CanEverServe(c) THEN "nobody" ELSE Blocked(c)
           own == \/ why = "nobody" /\ Borrow(c) # {}
                  \/ why \in {"held", "out"} /\ \E e \in Borrow(c) : excl[e].kind = "none"
           point == IF own THEN "owning" ELSE IF why = "nobody" THEN "exhausted" ELSE "announced"
           reason == IF own THEN why ELSE "none"
<1>1. because' = [because EXCEPT ![c] = reason] /\ Goto(c, point) /\ UNCHANGED wakes
  BY DEF Decide
<1>2. why \in {"nobody", "held", "out", "none"}
  BY DEF Blocked
<1>3. own => why \in {"nobody", "held", "out"} /\ Borrow(c) # {}
  OBVIOUS
<1>4. ~own /\ why = "nobody" => Borrow(c) = {}
  OBVIOUS
<1> HIDE DEF why, own
<1>5. /\ point \in {"owning", "exhausted", "announced"} /\ point \in Points
      /\ reason \in {"none", "nobody", "held", "out"}
  BY <1>2 DEF Points
<1>6. /\ point = "owning" => reason # "none" /\ Borrow(c) # {}
      /\ point = "exhausted" => Borrow(c) = {}
  BY <1>3, <1>4
<1> HIDE DEF point, reason
<1>7. pc'[c] = point /\ because'[c] = reason
  BY <1>1 DEF Goto, Leasing, Fibers
<1>8. /\ want'[c] = want[c] /\ want[c] \in Roles /\ tried'[c] = tried[c]
      /\ CallSeats(c)' = CallSeats(c) /\ Own(c)' = Own(c)
  BY SameSeats DEF Leasing, Fibers
<1>9. Borrow(c) # {} => want[c] = "reviewer" /\ Own(c) # {}
  BY <1>8 DEF Borrow, Roles
<1>10. want[c] = "reviewer" /\ Borrow(c) = {} => \A e \in Own(c) : "reviewer" \notin Takes[e]
  BY DEF Borrow
<1>11. CallSeats(c) = {} /\ Len(tried[c]) <= 1
  BY DEF Leasing, Sound, OneCall, Moves
<1>12. Sound(c)'
  <2>1. Moves(c)' /\ OneCall(c)' /\ Independent(c)'
    BY <1>5, <1>7, <1>8, <1>11 DEF Moves, OneCall, Independent
  <2>2. Owns(c)'
    BY <1>6, <1>7, <1>8, <1>9 DEF Owns
  <2>3. Served(c)'
    BY <1>6, <1>7, <1>8, <1>10 DEF Served
  <2> QED
    BY <2>1, <2>2, <2>3 DEF Sound
<1>13. Usage' /\ pc' \in [Contexts -> Points] /\ \A d \in Contexts : Sound(d)'
  <2>1. \A d \in Contexts \ {c} :
           want'[d] = want[d] /\ because'[d] = because[d] /\ tried'[d] = tried[d]
    BY <1>1 DEF Leasing, Fibers
  <2> QED
    BY <1>1, <1>5, <1>12, <2>1, MovesOnly
<1>14. Fibers'
  BY <1>1, <1>5, <1>13 DEF Leasing, Fibers
<1> QED
  BY <1>1, <1>13, <1>14

\* What an attempt that takes a slot needs of where the context is.
LEMMA MayTake ==
  ASSUME Leasing, NEW c \in Contexts, pc[c] \in {"idle", "asking", "probing", "owning"}
  PROVE  CallSeats(c) = {} /\ Len(tried[c]) <= 1
BY DEF Leasing, Sound, OneCall, Moves

\* An attempt that avoids the context's own executors takes an independent slot.
LEMMA AttemptApart ==
  ASSUME Leasing, NEW c \in Contexts, pc[c] \in {"idle", "asking", "probing"},
         NEW avoid, want[c] = "coder" \/ Own(c) \subseteq avoid, NEW prefer,
         NEW e \in Pick(want[c], avoid, prefer), Take(c, e), Goto(c, "taken"),
         UNCHANGED <<because, want, tried, handovers, due, callsLeft>>
  PROVE  Usage' /\ Fibers' /\ \A d \in Contexts : Sound(d)'
<1>1. e \in Executors /\ FreeFor(e, want[c]) /\ (e \notin Own(c) \/ want[c] = "coder")
  BY PickIsFree
<1>2. CallSeats(c) = {} /\ Len(tried[c]) <= 1
  BY MayTake
<1>3. Usage' /\ pc' \in [Contexts -> Points] /\ \A d \in Contexts : Sound(d)'
  BY <1>1, <1>2, AttemptTakes
<1> QED
  BY <1>3 DEF Leasing, Fibers

\* An attempt avoids the executors the context holds a coder on.
LEMMA AvoidsOwn ==
  ASSUME NEW c
  PROVE  want[c] = "coder" \/ Own(c) \subseteq Avoid(c)
BY DEF Avoid

\* The step that expires exclusions keeps the round typed.
LEMMA RoundKeeps ==
  ASSUME Leasing, excl' \in {excl, AfterExpire}, waiting' \subseteq Contexts,
         timed' \subseteq Contexts, changesLeft' \in Nat
  PROVE  Round'
BY ExpireTyped DEF Leasing, Round

\* tryLease takes a coder now, or ends.
LEMMA TryLeaseKeeps ==
  ASSUME Leasing, NEW c \in Contexts, TryLease(c)
  PROVE  Leasing'
<1>1. /\ pc[c] = "idle" /\ want[c] = "coder" /\ excl' = AfterExpire
      /\ UNCHANGED <<because, waiting, timed, want, tried, handovers, due, callsLeft,
                     changesLeft>>
      /\ \/ Goto(c, "ended") /\ UNCHANGED usage
         \/ \E e \in Pick(want[c], {}, {}) : Take(c, e) /\ Goto(c, "taken")
  BY DEF TryLease, At, Attempt, moves, bounds, wakes
<1>2. Round'
  BY <1>1, RoundKeeps DEF Leasing, Round
<1>3. CASE Goto(c, "ended") /\ UNCHANGED usage
  <2>1. pc'[c] = "ended" /\ tried'[c] = tried[c] /\ CallSeats(c)' = CallSeats(c)
    BY <1>1, <1>3, SameSeats DEF Goto, Leasing, Fibers
  <2>2. Sound(c)'
    BY <1>1, <2>1, MayTake DEF Sound, Moves, OneCall, Owns, Independent, Served
  <2>3. Usage' /\ pc' \in [Contexts -> Points] /\ \A d \in Contexts : Sound(d)'
    BY <1>1, <1>3, <2>2, MovesOnly DEF Points, Final
  <2>4. Fibers'
    BY <1>1, <2>3 DEF Leasing, Fibers
  <2> QED
    BY <1>2, <2>3, <2>4 DEF Leasing
<1>4. ASSUME NEW e \in Pick(want[c], {}, {}), Take(c, e), Goto(c, "taken")
      PROVE  Leasing'
  <2>1. Usage' /\ Fibers' /\ \A d \in Contexts : Sound(d)'
    BY <1>1, <1>4, AttemptApart
  <2> QED
    BY <1>2, <2>1 DEF Leasing
<1> QED
  BY <1>1, <1>3, <1>4

\* The first attempt takes an independent slot, decides, or first saves the
\* state it changed.
LEMMA FirstAttemptKeeps ==
  ASSUME Leasing, NEW c \in Contexts, FirstAttempt(c)
  PROVE  Leasing'
<1>1. /\ pc[c] = "asking" /\ excl' = AfterExpire
      /\ UNCHANGED <<want, tried, handovers, due, callsLeft, changesLeft>>
      /\ \/ Decide(c) /\ UNCHANGED usage
         \/ Goto(c, "checking") /\ UNCHANGED <<because, wakes>> /\ UNCHANGED usage
         \/ /\ UNCHANGED <<because, wakes>>
            /\ \E e \in Pick(want[c], Avoid(c), {}) : Take(c, e) /\ Goto(c, "taken")
  BY DEF FirstAttempt, At, Attempt, moves, bounds
<1>2. CASE Decide(c) /\ UNCHANGED usage
  <2>1. Usage' /\ Fibers' /\ UNCHANGED wakes /\ \A d \in Contexts : Sound(d)'
    BY <1>1, <1>2, DecideKeeps
  <2>2. Round'
    BY <1>1, <2>1, RoundKeeps DEF Leasing, Round, wakes
  <2> QED
    BY <2>1, <2>2 DEF Leasing
<1>3. CASE Goto(c, "checking") /\ UNCHANGED <<because, wakes>> /\ UNCHANGED usage
  <2>1. pc'[c] = "checking" /\ tried'[c] = tried[c] /\ CallSeats(c)' = CallSeats(c)
    BY <1>1, <1>3, SameSeats DEF Goto, Leasing, Fibers
  <2>2. Sound(c)'
    BY <1>1, <2>1, MayTake DEF Sound, Moves, OneCall, Owns, Independent, Served
  <2>3. Usage' /\ pc' \in [Contexts -> Points] /\ \A d \in Contexts : Sound(d)'
    BY <1>1, <1>3, <2>2, MovesOnly DEF Points
  <2>4. Fibers'
    BY <1>1, <1>3, <2>3 DEF Leasing, Fibers
  <2>5. Round'
    BY <1>1, <1>3, RoundKeeps DEF Leasing, Round, wakes
  <2> QED
    BY <2>3, <2>4, <2>5 DEF Leasing
<1>4. ASSUME UNCHANGED <<because, wakes>>, NEW e \in Pick(want[c], Avoid(c), {}), Take(c, e),
             Goto(c, "taken")
      PROVE  Leasing'
  <2>1. Usage' /\ Fibers' /\ \A d \in Contexts : Sound(d)'
    BY <1>1, <1>4, AttemptApart, AvoidsOwn
  <2>2. Round'
    BY <1>1, <1>4, RoundKeeps DEF Leasing, Round, wakes
  <2> QED
    BY <2>1, <2>2 DEF Leasing
<1> QED
  BY <1>1, <1>2, <1>3, <1>4

\* The checks that an attempt had put off.
LEMMA CheckKeeps ==
  ASSUME Leasing, NEW c \in Contexts, Check(c)
  PROVE  Leasing'
<1>1. /\ pc[c] = "checking" /\ Decide(c)
      /\ UNCHANGED <<usage, excl, want, tried, handovers, due, callsLeft, changesLeft>>
  BY DEF Check, At, moves, bounds
<1>2. Usage' /\ Fibers' /\ UNCHANGED wakes /\ \A d \in Contexts : Sound(d)'
  BY <1>1, DecideKeeps
<1>3. Round'
  BY <1>1, <1>2 DEF Leasing, Round, wakes
<1> QED
  BY <1>2, <1>3 DEF Leasing

\* Its own executor, with or without a slot of it; or an independent one.
LEMMA TakeOwnKeeps ==
  ASSUME Leasing, NEW c \in Contexts, TakeOwn(c)
  PROVE  Leasing'
<1> DEFINE avoid == Avoid(c) \ Borrow(c)
<1>1. /\ pc[c] = "owning" /\ excl' = AfterExpire
      /\ UNCHANGED <<want, tried, handovers, due, callsLeft, changesLeft, waiting, timed>>
      /\ \/ Goto(c, "calling") /\ UNCHANGED <<usage, because>>
         \/ \E e \in Pick(want[c], avoid, Borrow(c)) :
               /\ Take(c, e) /\ Goto(c, "taken")
               /\ because' = IF e \in Borrow(c) THEN because ELSE [because EXCEPT ![c] = "none"]
  BY DEF TakeOwn, At, moves, bounds, wakes
<1>2. Round'
  BY <1>1, RoundKeeps DEF Leasing, Round
<1>3. want[c] = "reviewer" /\ because[c] # "none" /\ Own(c) # {}
  BY <1>1 DEF Leasing, Sound, Owns
<1>4. CallSeats(c) = {} /\ Len(tried[c]) <= 1
  BY <1>1, MayTake
<1>5. CASE Goto(c, "calling") /\ UNCHANGED <<usage, because>>
  <2>1. /\ pc'[c] = "calling" /\ tried'[c] = tried[c] /\ want'[c] = want[c]
        /\ because'[c] = because[c] /\ CallSeats(c)' = CallSeats(c) /\ Own(c)' = Own(c)
    BY <1>1, <1>5, SameSeats DEF Goto, Leasing, Fibers
  <2>2. Sound(c)'
    BY <1>3, <1>4, <2>1 DEF Sound, Moves, OneCall, Owns, Independent, Served
  <2>3. Usage' /\ pc' \in [Contexts -> Points] /\ \A d \in Contexts : Sound(d)'
    BY <1>1, <1>5, <2>2, MovesOnly DEF Points
  <2>4. Fibers'
    BY <1>1, <1>5, <2>3 DEF Leasing, Fibers
  <2> QED
    BY <1>2, <2>3, <2>4 DEF Leasing
<1>6. ASSUME NEW e \in Pick(want[c], avoid, Borrow(c)), Take(c, e), Goto(c, "taken"),
             because' = IF e \in Borrow(c) THEN because ELSE [because EXCEPT ![c] = "none"]
      PROVE  Leasing'
  <2>1. e \in Executors /\ FreeFor(e, want[c]) /\ e \notin avoid
    BY <1>6, PickIsFree
  <2>2. because' \in [Contexts -> {"none", "nobody", "held", "out"}]
    BY <1>6 DEF Leasing, Fibers
  <2>3. because'[c] = "none" => e \notin Own(c)
    <3>1. Own(c) \subseteq Avoid(c)
      BY <1>3, AvoidsOwn
    <3> QED
      BY <3>1, <2>1, <1>3, <1>6
  <2>4. \A d \in Contexts \ {c} : because'[d] = because[d]
    BY <1>6 DEF Leasing, Fibers
  <2>5. Usage' /\ pc' \in [Contexts -> Points] /\ \A d \in Contexts : Sound(d)'
    BY <1>1, <1>4, <1>6, <2>1, <2>3, <2>4, AttemptTakes
  <2>6. Fibers'
    BY <1>1, <2>2, <2>5 DEF Leasing, Fibers
  <2> QED
    BY <1>2, <2>5, <2>6 DEF Leasing
<1> QED
  BY <1>1, <1>5, <1>6

\* Where nothing of a context changes but where it is, what it keeps is sound
\* if it awaits none of the points that say more.
LEMMA StaysSound ==
  ASSUME Leasing, NEW c \in Contexts,
         pc[c] \notin {"failing", "reported", "interrupted", "taken", "calling"},
         pc'[c] \notin {"taken", "calling", "owning", "exhausted", "failing", "reported"},
         tried'[c] = tried[c], SeatsOf(c)' \subseteq SeatsOf(c)
  PROVE  Sound(c)'
<1>1. CallSeats(c) = {} /\ Len(tried[c]) <= 1
  BY DEF Leasing, Sound, OneCall, Moves
<1>2. CallSeats(c)' = {}
  BY <1>1 DEF CallSeats
<1> QED
  BY <1>1, <1>2 DEF Sound, Moves, OneCall, Owns, Independent, Served

\* The steps of a lease that waits.
LEMMA WaitKeeps ==
  ASSUME Leasing, NEW c \in Contexts, StartProbes(c) \/ Recovered(c) \/ Saved(c) \/ Wake(c)
  PROVE  Leasing'
<1>1. PICK point \in {"probing", "asleep", "asking"} : Goto(c, point)
  BY DEF StartProbes, Recovered, Signal, Saved, Wake
<1>2. /\ pc[c] \in {"announced", "recovered", "saving", "asleep"}
      /\ UNCHANGED <<usage, excl, want, because, tried, handovers, callsLeft, changesLeft>>
  BY DEF StartProbes, Recovered, Signal, Saved, Wake, At, moves, bounds
<1>3. due' \in [Contexts -> SUBSET Executors]
  <2>1. due' = due \/ \E D \in SUBSET Executors : due' = [due EXCEPT ![c] = D]
    BY DEF StartProbes, Recovered, Signal, Saved, Wake
  <2> QED
    BY <2>1 DEF Leasing, Fibers
<1>4. waiting' \subseteq Contexts /\ timed' \subseteq Contexts
  BY DEF StartProbes, Recovered, Signal, Saved, Wake, Arm, wakes, Leasing, Round
<1>5. pc'[c] = point /\ point \in Points
  BY <1>1 DEF Goto, Leasing, Fibers, Points
<1>6. Sound(c)'
  <2>1. tried'[c] = tried[c] /\ SeatsOf(c)' \subseteq SeatsOf(c)
    BY <1>2, SameSeats
  <2> QED
    BY <1>1, <1>2, <1>5, <2>1, StaysSound
<1>7. Usage' /\ pc' \in [Contexts -> Points] /\ \A d \in Contexts : Sound(d)'
  BY <1>1, <1>2, <1>5, <1>6, MovesOnly
<1>8. Fibers' /\ Round'
  BY <1>2, <1>3, <1>4, <1>7 DEF Leasing, Fibers, Round
<1> QED
  BY <1>7, <1>8 DEF Leasing

\* The second attempt takes an independent slot, or goes to sleep.
LEMMA RetryKeeps ==
  ASSUME Leasing, NEW c \in Contexts, Retry(c)
  PROVE  Leasing'
<1>1. /\ pc[c] = "probing" /\ excl' = AfterExpire
      /\ UNCHANGED <<because, want, tried, handovers, due, callsLeft, changesLeft>>
      /\ \/ /\ UNCHANGED usage
            /\ (Arm(c) /\ Goto(c, "asleep")) \/ (Goto(c, "saving") /\ UNCHANGED wakes)
         \/ /\ UNCHANGED wakes
            /\ \E e \in Pick(want[c], Avoid(c), {}) : Take(c, e) /\ Goto(c, "taken")
  BY DEF Retry, At, Attempt, moves, bounds
<1>2. Round'
  <2>1. waiting' \subseteq Contexts /\ timed' \subseteq Contexts
    BY <1>1 DEF Arm, wakes, Leasing, Round
  <2> QED
    BY <1>1, <2>1, RoundKeeps DEF Leasing, Round
<1>3. ASSUME NEW point \in {"asleep", "saving"}, Goto(c, point), UNCHANGED usage
      PROVE  Leasing'
  <2>1. pc'[c] = point /\ point \in Points
    BY <1>3 DEF Goto, Leasing, Fibers, Points
  <2>2. tried'[c] = tried[c] /\ SeatsOf(c)' \subseteq SeatsOf(c)
    BY <1>1, <1>3, SameSeats
  <2>3. Sound(c)'
    BY <1>1, <2>1, <2>2, StaysSound
  <2>4. Usage' /\ pc' \in [Contexts -> Points] /\ \A d \in Contexts : Sound(d)'
    BY <1>1, <1>3, <2>1, <2>3, MovesOnly
  <2>5. Fibers'
    BY <1>1, <2>4 DEF Leasing, Fibers
  <2> QED
    BY <1>2, <2>4, <2>5 DEF Leasing
<1>4. ASSUME NEW e \in Pick(want[c], Avoid(c), {}), Take(c, e), Goto(c, "taken")
      PROVE  Leasing'
  <2>1. Usage' /\ Fibers' /\ \A d \in Contexts : Sound(d)'
    BY <1>1, <1>4, AttemptApart, AvoidsOwn
  <2> QED
    BY <1>2, <2>1 DEF Leasing
<1> QED
  BY <1>1, <1>3, <1>4

\* The finalizer is registered: the coder is held, or the call goes on.
LEMMA LeasedKeeps ==
  ASSUME Leasing, NEW c \in Contexts, Leased(c)
  PROVE  Leasing'
<1> DEFINE point == IF want[c] = "coder" THEN "held" ELSE "calling"
<1>1. /\ pc[c] = "taken" /\ Goto(c, point)
      /\ UNCHANGED <<usage, excl, want, because, tried, handovers, due, waiting, timed,
                     callsLeft, changesLeft>>
  BY DEF Leased, At, moves, wakes, bounds
<1>2. /\ pc'[c] = point /\ point \in Points /\ want'[c] = want[c] /\ tried'[c] = tried[c]
      /\ because'[c] = because[c] /\ CallSeats(c)' = CallSeats(c) /\ Own(c)' = Own(c)
      /\ want[c] \in Roles
  BY <1>1, SameSeats DEF Goto, Leasing, Fibers, Points
<1>3. /\ Len(tried[c]) <= 1 /\ (want[c] = "coder" => CallSeats(c) = {})
      /\ want[c] = "reviewer" =>
            /\ because[c] = "none" => \A s \in CallSeats(c) : s.on \notin Own(c)
            /\ CallSeats(c) = {} => because[c] # "none" /\ Own(c) # {}
  BY <1>1 DEF Leasing, Sound, Moves, OneCall, Independent
<1>4. Sound(c)'
  <2>1. Moves(c)' /\ Owns(c)' /\ Served(c)' /\ OneCall(c)'
    BY <1>2, <1>3 DEF Moves, Owns, Served, OneCall, Roles
  <2>2. Independent(c)'
    BY <1>2, <1>3 DEF Independent, Roles
  <2> QED
    BY <2>1, <2>2 DEF Sound
<1>5. Usage' /\ pc' \in [Contexts -> Points] /\ \A d \in Contexts : Sound(d)'
  BY <1>1, <1>2, <1>4, MovesOnly
<1>6. Fibers' /\ Round'
  BY <1>1, <1>5 DEF Leasing, Fibers, Round
<1> QED
  BY <1>5, <1>6 DEF Leasing

-----------------------------------------------------------------------------
(* The ends of a lease, and failures.                                      *)

\* After a call: what was tried is forgotten and the slot of the call is free.
LEMMA AfterCall ==
  ASSUME Leasing, NEW c \in Contexts,
         pc'[c] \in {"ended", "held"}, tried'[c] = <<>>, CallSeats(c)' = {}
  PROVE  Sound(c)'
<1>1. Len(tried'[c]) = 0
  BY EmptySeq
<1> QED
  BY <1>1 DEF Sound, Moves, OneCall, Owns, Independent, Served

\* Done goes on with the coder held, or ends.
LEMMA DoneTyped ==
  ASSUME Leasing, NEW c \in Contexts, Done(c)
  PROVE  /\ \E point \in {"ended", "held"} : point \in Points /\ Goto(c, point) /\ pc'[c] = point
         /\ tried' \in [Contexts -> Seq(Executors)] /\ tried'[c] = <<>>
         /\ \A d \in Contexts \ {c} : tried'[d] = tried[d]
         /\ handovers' = handovers
<1>1. <<>> \in Seq(Executors)
  BY EmptySeq
<1>2. /\ tried' = [tried EXCEPT ![c] = <<>>] /\ handovers' = handovers
      /\ Goto(c, "ended") \/ Goto(c, "held")
  BY DEF Done
<1>3. \A point : Goto(c, point) => pc'[c] = point
  BY DEF Goto, Leasing, Fibers
<1>4. "ended" \in Points /\ "held" \in Points
  BY DEF Points, Final
<1> QED
  BY <1>1, <1>2, <1>3, <1>4 DEF Leasing, Fibers

\* The slots of calls that a context frees leave it none.
LEMMA CallsFreed ==
  ASSUME NEW c \in Contexts, Free(CallSeats(c))
  PROVE  CallSeats(c) \in SUBSET SeatsOf(c) /\ CallSeats(c)' = {} /\ Own(c)' = Own(c)
<1>1. CallSeats(c) \in SUBSET SeatsOf(c)
  BY DEF CallSeats
<1>2. SeatsOf(c)' = SeatsOf(c) \ CallSeats(c)
  BY <1>1, FreedSeats
<1> QED
  BY <1>1, <1>2 DEF CallSeats, Own

\* A call ends.
LEMMA EndCallKeeps ==
  ASSUME Leasing, NEW c \in Contexts, EndCall(c)
  PROVE  Leasing'
<1>1. /\ Free(CallSeats(c)) /\ Done(c)
      /\ UNCHANGED <<excl, want, because, due, timed, callsLeft, changesLeft>>
  BY DEF EndCall, bounds
<1>2. /\ tried' \in [Contexts -> Seq(Executors)] /\ tried'[c] = <<>>
      /\ \A d \in Contexts \ {c} : tried'[d] = tried[d]
      /\ handovers' = handovers
  BY <1>1, DoneTyped
<1>3. PICK point \in {"ended", "held"} : point \in Points /\ Goto(c, point) /\ pc'[c] = point
  BY <1>1, DoneTyped
<1>4. CallSeats(c) \in SUBSET SeatsOf(c) /\ CallSeats(c)' = {}
  BY <1>1, CallsFreed
<1>5. Sound(c)'
  BY <1>2, <1>3, <1>4, AfterCall
<1>6. /\ Usage' /\ pc' \in [Contexts -> Points] /\ \A d \in Contexts : Sound(d)'
      /\ waiting' \subseteq Contexts
  BY <1>1, <1>2, <1>3, <1>4, <1>5, MovesAndFrees
<1>7. Fibers' /\ Round'
  BY <1>1, <1>2, <1>6 DEF Leasing, Fibers, Round
<1> QED
  BY <1>6, <1>7 DEF Leasing

\* A context ends with its slots free, or is interrupted with one it cannot know of.
LEMMA EndsKeep ==
  ASSUME Leasing, NEW c \in Contexts, EndStory(c) \/ Interrupt(c)
  PROVE  Leasing'
<1>1. PICK gone \in SUBSET SeatsOf(c) : Free(gone) /\ (EndStory(c) => gone = SeatsOf(c))
  <2>1. CASE EndStory(c)
    BY <2>1 DEF EndStory
  <2>2. CASE Interrupt(c) /\ ~EndStory(c)
    BY <2>2 DEF Interrupt
  <2> QED
    BY <2>1, <2>2
<1>2. /\ UNCHANGED <<excl, want, because, tried, handovers, callsLeft, changesLeft>>
      /\ Goto(c, "ended") \/ Goto(c, "interrupted")
  BY DEF EndStory, Interrupt, moves, bounds
<1>3. due' \in [Contexts -> SUBSET Executors] /\ timed' \subseteq Contexts
  BY DEF EndStory, Interrupt, Leasing, Fibers, Round
<1>4. CASE Goto(c, "interrupted")
  <2>1. pc'[c] = "interrupted" /\ tried'[c] = tried[c] /\ "interrupted" \in Points
    BY <1>2, <1>4 DEF Goto, Leasing, Fibers, Points, Final
  <2>2. Sound(c)'
    BY <2>1 DEF Leasing, Sound, Moves, OneCall, Owns, Independent, Served
  <2>3. /\ Usage' /\ pc' \in [Contexts -> Points] /\ \A d \in Contexts : Sound(d)'
        /\ waiting' \subseteq Contexts
    BY <1>1, <1>2, <1>4, <2>1, <2>2, MovesAndFrees
  <2>4. Fibers' /\ Round'
    BY <1>2, <1>3, <2>3 DEF Leasing, Fibers, Round
  <2> QED
    BY <2>3, <2>4 DEF Leasing
<1>5. CASE Goto(c, "ended") /\ EndStory(c)
  <2>1. pc'[c] = "ended" /\ tried'[c] = tried[c] /\ "ended" \in Points
    BY <1>2, <1>5 DEF Goto, Leasing, Fibers, Points, Final
  <2>2. pc[c] \in {"held", "exhausted"} /\ SeatsOf(c)' \subseteq SeatsOf(c)
    BY <1>1, <1>5, FreedSeats DEF EndStory
  <2>3. Sound(c)'
    BY <2>1, <2>2, StaysSound
  <2>4. /\ Usage' /\ pc' \in [Contexts -> Points] /\ \A d \in Contexts : Sound(d)'
        /\ waiting' \subseteq Contexts
    BY <1>1, <1>2, <1>5, <2>1, <2>3, MovesAndFrees
  <2>5. Fibers' /\ Round'
    BY <1>2, <1>3, <2>4 DEF Leasing, Fibers, Round
  <2> QED
    BY <2>4, <2>5 DEF Leasing
<1> QED
  BY <1>4, <1>5 DEF EndStory, Interrupt

\* A call fails on the executor that serves it.
LEMMA FailCallKeeps ==
  ASSUME Leasing, NEW c \in Contexts, FailCall(c)
  PROVE  Leasing'
<1>1. /\ pc[c] = "calling" /\ Free(CallSeats(c)) /\ Goto(c, "failing")
      /\ UNCHANGED <<excl, want, because, handovers, due, timed, callsLeft>>
      /\ changesLeft > 0 /\ changesLeft' = changesLeft - 1
  BY DEF FailCall, At, OneChange
<1>2. PICK e \in Serving(c) : tried' = [tried EXCEPT ![c] = Append(@, e)]
  BY DEF FailCall
<1>3. e \in Executors
  BY DEF Serving, CallSeats, Own, SeatsOf, Leasing, Usage
<1>4. /\ tried[c] \in Seq(Executors) /\ Len(tried[c]) \in Nat /\ Len(tried[c]) <= 1
      /\ tried'[c] = Append(tried[c], e)
  BY <1>1, <1>2, LenProperties DEF Leasing, Fibers, Sound, Moves
<1>5. /\ tried'[c] \in Seq(Executors) /\ tried'[c] # <<>> /\ Len(tried'[c]) <= 2
  BY <1>3, <1>4, AppendProperties
<1>6. tried' \in [Contexts -> Seq(Executors)] /\ \A d \in Contexts \ {c} : tried'[d] = tried[d]
  BY <1>2, <1>4, <1>5 DEF Leasing, Fibers
<1>7. pc'[c] = "failing" /\ "failing" \in Points
  BY <1>1 DEF Goto, Leasing, Fibers, Points
<1>8. CallSeats(c) \in SUBSET SeatsOf(c) /\ CallSeats(c)' = {}
  BY <1>1, CallsFreed
<1>9. Sound(c)'
  BY <1>5, <1>7, <1>8 DEF Sound, Moves, OneCall, Owns, Independent, Served
<1>10. /\ Usage' /\ pc' \in [Contexts -> Points] /\ \A d \in Contexts : Sound(d)'
       /\ waiting' \subseteq Contexts
  BY <1>1, <1>6, <1>7, <1>8, <1>9, MovesAndFrees
<1>11. Fibers' /\ Round'
  BY <1>1, <1>6, <1>10 DEF Leasing, Fibers, Round
<1> QED
  BY <1>10, <1>11 DEF Leasing

\* An executor that goes out of the round.
LEMMA OutTyped ==
  ASSUME Leasing, NEW e, NEW kind \in Kinds, Out(e, kind)
  PROVE  excl' \in [Executors -> Exclusion]
<1>1. [kind |-> kind, due |-> kind = "health"] \in Exclusion
  BY DEF Exclusion
<1> QED
  BY <1>1 DEF Out, Leasing, Round

\* The failure is reported, of a call or of the coder.
LEMMA ReportKeeps ==
  ASSUME Leasing, NEW c \in Contexts, Report(c) \/ FailCoder(c)
  PROVE  Leasing'
<1>1. /\ UNCHANGED <<usage, want, because, tried, handovers, due, waiting, timed, callsLeft>>
      /\ changesLeft' \in Nat
      /\ \/ pc[c] = "failing" /\ Goto(c, "reported")
         \/ pc[c] = "held" /\ Goto(c, "coderFailed")
  BY DEF Report, FailCoder, At, OneChange, moves, wakes, bounds, Leasing, Round
<1>2. excl' \in [Executors -> Exclusion]
  <2>1. \E e \in Executors \cup {Last(c)}, kind \in Kinds : Out(e, kind)
    BY DEF Report, FailCoder, ReportedKinds, Own, SeatsOf, Leasing, Usage
  <2> QED
    BY <2>1, OutTyped
<1>3. /\ tried'[c] = tried[c] /\ SeatsOf(c)' \subseteq SeatsOf(c)
      /\ CallSeats(c)' = CallSeats(c)
  BY <1>1, SameSeats
<1>4. CASE pc[c] = "failing" /\ Goto(c, "reported")
  <2>1. pc'[c] = "reported" /\ "reported" \in Points
    BY <1>4 DEF Goto, Leasing, Fibers, Points
  <2>2. Sound(c)'
    BY <1>3, <1>4, <2>1 DEF Leasing, Sound, Moves, OneCall, Owns, Independent, Served
  <2>3. Usage' /\ pc' \in [Contexts -> Points] /\ \A d \in Contexts : Sound(d)'
    BY <1>1, <1>4, <2>1, <2>2, MovesOnly
  <2>4. Fibers' /\ Round'
    BY <1>1, <1>2, <2>3 DEF Leasing, Fibers, Round
  <2> QED
    BY <2>3, <2>4 DEF Leasing
<1>5. CASE pc[c] = "held" /\ Goto(c, "coderFailed")
  <2>1. pc'[c] = "coderFailed" /\ "coderFailed" \in Points
    BY <1>5 DEF Goto, Leasing, Fibers, Points
  <2>2. Sound(c)'
    BY <1>3, <1>5, <2>1, StaysSound
  <2>3. Usage' /\ pc' \in [Contexts -> Points] /\ \A d \in Contexts : Sound(d)'
    BY <1>1, <1>5, <2>1, <2>2, MovesOnly
  <2>4. Fibers' /\ Round'
    BY <1>1, <1>2, <2>3 DEF Leasing, Fibers, Round
  <2> QED
    BY <2>3, <2>4 DEF Leasing
<1> QED
  BY <1>1, <1>4, <1>5

\* The call moves to another executor once, or is over.
LEMMA MoveKeeps ==
  ASSUME Leasing, NEW c \in Contexts, Move(c)
  PROVE  Leasing'
<1>1. /\ pc[c] = "reported" /\ waiting' = {} /\ because' = [because EXCEPT ![c] = "none"]
      /\ UNCHANGED <<usage, excl, want, due, timed, callsLeft, changesLeft>>
      /\ \/ Len(tried[c]) = 1 /\ Goto(c, "asking") /\ UNCHANGED <<tried, handovers>>
         \/ Done(c)
  BY DEF Move, At, Signal, MovesOn, moves, bounds
<1>2. CallSeats(c) = {} /\ CallSeats(c)' = CallSeats(c)
  BY <1>1, SameSeats DEF Leasing, Sound, OneCall
<1>3. /\ because' \in [Contexts -> {"none", "nobody", "held", "out"}]
      /\ \A d \in Contexts \ {c} : because'[d] = because[d]
  BY <1>1 DEF Leasing, Fibers
<1>4. Round'
  BY <1>1 DEF Leasing, Round
<1>5. CASE Len(tried[c]) = 1 /\ Goto(c, "asking") /\ UNCHANGED <<tried, handovers>>
  <2>1. pc'[c] = "asking" /\ "asking" \in Points /\ tried'[c] = tried[c]
    BY <1>5 DEF Goto, Leasing, Fibers, Points
  <2>2. Sound(c)'
    <3>1. Len(tried'[c]) = 1 /\ CallSeats(c)' = {}
      BY <1>2, <1>5, <2>1
    <3>2. Moves(c)'
      BY <2>1, <3>1 DEF Moves
    <3>3. OneCall(c)' /\ Owns(c)' /\ Independent(c)' /\ Served(c)'
      BY <2>1, <3>1 DEF OneCall, Owns, Independent, Served
    <3> QED
      BY <3>2, <3>3 DEF Sound
  <2>3. Usage' /\ pc' \in [Contexts -> Points] /\ \A d \in Contexts : Sound(d)'
    BY <1>1, <1>3, <1>5, <2>1, <2>2, MovesOnly
  <2>4. Fibers'
    BY <1>1, <1>3, <1>5, <2>3 DEF Leasing, Fibers
  <2> QED
    BY <1>4, <2>3, <2>4 DEF Leasing
<1>6. CASE Done(c)
  <2>1. /\ tried' \in [Contexts -> Seq(Executors)] /\ tried'[c] = <<>>
        /\ \A d \in Contexts \ {c} : tried'[d] = tried[d]
        /\ handovers' = handovers
    BY <1>6, DoneTyped
  <2>2. PICK point \in {"ended", "held"} : point \in Points /\ Goto(c, point) /\ pc'[c] = point
    BY <1>6, DoneTyped
  <2>3. Sound(c)'
    BY <1>2, <2>1, <2>2, AfterCall
  <2>4. Usage' /\ pc' \in [Contexts -> Points] /\ \A d \in Contexts : Sound(d)'
    BY <1>1, <1>3, <2>1, <2>2, <2>3, MovesOnly
  <2>5. Fibers'
    BY <1>1, <1>3, <2>1, <2>4 DEF Leasing, Fibers
  <2> QED
    BY <1>4, <2>4, <2>5 DEF Leasing
<1> QED
  BY <1>1, <1>5, <1>6

\* The coder is to be handed over, or its failure surfaces.
LEMMA CoderReportedKeeps ==
  ASSUME Leasing, NEW c \in Contexts, CoderReported(c)
  PROVE  Leasing'
<1>1. /\ pc[c] = "coderFailed" /\ waiting' = {}
      /\ UNCHANGED <<usage, excl, want, because, tried, due, timed, callsLeft, changesLeft>>
  BY DEF CoderReported, At, Signal, bounds
<1>2. PICK point \in {"handing", "held"} : Goto(c, point)
  BY DEF CoderReported
<1>3. handovers' \in [Contexts -> 0..MaxHandovers]
  <2>1. \/ handovers' = handovers
        \/ handovers[c] < MaxHandovers /\ handovers' = [handovers EXCEPT ![c] = @ + 1]
    BY DEF CoderReported
  <2>2. handovers[c] < MaxHandovers => handovers[c] + 1 \in 0..MaxHandovers
    BY SpecsAssumption DEF Leasing, Fibers
  <2> QED
    BY <2>1, <2>2 DEF Leasing, Fibers
<1>4. pc'[c] = point /\ point \in Points
  BY <1>2 DEF Goto, Leasing, Fibers, Points
<1>5. Sound(c)'
  <2>1. tried'[c] = tried[c] /\ SeatsOf(c)' \subseteq SeatsOf(c)
    BY <1>1, SameSeats
  <2> QED
    BY <1>1, <1>2, <1>4, <2>1, StaysSound
<1>6. Usage' /\ pc' \in [Contexts -> Points] /\ \A d \in Contexts : Sound(d)'
  BY <1>1, <1>2, <1>4, <1>5, MovesOnly
<1>7. Fibers' /\ Round'
  BY <1>1, <1>3, <1>6 DEF Leasing, Fibers, Round
<1> QED
  BY <1>6, <1>7 DEF Leasing

\* The failed coder's slot goes back before the next coder is asked for.
LEMMA HandOverKeeps ==
  ASSUME Leasing, NEW c \in Contexts, HandOver(c)
  PROVE  Leasing'
<1>1. /\ pc[c] = "handing" /\ Free(SeatsOf(c)) /\ Goto(c, "asking")
      /\ want' = [want EXCEPT ![c] = "coder"] /\ because' = [because EXCEPT ![c] = "none"]
      /\ UNCHANGED <<excl, tried, handovers, due, timed, callsLeft, changesLeft>>
  BY DEF HandOver, At, moves, bounds
<1>2. pc'[c] = "asking" /\ "asking" \in Points
  BY <1>1 DEF Goto, Leasing, Fibers, Points
<1>3. SeatsOf(c)' \subseteq SeatsOf(c)
  BY <1>1, FreedSeats
<1>4. Sound(c)'
  BY <1>1, <1>2, <1>3, StaysSound
<1>5. /\ want' \in [Contexts -> Roles]
      /\ because' \in [Contexts -> {"none", "nobody", "held", "out"}]
      /\ \A d \in Contexts \ {c} : want'[d] = want[d] /\ because'[d] = because[d]
  BY <1>1 DEF Leasing, Fibers, Roles
<1>6. /\ Usage' /\ pc' \in [Contexts -> Points] /\ \A d \in Contexts : Sound(d)'
      /\ waiting' \subseteq Contexts
  BY <1>1, <1>2, <1>4, <1>5, MovesAndFrees
<1>7. Fibers' /\ Round'
  BY <1>1, <1>5, <1>6 DEF Leasing, Fibers, Round
<1> QED
  BY <1>6, <1>7 DEF Leasing

-----------------------------------------------------------------------------
(* The rest of the run.                                                    *)

\* Steps that change the round and leave every lease where it is.
LEMMA RoundOnly ==
  ASSUME Leasing, Round', due' \in [Contexts -> SUBSET Executors],
         UNCHANGED <<usage, pc, want, because, tried, handovers, callsLeft>>
  PROVE  Leasing'
<1>1. UNCHANGED <<busy, busyCoders, clones, turn, seats>>
  BY DEF usage
<1>2. Usage'
  BY <1>1 DEF Leasing, Usage, SlotAccounting, ClonesDistinct
<1>3. ASSUME NEW d \in Contexts
      PROVE  Sound(d)'
  <2>1. SeatsOf(d)' = SeatsOf(d)
    BY SameSeats
  <2> QED
    BY <2>1, OthersKeep DEF Leasing
<1>4. Fibers'
  BY DEF Leasing, Fibers
<1> QED
  BY <1>2, <1>3, <1>4 DEF Leasing

\* An exclusion of the kinds the roster sets itself, or none.
LEMMA SetTyped ==
  ASSUME Leasing, NEW e, NEW x \in Exclusion, excl' = [excl EXCEPT ![e] = x]
  PROVE  excl' \in [Executors -> Exclusion]
BY DEF Leasing, Round

\* A probe answers.
LEMMA AnswerKeeps ==
  ASSUME Leasing, NEW c \in Contexts, NEW e \in Executors, Answer(c, e)
  PROVE  Leasing'
<1>1. /\ due' = [due EXCEPT ![c] = @ \ {e}] /\ pc[c] = "probing"
      /\ UNCHANGED <<usage, want, because, tried, handovers, waiting, timed, callsLeft, changesLeft>>
      /\ pc' = pc \/ Goto(c, "recovered")
  BY DEF Answer, At, moves, wakes, bounds
<1>2. \E x \in Exclusion : excl' = [excl EXCEPT ![e] = x]
  <2>1. /\ InRound \in Exclusion /\ [kind |-> "health", due |-> FALSE] \in Exclusion
        /\ [kind |-> "until", due |-> FALSE] \in Exclusion
    BY DEF InRound, Exclusion
  <2> QED
    BY <2>1 DEF Answer
<1>3. excl' \in [Executors -> Exclusion]
  BY <1>2, SetTyped
<1>4. due' \in [Contexts -> SUBSET Executors] /\ Round'
  BY <1>1, <1>3 DEF Leasing, Fibers, Round
<1>5. CASE pc' = pc
  BY <1>1, <1>4, <1>5, RoundOnly
<1>6. CASE Goto(c, "recovered")
  <2>1. pc'[c] = "recovered" /\ "recovered" \in Points
    BY <1>6 DEF Goto, Leasing, Fibers, Points
  <2>2. want'[c] = want[c] /\ tried'[c] = tried[c] /\ SeatsOf(c)' \subseteq SeatsOf(c)
    BY <1>1, SameSeats
  <2>3. Sound(c)'
    BY <1>1, <2>1, <2>2, StaysSound
  <2>4. Usage' /\ pc' \in [Contexts -> Points] /\ \A d \in Contexts : Sound(d)'
    BY <1>1, <1>6, <2>1, <2>3, MovesOnly
  <2> QED
    BY <1>1, <1>4, <2>4 DEF Leasing, Fibers
<1> QED
  BY <1>1, <1>5, <1>6

\* What an operator does.
Acts ==
    \E o \in Operators : Told(o) \/ \E e \in Executors : Pause(o, e) \/ Resume(o, e)

\* The operator and the clock.
LEMMA RoundSteps ==
  ASSUME Leasing, Acts \/ (\E e \in Executors : ComesDue(e)) \/ Expire
  PROVE  Leasing'
<1>1. /\ UNCHANGED <<usage, pc, want, because, tried, handovers, due, timed, callsLeft>>
      /\ waiting' = waiting \/ waiting' = {}
  BY DEF Acts, Pause, Resume, Told, ComesDue, Expire, Signal, moves, wakes, bounds
<1>2. changesLeft' \in Nat
  BY DEF Acts, Pause, Resume, Told, ComesDue, Expire, OneChange, bounds, Leasing, Round
<1>3. excl' \in [Executors -> Exclusion]
  <2>1. CASE \E o \in Operators, e \in Executors : Pause(o, e)
    BY <2>1, OutTyped DEF Pause
  <2>2. CASE \E o \in Operators, e \in Executors : Resume(o, e)
    <3>1. InRound \in Exclusion
      BY DEF InRound, Exclusion
    <3> QED
      BY <2>2, <3>1, SetTyped DEF Resume
  <2>3. ASSUME NEW e \in Executors, ComesDue(e)
        PROVE  excl' \in [Executors -> Exclusion]
    <3>1. excl[e] \in Exclusion
      BY DEF Leasing, Round
    <3>2. [excl[e] EXCEPT !.due = TRUE] \in Exclusion
      BY <3>1 DEF Exclusion
    <3>3. excl' = [excl EXCEPT ![e] = [excl[e] EXCEPT !.due = TRUE]]
      BY <2>3 DEF ComesDue
    <3> QED
      BY <3>2, <3>3, SetTyped
  <2>4. CASE Expire
    BY <2>4, ExpireTyped DEF Expire, Leasing, Round
  <2>5. CASE \E o \in Operators : Told(o)
    BY <2>5 DEF Told, Leasing, Round
  <2> QED
    BY <2>1, <2>2, <2>3, <2>4, <2>5 DEF Acts
<1>4. Round' /\ due' \in [Contexts -> SUBSET Executors]
  BY <1>1, <1>2, <1>3 DEF Leasing, Fibers, Round
<1> QED
  BY <1>1, <1>4, RoundOnly

-----------------------------------------------------------------------------
(* The theorems.                                                           *)

\* It holds before anything is leased.
LEMMA LeasingAtFirst ==
  ASSUME Init
  PROVE  Leasing
<1>1. seats = {} /\ IsFiniteSet(seats)
  BY FS_EmptySet DEF Init
<1>2. \A e : On(seats, e) = {} /\ Coding(On(seats, e)) = {}
  BY <1>1 DEF On, Coding
<1>3. SlotAccounting
  <2>1. ASSUME NEW e \in Executors
        PROVE  Cardinality(On(seats, e)) = 0 /\ Cardinality(Coding(On(seats, e))) = 0
    BY <1>2, FS_EmptySet
  <2>2. ASSUME NEW e \in Executors
        PROVE  0 <= Slots[e] /\ 0 <= CoderSlots[e]
    BY SlotsAssumption
  <2> QED
    BY <2>1, <2>2 DEF Init, SlotAccounting
<1>4. ClonesDistinct
  BY <1>2 DEF Init, ClonesDistinct
<1>5. turn \in [Executors -> Nat]
  <2>1. \A n : n \in 1..Cardinality(Executors) => n \in Nat
    BY ExecutorsAssumption, FS_CardinalityType
  <2> QED
    BY <2>1 DEF Init
<1>6. Usage
  BY <1>1, <1>3, <1>4, <1>5 DEF Usage, Init
<1>7. Fibers
  <2>1. <<>> \in Seq(Executors)
    BY EmptySeq
  <2> QED
    BY <2>1, SpecsAssumption DEF Fibers, Init, Points, Roles
<1>8. Round
  <2>1. InRound \in Exclusion
    BY DEF InRound, Exclusion
  <2> QED
    BY <2>1, SpecsAssumption DEF Round, Init
<1>9. ASSUME NEW d \in Contexts
      PROVE  Sound(d)
  <2>1. /\ pc[d] = "idle" /\ tried[d] = <<>> /\ Len(tried[d]) = 0
        /\ CallSeats(d) = {}
    BY EmptySeq DEF Init, CallSeats, SeatsOf
  <2> QED
    BY <2>1 DEF Sound, Moves, OneCall, Owns, Independent, Served
<1> QED
  BY <1>6, <1>7, <1>8, <1>9 DEF Leasing

\* A step that changes nothing keeps it.
LEMMA IdleKeeps ==
  ASSUME Leasing, UNCHANGED vars
  PROVE  Leasing'
<1>1. /\ UNCHANGED <<usage, pc, want, because, tried, handovers, callsLeft>>
      /\ UNCHANGED <<excl, due, waiting, timed, changesLeft>>
  BY DEF vars, usage
<1>2. Round' /\ due' \in [Contexts -> SUBSET Executors]
  BY <1>1 DEF Leasing, Round, Fibers
<1> QED
  BY <1>1, <1>2, RoundOnly

\* Every step keeps it.
LEMMA LeasingNext ==
  ASSUME Leasing, [Next]_vars
  PROVE  Leasing'
<1>1. ASSUME NEW c \in Contexts, Step(c)
      PROVE  Leasing'
  <2>1. CASE Ask(c) \/ Call(c)
    BY <2>1, AskKeeps
  <2>2. CASE TryLease(c)
    BY <2>2, TryLeaseKeeps
  <2>3. CASE FirstAttempt(c)
    BY <2>3, FirstAttemptKeeps
  <2>4. CASE Check(c)
    BY <2>4, CheckKeeps
  <2>5. CASE TakeOwn(c)
    BY <2>5, TakeOwnKeeps
  <2>6. CASE StartProbes(c) \/ Recovered(c) \/ Saved(c) \/ Wake(c)
    BY <2>6, WaitKeeps
  <2>7. CASE \E e \in Executors : Answer(c, e)
    BY <2>7, AnswerKeeps
  <2>8. CASE Retry(c)
    BY <2>8, RetryKeeps
  <2>9. CASE Leased(c)
    BY <2>9, LeasedKeeps
  <2>10. CASE EndCall(c)
    BY <2>10, EndCallKeeps
  <2>11. CASE EndStory(c)
    BY <2>11, EndsKeep
  <2>12. CASE Report(c)
    BY <2>12, ReportKeeps
  <2>13. CASE Move(c)
    BY <2>13, MoveKeeps
  <2>14. CASE CoderReported(c)
    BY <2>14, CoderReportedKeeps
  <2>15. CASE HandOver(c)
    BY <2>15, HandOverKeeps
  <2> QED
    BY <1>1, <2>1, <2>2, <2>3, <2>4, <2>5, <2>6, <2>7, <2>8, <2>9, <2>10, <2>11, <2>12,
       <2>13, <2>14, <2>15 DEF Step
<1>2. ASSUME NEW c \in Contexts, FailCall(c) \/ FailCoder(c) \/ Interrupt(c)
      PROVE  Leasing'
  BY <1>2, FailCallKeeps, ReportKeeps, EndsKeep
<1>3. CASE Acts \/ (\E e \in Executors : ComesDue(e)) \/ Expire
  BY <1>3, RoundSteps
<1>4. CASE UNCHANGED vars
  BY <1>4, IdleKeeps
<1> QED
  BY <1>1, <1>2, <1>3, <1>4 DEF Next, Acts

\* The inductive invariant holds of every behaviour.
THEOREM AlwaysLeasing == Spec => []Leasing
<1>1. Init => Leasing
  BY LeasingAtFirst
<1>2. Leasing /\ [Next]_vars => Leasing'
  BY LeasingNext
<1> QED
  BY <1>1, <1>2, PTL DEF Spec

\* A context tells nobody of an operator's call, and neither does the clock.
LEMMA OnlyOperatorsTell ==
  ASSUME \/ \E c \in Contexts : Step(c) \/ FailCall(c) \/ FailCoder(c) \/ Interrupt(c)
         \/ (\E e \in Executors : ComesDue(e)) \/ Expire \/ UNCHANGED vars
  PROVE  telling' = telling /\ BeingTold' = BeingTold
<1>1. ASSUME NEW c \in Contexts, Step(c)
      PROVE  telling' = telling
  <2>1. CASE Ask(c) \/ TryLease(c) \/ Call(c) \/ Check(c) \/ StartProbes(c) \/ Leased(c)
    BY <2>1 DEF Ask, TryLease, Call, Check, Decide, StartProbes, Leased, Attempt, wakes
  <2>2. CASE FirstAttempt(c) \/ TakeOwn(c)
    BY <2>2 DEF FirstAttempt, TakeOwn, Decide, Attempt, wakes
  <2>3. CASE Recovered(c) \/ Saved(c) \/ Wake(c) \/ \E e \in Executors : Answer(c, e)
    BY <2>3 DEF Recovered, Saved, Arm, Wake, Answer, wakes
  <2>4. CASE Retry(c)
    BY <2>4 DEF Retry, Attempt, Arm, wakes
  <2>5. CASE EndCall(c) \/ EndStory(c) \/ Report(c) \/ Move(c) \/ CoderReported(c) \/ HandOver(c)
    BY <2>5 DEF EndCall, EndStory, Report, Move, CoderReported, HandOver, wakes
  <2> QED
    BY <1>1, <2>1, <2>2, <2>3, <2>4, <2>5 DEF Step
<1>2. ASSUME NEW c \in Contexts, FailCall(c) \/ FailCoder(c) \/ Interrupt(c)
      PROVE  telling' = telling
  BY <1>2 DEF FailCall, FailCoder, Interrupt, wakes
<1>3. ASSUME (\E e \in Executors : ComesDue(e)) \/ Expire \/ UNCHANGED vars
      PROVE  telling' = telling
  BY <1>3 DEF ComesDue, Expire, wakes, vars
<1>4. telling' = telling
  BY <1>1, <1>2, <1>3
<1> QED
  BY <1>4 DEF BeingTold

\* An operator tells of executors only.
Telltale == telling \in [Operators -> SUBSET Executors]

\* It does so from the start, and at every step.
LEMMA OperatorsTell ==
  ASSUME Telltale, [Next]_vars
  PROVE  Telltale'
<1>1. CASE Acts
  BY <1>1 DEF Acts, Pause, Resume, Told, Telling, Telltale
<1>2. CASE ~Acts
  <2>1. telling' = telling
    BY <1>2, OnlyOperatorsTell DEF Next, Acts
  <2> QED
    BY <2>1 DEF Telltale
<1> QED
  BY <1>1, <1>2

\* In every behaviour, operators tell of executors only.
LEMMA AlwaysTelltale == Spec => []Telltale
<1>1. Init => Telltale
  BY DEF Init, Telltale
<1>2. Telltale /\ [Next]_vars => Telltale'
  BY OperatorsTell
<1> QED
  BY <1>1, <1>2, PTL DEF Spec

\* Every variable keeps its type, the failures a call remembers among them.
THEOREM TypeCorrect == Spec => []TypeOK
<1>1. Leasing /\ Telltale => TypeOK
  BY DEF Leasing, Usage, Fibers, Round, Exclusion, Sound, Moves, Telltale, TypeOK
<1> QED
  BY <1>1, AlwaysLeasing, AlwaysTelltale, PTL

\* The counters of an executor are the slots really taken, and no executor
\* serves more contexts, or more coders, than it has slots for.
THEOREM SlotsCounted == Spec => []SlotAccounting
<1>1. Leasing => SlotAccounting
  BY DEF Leasing, Usage
<1> QED
  BY <1>1, AlwaysLeasing, PTL

\* Two leases of one executor are never the same clone, a clone in use is
\* some lease's, and clone numbers stay within the executor's slots.
THEOREM ClonesApart == Spec => []ClonesDistinct
<1>1. Leasing => ClonesDistinct
  BY DEF Leasing, Usage
<1> QED
  BY <1>1, AlwaysLeasing, PTL

\* A reasoning call is independent of the context's coder unless the lease
\* said why not, and a call without a slot rides on a coder its context holds.
THEOREM CallsIndependent == Spec => []Independence
<1>1. Leasing => Independence
  BY DEF Leasing, Sound, Independent, Independence
<1> QED
  BY <1>1, AlwaysLeasing, PTL

\* A context that holds a coder able to take the role is never told that
\* nobody can.
THEOREM HoldersServed == Spec => []HolderNeverExhausted
<1>1. Leasing => HolderNeverExhausted
  BY DEF Leasing, Sound, Served, HolderNeverExhausted
<1> QED
  BY <1>1, AlwaysLeasing, PTL

-----------------------------------------------------------------------------
(* The wake-ups, of a roster whose exclusions never end by the clock: an   *)
(* expiry that is written to the state file between the attempt and the    *)
(* taking of the Deferred is how one is missed.                            *)

NoClock == Kinds \cap {"until", "health"} = {}

\* Nothing expires or is probed, and who sleeps has nobody to lease, or is about
\* to be told of it.
Calm ==
    /\ \A e \in Executors : excl[e].kind \in {"none", "run", "manual"}
    /\ \A d \in Contexts : due[d] = {} /\ pc[d] \notin {"saving", "recovered"}
    /\ \A d \in waiting : pc[d] = "asleep" => Candidates(want[d], Avoid(d)) \subseteq BeingTold

\* Nothing expires, so an attempt changes no exclusion.
LEMMA NothingExpires ==
  ASSUME excl \in [Executors -> Exclusion],
         \A e \in Executors : excl[e].kind \in {"none", "run", "manual"}
  PROVE  Expired = {} /\ AfterExpire = excl
<1>1. Expired = {}
  BY DEF Expired
<1> QED
  BY <1>1 DEF AfterExpire

\* Slots that stay taken keep their executors as busy as they were.
LEMMA BusyStays ==
  ASSUME Usage, Usage', seats \subseteq seats', NEW e \in Executors, NEW r
  PROVE  FreeFor(e, r)' => FreeFor(e, r)
<1>1. On(seats, e) \in SUBSET On(seats', e) /\ Coding(On(seats, e)) \in SUBSET Coding(On(seats', e))
  BY DEF On, Coding
<1>2. IsFiniteSet(On(seats', e)) /\ IsFiniteSet(Coding(On(seats', e)))
  BY OnFinite DEF Usage
<1>3. /\ Cardinality(On(seats, e)) <= Cardinality(On(seats', e))
      /\ Cardinality(Coding(On(seats, e))) <= Cardinality(Coding(On(seats', e)))
  BY <1>1, <1>2, FS_Subset
<1>4. busy[e] <= busy'[e] /\ busyCoders[e] <= busyCoders'[e]
  BY <1>3 DEF Usage, SlotAccounting
<1>5. /\ busy[e] \in Nat /\ busy'[e] \in Nat /\ busyCoders[e] \in Nat /\ busyCoders'[e] \in Nat
      /\ Slots[e] \in Nat /\ CoderSlots[e] \in Nat
  BY SlotsAssumption DEF Usage
<1>6. busy'[e] < Slots[e] => busy[e] < Slots[e]
  BY <1>4, <1>5
<1>7. busyCoders'[e] < CoderSlots[e] => busyCoders[e] < CoderSlots[e]
  BY <1>4, <1>5
<1> QED
  BY <1>6, <1>7 DEF FreeFor

\* What a step of one context leaves alone: the others, and, unless it wakes
\* everyone, the slots that are taken and the executors that are out.
Rest(c) ==
    /\ \A d \in Contexts \ {c} :
          pc'[d] = pc[d] /\ want'[d] = want[d] /\ tried'[d] = tried[d] /\ SeatsOf(d)' = SeatsOf(d)
    /\ \/ waiting' = {}
       \/ /\ waiting' \subseteq waiting \cup {c} /\ seats \subseteq seats'
          /\ \A e \in Executors : excl'[e].kind = "none" => excl[e].kind = "none"

\* Who sleeps on while no slot comes free could lease nobody more, but who came back.
LEMMA SleepsOn ==
  ASSUME Leasing, Leasing', Calm, NEW d \in Contexts, NEW back,
         want'[d] = want[d], tried'[d] = tried[d], SeatsOf(d)' = SeatsOf(d),
         seats \subseteq seats',
         \A e \in Executors : excl'[e].kind \in {"none", "run", "manual"},
         \A e \in Executors : excl'[e].kind = "none" => excl[e].kind = "none" \/ e \in back
  PROVE  Candidates(want[d], Avoid(d))' \subseteq Candidates(want[d], Avoid(d)) \cup back
<1>1. Avoid(d)' = Avoid(d)
  BY DEF Avoid, Own, Tried
<1>2. AfterExpire = excl /\ (AfterExpire)' = excl'
  <2>1. excl \in [Executors -> Exclusion] /\ excl' \in [Executors -> Exclusion]
    BY DEF Leasing, Round
  <2>2. \A e \in Executors : e \notin Expired /\ e \notin Expired'
    BY DEF Calm, Expired
  <2> QED
    BY <2>1, <2>2 DEF AfterExpire
<1>3. \A e \in Executors : FreeFor(e, want[d])' => FreeFor(e, want[d])
  BY BusyStays DEF Leasing
<1> QED
  BY <1>1, <1>2, <1>3 DEF Candidates, Eligible

\* A step of one context that puts nobody to sleep beside a free slot.
LEMMA CalmStep ==
  ASSUME Leasing, Leasing', Calm, NEW c \in Contexts, Rest(c),
         \A e \in Executors : excl'[e].kind \in {"none", "run", "manual"},
         due'[c] = {}, \A d \in Contexts \ {c} : due'[d] = due[d],
         pc'[c] \notin {"saving", "recovered"}, BeingTold' = BeingTold,
         c \in waiting' /\ pc'[c] = "asleep" => Candidates(want[c], Avoid(c))' \subseteq BeingTold
  PROVE  Calm'
<1>1. ASSUME NEW d \in Contexts
      PROVE  due'[d] = {} /\ pc'[d] \notin {"saving", "recovered"}
  BY DEF Calm, Rest
<1>2. ASSUME NEW d \in waiting', pc'[d] = "asleep"
      PROVE  Candidates(want[d], Avoid(d))' \subseteq BeingTold
  <2>1. d \in Contexts
    BY DEF Leasing, Round
  <2>2. CASE d # c
    <3>1. /\ pc'[d] = pc[d] /\ want'[d] = want[d] /\ tried'[d] = tried[d]
          /\ SeatsOf(d)' = SeatsOf(d)
          /\ d \in waiting /\ seats \subseteq seats'
          /\ \A e \in Executors : excl'[e].kind = "none" => excl[e].kind = "none"
      BY <2>1, <2>2 DEF Rest
    <3>2. Candidates(want[d], Avoid(d)) \subseteq BeingTold
      BY <3>1, <1>2 DEF Calm
    <3>3. Candidates(want[d], Avoid(d))' \subseteq Candidates(want[d], Avoid(d)) \cup {}
      BY <2>1, <3>1, SleepsOn DEF Calm
    <3> QED
      BY <3>2, <3>3
  <2> QED
    BY <1>2, <2>2
<1> QED
  BY <1>1, <1>2 DEF Calm

\* A context that moves on moves alone.
LEMMA Alone ==
  ASSUME Leasing, NEW c \in Contexts, NEW point, Goto(c, point)
  PROVE  pc'[c] = point /\ \A d \in Contexts \ {c} : pc'[d] = pc[d]
BY DEF Goto, Leasing, Fibers

\* Steps that neither take a slot nor free one.
LEMMA CalmMoves ==
  ASSUME Leasing, Leasing', Calm, BeingTold' = BeingTold, NEW c \in Contexts,
         Ask(c) \/ Call(c) \/ Check(c) \/ StartProbes(c) \/ Wake(c) \/ Leased(c)
  PROVE  Calm'
<1>1. UNCHANGED <<usage, excl, tried>> /\ waiting' \subseteq waiting
  BY DEF Ask, Call, Check, Decide, StartProbes, Wake, Leased, moves, wakes
<1>2. PICK point : Goto(c, point) /\ point \notin {"saving", "recovered", "asleep"}
  <2>1. CASE Check(c)
    <3>1. Goto(c, "owning") \/ Goto(c, "exhausted") \/ Goto(c, "announced")
      BY <2>1 DEF Check, Decide
    <3> QED
      BY <3>1
  <2>2. CASE Leased(c)
    <3>1. Goto(c, "held") \/ Goto(c, "calling")
      BY <2>2 DEF Leased
    <3> QED
      BY <3>1
  <2>3. CASE Ask(c) \/ Call(c) \/ StartProbes(c) \/ Wake(c)
    BY <2>3 DEF Ask, Call, StartProbes, Wake
  <2> QED
    BY <2>1, <2>2, <2>3
<1>3. \A d \in Contexts \ {c} : want'[d] = want[d]
  BY DEF Ask, Call, Check, Decide, StartProbes, Wake, Leased, Leasing, Fibers
<1>4. due'[c] = {} /\ \A d \in Contexts \ {c} : due'[d] = due[d]
  <2>1. CASE StartProbes(c)
    <3>1. {e \in Executors : excl[e].kind = "health" /\ excl[e].due} = {}
      BY DEF Calm
    <3> QED
      BY <2>1, <3>1 DEF StartProbes, Leasing, Fibers
  <2>2. CASE ~StartProbes(c)
    <3>1. due' = due
      BY <2>2 DEF Ask, Call, Check, Wake, Leased
    <3> QED
      BY <3>1 DEF Calm
  <2> QED
    BY <2>1, <2>2
<1>5. Rest(c)
  <2>1. \A d \in Contexts \ {c} :
           pc'[d] = pc[d] /\ tried'[d] = tried[d] /\ SeatsOf(d)' = SeatsOf(d)
    BY <1>1, <1>2, Alone, SameSeats
  <2>2. seats' = seats /\ excl' = excl
    BY <1>1 DEF usage
  <2> QED
    BY <1>1, <1>3, <2>1, <2>2 DEF Rest
<1>6. /\ pc'[c] \notin {"saving", "recovered", "asleep"}
      /\ \A e \in Executors : excl'[e].kind \in {"none", "run", "manual"}
  BY <1>1, <1>2, Alone DEF Calm
<1> QED
  BY <1>4, <1>5, <1>6, CalmStep

\* A slot that is taken makes nobody freer.
LEMMA CalmTakes ==
  ASSUME Leasing, Leasing', Calm, BeingTold' = BeingTold, NEW c \in Contexts,
         NEW e, Take(c, e), Goto(c, "taken"),
         UNCHANGED <<excl, want, tried, due, waiting>>
  PROVE  Calm'
<1>1. seats \subseteq seats' /\ \A d \in Contexts \ {c} : SeatsOf(d)' = SeatsOf(d)
  BY TakenSeat DEF Take
<1>2. pc'[c] = "taken" /\ \A d \in Contexts \ {c} : pc'[d] = pc[d]
  BY Alone
<1>3. Rest(c)
  BY <1>1, <1>2 DEF Rest
<1> QED
  BY <1>2, <1>3, CalmStep DEF Calm

\* An attempt takes a slot, or the context goes on.
LEMMA CalmAttempts ==
  ASSUME Leasing, Leasing', Calm, BeingTold' = BeingTold, NEW c \in Contexts,
         TryLease(c) \/ FirstAttempt(c) \/ TakeOwn(c)
  PROVE  Calm'
<1>1. Expired = {} /\ AfterExpire = excl
  BY NothingExpires DEF Leasing, Round, Calm
<1>2. UNCHANGED <<excl, want, tried, due, waiting>>
  BY <1>1 DEF TryLease, FirstAttempt, TakeOwn, Attempt, Decide, moves, wakes
<1>3. CASE \E e : Take(c, e) /\ Goto(c, "taken")
  BY <1>2, <1>3, CalmTakes
<1>4. ASSUME NEW point, Goto(c, point), point \notin {"saving", "recovered", "asleep"}, UNCHANGED usage
      PROVE  Calm'
  <2>1. pc'[c] = point /\ \A d \in Contexts \ {c} : pc'[d] = pc[d]
    BY <1>4, Alone
  <2>2. seats' = seats /\ \A d : SeatsOf(d)' = SeatsOf(d)
    BY <1>4, SameSeats DEF usage
  <2>3. Rest(c)
    BY <1>2, <2>1, <2>2 DEF Rest
  <2> QED
    BY <1>2, <1>4, <2>1, <2>3, CalmStep DEF Calm
<1>5. \/ \E e : Take(c, e) /\ Goto(c, "taken")
      \/ /\ UNCHANGED usage
         /\ \/ Goto(c, "ended") \/ Goto(c, "calling")
            \/ Goto(c, "owning") \/ Goto(c, "exhausted") \/ Goto(c, "announced")
  <2>1. CASE TryLease(c)
    BY <2>1 DEF TryLease, Attempt
  <2>2. CASE FirstAttempt(c)
    BY <1>1, <2>2 DEF FirstAttempt, Attempt, Decide
  <2>3. CASE TakeOwn(c)
    BY <2>3 DEF TakeOwn
  <2> QED
    BY <2>1, <2>2, <2>3
<1> QED
  BY <1>3, <1>4, <1>5

\* The second attempt goes to sleep only where nobody could be leased.
LEMMA CalmRetries ==
  ASSUME Leasing, Leasing', Calm, BeingTold' = BeingTold, NEW c \in Contexts, Retry(c)
  PROVE  Calm'
<1>1. Expired = {} /\ AfterExpire = excl
  BY NothingExpires DEF Leasing, Round, Calm
<1>2. UNCHANGED <<excl, want, tried, due>>
  BY <1>1 DEF Retry, Attempt, moves
<1>3. CASE \E e : Take(c, e) /\ Goto(c, "taken") /\ UNCHANGED wakes
  BY <1>2, <1>3, CalmTakes DEF wakes
<1>4. CASE Candidates(want[c], Avoid(c)) = {} /\ Arm(c) /\ Goto(c, "asleep") /\ UNCHANGED usage
  <2>1. pc'[c] = "asleep" /\ \A d \in Contexts \ {c} : pc'[d] = pc[d]
    BY <1>4, Alone
  <2>2. seats' = seats /\ \A d : SeatsOf(d)' = SeatsOf(d)
    BY <1>4, SameSeats DEF usage
  <2>3. Candidates(want[c], Avoid(c))' \subseteq Candidates(want[c], Avoid(c)) \cup {}
    BY <1>2, <2>2, SleepsOn DEF Calm
  <2>4. Rest(c)
    BY <1>2, <1>4, <2>1, <2>2 DEF Rest, Arm
  <2> QED
    BY <1>2, <1>4, <2>1, <2>3, <2>4, CalmStep DEF Calm
<1> QED
  BY <1>1, <1>3, <1>4 DEF Retry, Attempt

\* A scope that closes wakes everyone, or frees nothing.
LEMMA CalmFrees ==
  ASSUME Leasing, Leasing', Calm, BeingTold' = BeingTold, NEW c \in Contexts,
         EndCall(c) \/ EndStory(c) \/ HandOver(c) \/ FailCall(c) \/ Interrupt(c)
  PROVE  Calm'
<1>1. PICK gone \in SUBSET SeatsOf(c) : Free(gone)
  <2>1. CallSeats(c) \in SUBSET SeatsOf(c)
    BY DEF CallSeats
  <2> QED
    BY <2>1 DEF EndCall, EndStory, HandOver, FailCall, Interrupt
<1>2. \/ waiting' = {}
      \/ waiting' = waiting /\ seats' = seats
  BY <1>1 DEF Free, Signal
<1>3. excl' = excl /\ due'[c] = {} /\ \A d \in Contexts \ {c} : due'[d] = due[d]
  BY DEF EndCall, EndStory, HandOver, FailCall, Interrupt, Calm, Leasing, Fibers
<1>4. \A d \in Contexts \ {c} : want'[d] = want[d] /\ tried'[d] = tried[d]
  BY DEF EndCall, EndStory, HandOver, FailCall, Interrupt, Done, moves, Leasing, Fibers
<1>5. PICK point : Goto(c, point) /\ point \notin {"saving", "recovered", "asleep"}
  <2>1. \/ Goto(c, "ended") \/ Goto(c, "held") \/ Goto(c, "asking")
        \/ Goto(c, "failing") \/ Goto(c, "interrupted")
    BY DEF EndCall, EndStory, HandOver, FailCall, Interrupt, Done
  <2> QED
    BY <2>1
<1>6. pc'[c] = point /\ \A d \in Contexts \ {c} : pc'[d] = pc[d]
  BY <1>5, Alone
<1>7. \A d \in Contexts \ {c} : SeatsOf(d)' = SeatsOf(d)
  BY <1>1, FreedSeats
<1>8. Rest(c)
  BY <1>2, <1>3, <1>4, <1>6, <1>7 DEF Rest
<1> QED
  BY <1>3, <1>5, <1>6, <1>8, CalmStep DEF Calm

\* An executor that goes out of the round makes nobody freer; the report of it
\* wakes everyone.
LEMMA CalmReports ==
  ASSUME NoClock, Leasing, Leasing', Calm, BeingTold' = BeingTold, NEW c \in Contexts,
         Report(c) \/ FailCoder(c) \/ Move(c) \/ CoderReported(c)
  PROVE  Calm'
<1>1. UNCHANGED <<usage, want, due>> /\ \A d \in Contexts \ {c} : tried'[d] = tried[d]
  BY DEF Report, FailCoder, Move, CoderReported, Done, moves, Leasing, Fibers
<1>2. PICK point : Goto(c, point) /\ point \notin {"saving", "recovered", "asleep"}
  <2>1. \/ Goto(c, "reported") \/ Goto(c, "coderFailed") \/ Goto(c, "asking")
        \/ Goto(c, "ended") \/ Goto(c, "held") \/ Goto(c, "handing")
    BY DEF Report, FailCoder, Move, CoderReported, Done
  <2> QED
    BY <2>1
<1>3. pc'[c] = point /\ \A d \in Contexts \ {c} : pc'[d] = pc[d]
  BY <1>2, Alone
<1>4. seats' = seats /\ \A d : SeatsOf(d)' = SeatsOf(d)
  BY <1>1, SameSeats DEF usage
<1>5. /\ \A e \in Executors : excl'[e].kind \in {"none", "run", "manual"}
      /\ \/ waiting' = {}
         \/ /\ waiting' = waiting
            /\ \A e \in Executors : excl'[e].kind = "none" => excl[e].kind = "none"
  <2>1. CASE Report(c) \/ FailCoder(c)
    <3>1. PICK kind \in ReportedKinds : \E e : Out(e, kind)
      BY <2>1 DEF Report, FailCoder
    <3>2. kind \in {"run", "manual"}
      BY SpecsAssumption DEF NoClock, ReportedKinds
    <3>3. \A f \in Executors : excl'[f] = excl[f] \/ excl'[f].kind = kind
      BY <3>1 DEF Out, Leasing, Round
    <3>4. waiting' = waiting
      BY <2>1 DEF Report, FailCoder, wakes
    <3> QED
      BY <3>2, <3>3, <3>4 DEF Calm
  <2>2. CASE Move(c) \/ CoderReported(c)
    BY <2>2 DEF Move, CoderReported, Signal, Calm
  <2> QED
    BY <2>1, <2>2
<1>6. Rest(c)
  BY <1>1, <1>3, <1>4, <1>5 DEF Rest
<1> QED
  BY <1>1, <1>2, <1>3, <1>5, <1>6, CalmStep DEF Calm

\* An operator's call ends by waking everyone.  Until then it frees only the
\* executor it is about to tell of; nothing comes due and nothing expires.
LEMMA CalmRound ==
  ASSUME NoClock, Leasing, Leasing', Calm, Telltale,
         Acts \/ (\E e \in Executors : ComesDue(e)) \/ Expire
  PROVE  Calm'
<1>1. Expired = {}
  BY NothingExpires DEF Leasing, Round, Calm
<1>2. Acts
  BY <1>1 DEF ComesDue, Expire, Calm
<1>3. CASE \E o \in Operators : Told(o)
  BY <1>3 DEF Told, Signal, Calm
<1>4. CASE \E o \in Operators, e \in Executors : Pause(o, e) \/ Resume(o, e)
  <2>1. PICK o \in Operators, e \in Executors : Pause(o, e) \/ Resume(o, e)
    BY <1>4
  <2>2. UNCHANGED <<usage, pc, want, tried, due, waiting>>
    BY <2>1 DEF Pause, Resume, moves
  <2>3. \A d : SeatsOf(d)' = SeatsOf(d)
    BY <2>2, SameSeats
  <2>4. \A f \in Executors : excl'[f] = excl[f] \/ excl'[f].kind = "manual"
                             \/ (f = e /\ excl'[f].kind = "none")
    BY <2>1 DEF Pause, Resume, Out, InRound, Leasing, Round
  <2>5. \A f \in Executors : excl'[f].kind \in {"none", "run", "manual"}
    BY <2>4 DEF Calm
  <2>6. telling[o] = {} /\ telling' = [telling EXCEPT ![o] = {e}]
    BY <2>1 DEF Pause, Resume, Telling
  <2>7. BeingTold \cup {e} \subseteq BeingTold'
    BY <2>6 DEF BeingTold, Telltale
  <2>8. ASSUME NEW d \in waiting', pc'[d] = "asleep"
        PROVE  Candidates(want[d], Avoid(d))' \subseteq BeingTold'
    <3>1. d \in Contexts /\ Candidates(want[d], Avoid(d)) \subseteq BeingTold
      BY <2>2, <2>8 DEF Calm, Leasing, Round
    <3>2. Candidates(want[d], Avoid(d))' \subseteq Candidates(want[d], Avoid(d)) \cup {e}
      <4>1. /\ want'[d] = want[d] /\ tried'[d] = tried[d] /\ SeatsOf(d)' = SeatsOf(d)
            /\ seats \subseteq seats'
        BY <2>2, <2>3 DEF usage
      <4>2. \A f \in Executors : excl'[f].kind = "none" => excl[f].kind = "none" \/ f \in {e}
        BY <2>4
      <4> QED
        BY <2>5, <3>1, <4>1, <4>2, SleepsOn
    <3> QED
      BY <2>7, <3>1, <3>2
  <2> QED
    BY <2>2, <2>5, <2>8 DEF Calm
<1> QED
  BY <1>2, <1>3, <1>4 DEF Acts

\* Every step keeps it.
LEMMA CalmNext ==
  ASSUME NoClock, Leasing, Leasing', Calm, Telltale, [Next]_vars
  PROVE  Calm'
<1>1. ASSUME NEW c \in Contexts, Step(c)
      PROVE  Calm'
  <2>0. BeingTold' = BeingTold
    BY <1>1, OnlyOperatorsTell
  <2>1. CASE Ask(c) \/ Call(c) \/ Check(c) \/ StartProbes(c) \/ Wake(c) \/ Leased(c)
    BY <2>0, <2>1, CalmMoves
  <2>2. CASE TryLease(c) \/ FirstAttempt(c) \/ TakeOwn(c)
    BY <2>0, <2>2, CalmAttempts
  <2>3. CASE Retry(c)
    BY <2>0, <2>3, CalmRetries
  <2>4. ~(\E e \in Executors : Answer(c, e)) /\ ~Recovered(c) /\ ~Saved(c)
    BY DEF Answer, Recovered, Saved, At, Calm
  <2>5. CASE EndCall(c) \/ EndStory(c) \/ HandOver(c)
    BY <2>0, <2>5, CalmFrees
  <2>6. CASE Report(c) \/ Move(c) \/ CoderReported(c)
    BY <2>0, <2>6, CalmReports
  <2> QED
    BY <1>1, <2>1, <2>2, <2>3, <2>4, <2>5, <2>6 DEF Step
<1>2. ASSUME NEW c \in Contexts, FailCall(c) \/ FailCoder(c) \/ Interrupt(c)
      PROVE  Calm'
  BY <1>2, OnlyOperatorsTell, CalmFrees, CalmReports
<1>3. CASE Acts \/ (\E e \in Executors : ComesDue(e)) \/ Expire
  BY <1>3, CalmRound
<1>4. CASE UNCHANGED vars
  <2>1. UNCHANGED <<usage, seats, excl, pc, want, tried, due, waiting>>
    BY <1>4 DEF vars, usage
  <2>2. \A d : SeatsOf(d)' = SeatsOf(d)
    BY <2>1, SameSeats
  <2>3. ASSUME NEW d \in waiting', pc'[d] = "asleep"
        PROVE  Candidates(want[d], Avoid(d))' \subseteq BeingTold'
    <3>1. d \in Contexts /\ Candidates(want[d], Avoid(d)) \subseteq BeingTold
      BY <2>1, <2>3 DEF Calm, Leasing, Round
    <3>2. Candidates(want[d], Avoid(d))' \subseteq Candidates(want[d], Avoid(d)) \cup {}
      BY <2>1, <2>2, <3>1, SleepsOn DEF Calm
    <3> QED
      BY <1>4, <3>1, <3>2, OnlyOperatorsTell
  <2> QED
    BY <2>1, <2>3 DEF Calm
<1> QED
  BY <1>1, <1>2, <1>3, <1>4 DEF Next, Acts

\* In a roster no exclusion of which ends by the clock, a context that waits
\* without a timer and has not been woken waits for slots that are really taken
\* or executors that are out; the one it could have leased is one an operator
\* resumed and is about to signal.  Leases, borrowed calls, handovers, reports
\* and interruptions miss no wake-up, between any two of their awaits.
THEOREM WakesNotMissed ==
  ASSUME NoClock
  PROVE  Spec => []NoMissedWake
<1>1. Init => Calm
  BY DEF Init, InRound, Calm
<1>2. Calm /\ Leasing /\ Leasing' /\ Telltale /\ [Next]_vars => Calm'
  BY CalmNext
<1>3. Calm => NoMissedWake
  BY DEF Calm, NoMissedWake
<1> QED
  BY <1>1, <1>2, <1>3, AlwaysLeasing, AlwaysTelltale, PTL DEF Spec

=============================================================================
