----------------------- MODULE StorySchedulerProofs -----------------------
(***************************************************************************)
(* Proofs about StoryScheduler, for any plan without a cycle, any options  *)
(* and any capacity of the round.  The inductive invariant says which      *)
(* stories are under way, what is recorded of their dependencies, and how  *)
(* often a story may still have to be launched.                            *)
(***************************************************************************)
EXTENDS StoryScheduler, FiniteSetTheorems, SequenceTheorems, TLAPS

Outcomes == [story : Stories, status : {"done", "failed", "waiting"}]

\* What a sequence of outcomes says: each story once, and which stories are
\* done, failed and waiting.
Named(o) == {o[i].story : i \in 1..Len(o)}
With(o, status) == {o[i].story : i \in {k \in 1..Len(o) : o[k].status = status}}
Once(o) == \A i, j \in 1..Len(o) : o[i].story = o[j].story => i = j

Reads(o, done, failed, held) ==
    /\ o \in Seq(Outcomes) /\ Once(o)
    /\ Named(o) = done \cup failed \cup held
    /\ With(o, "done") = done /\ With(o, "failed") = failed /\ With(o, "waiting") = held

Failed == Recorded("failed")
Held == Recorded("waiting")

-----------------------------------------------------------------------------
(* Sequences of outcomes.                                                  *)

\* An entry of a sequence of outcomes is the outcome of a story.
LEMMA Entries ==
  ASSUME NEW o \in Seq(Outcomes), NEW i \in 1..Len(o)
  PROVE  /\ o[i] \in Outcomes /\ o[i].story \in Stories
         /\ o[i].status \in {"done", "failed", "waiting"}
<1>1. o[i] \in Outcomes
  BY ElementOfSeq
<1> QED
  BY <1>1 DEF Outcomes

\* The stories a sequence names are those with one of the three statuses.
LEMMA NamedWith ==
  ASSUME NEW o \in Seq(Outcomes)
  PROVE  Named(o) = With(o, "done") \cup With(o, "failed") \cup With(o, "waiting")
<1>1. ASSUME NEW s \in Named(o)
      PROVE  s \in With(o, "done") \cup With(o, "failed") \cup With(o, "waiting")
  <2>1. PICK i \in 1..Len(o) : s = o[i].story
    BY <1>1 DEF Named
  <2> QED
    BY <2>1, Entries DEF With
<1>2. ASSUME NEW status, NEW s \in With(o, status)
      PROVE  s \in Named(o)
  BY <1>2 DEF Named, With
<1> QED
  BY <1>1, <1>2

\* In a sequence that names no story twice no story has two statuses.
LEMMA OneStatus ==
  ASSUME NEW o \in Seq(Outcomes), Once(o), NEW a, NEW b, a # b
  PROVE  With(o, a) \cap With(o, b) = {}
<1> SUFFICES ASSUME NEW s, s \in With(o, a), s \in With(o, b)
             PROVE  FALSE
  OBVIOUS
<1>1. PICK i \in 1..Len(o) : o[i].story = s /\ o[i].status = a
  BY DEF With
<1>2. PICK j \in 1..Len(o) : o[j].story = s /\ o[j].status = b
  BY DEF With
<1> QED
  BY <1>1, <1>2 DEF Once

\* One sequence after another, about other stories.
LEMMA Joined ==
  ASSUME NEW o, NEW d, NEW f, NEW h, Reads(o, d, f, h),
         NEW p, NEW e, NEW g, NEW k, Reads(p, e, g, k),
         (d \cup f \cup h) \cap (e \cup g \cup k) = {}
  PROVE  Reads(o \o p, d \cup e, f \cup g, h \cup k)
<1> DEFINE q == o \o p
<1>1. /\ o \in Seq(Outcomes) /\ p \in Seq(Outcomes) /\ Once(o) /\ Once(p)
      /\ Named(o) \cap Named(p) = {}
  BY DEF Reads
<1>2. Len(o) \in Nat /\ Len(p) \in Nat
  BY <1>1, LenProperties
<1>3. /\ q \in Seq(Outcomes) /\ Len(q) = Len(o) + Len(p)
      /\ \A i \in 1..Len(q) : q[i] = IF i <= Len(o) THEN o[i] ELSE p[i - Len(o)]
  BY <1>1, ConcatProperties
<1> HIDE DEF q
<1>4. \A i \in 1..Len(o) : i \in 1..Len(q) /\ q[i] = o[i]
  BY <1>2, <1>3
<1>5. \A j \in 1..Len(p) : Len(o) + j \in 1..Len(q) /\ q[Len(o) + j] = p[j]
  BY <1>2, <1>3
<1>6. \A i \in 1..Len(q) : i \in 1..Len(o) \/ \E j \in 1..Len(p) : i = Len(o) + j
  <2> SUFFICES ASSUME NEW i \in 1..Len(q), i \notin 1..Len(o)
               PROVE  \E j \in 1..Len(p) : i = Len(o) + j
    OBVIOUS
  <2>1. i - Len(o) \in 1..Len(p) /\ i = Len(o) + (i - Len(o))
    BY <1>2, <1>3
  <2> QED
    BY <2>1
<1>7. ASSUME NEW status
      PROVE  With(q, status) = With(o, status) \cup With(p, status)
  <2>1. ASSUME NEW s \in With(q, status)
        PROVE  s \in With(o, status) \cup With(p, status)
    <3>1. PICK i \in 1..Len(q) : q[i].story = s /\ q[i].status = status
      BY DEF With
    <3>2. CASE i \in 1..Len(o)
      BY <3>1, <3>2, <1>4 DEF With
    <3>3. CASE \E j \in 1..Len(p) : i = Len(o) + j
      BY <3>1, <3>3, <1>5 DEF With
    <3> QED
      BY <3>2, <3>3, <1>6
  <2>2. With(o, status) \subseteq With(q, status)
    BY <1>4 DEF With
  <2>3. With(p, status) \subseteq With(q, status)
    BY <1>5 DEF With
  <2> QED
    BY <2>1, <2>2, <2>3
<1>8. Named(q) = Named(o) \cup Named(p)
  BY <1>1, <1>3, <1>7, NamedWith
<1>9. Once(q)
  <2> SUFFICES ASSUME NEW i \in 1..Len(q), NEW j \in 1..Len(q), q[i].story = q[j].story
               PROVE  i = j
    BY DEF Once
  <2>1. CASE i \in 1..Len(o) /\ j \in 1..Len(o)
    BY <2>1, <1>1, <1>4 DEF Once
  <2>2. ASSUME NEW x \in 1..Len(o), NEW y \in 1..Len(p)
        PROVE  q[x].story # q[Len(o) + y].story
    <3>1. o[x].story \in Named(o) /\ p[y].story \in Named(p)
      BY DEF Named
    <3>2. q[x] = o[x] /\ q[Len(o) + y] = p[y]
      BY <1>4, <1>5
    <3> QED
      BY <3>1, <3>2, <1>1
  <2>3. CASE i \notin 1..Len(o) /\ j \notin 1..Len(o)
    <3>1. PICK x \in 1..Len(p) : i = Len(o) + x
      BY <2>3, <1>6
    <3>2. PICK y \in 1..Len(p) : j = Len(o) + y
      BY <2>3, <1>6
    <3> QED
      BY <3>1, <3>2, <1>1, <1>5 DEF Once
  <2> QED
    BY <2>1, <2>2, <2>3, <1>6
<1> QED
  BY <1>3, <1>7, <1>8, <1>9 DEF Reads, q

\* An outcome of its own.
LEMMA Single ==
  ASSUME NEW s \in Stories, NEW status \in {"done", "failed", "waiting"}
  PROVE  Reads(<<Outcome(s, status)>>,
               IF status = "done" THEN {s} ELSE {}, IF status = "failed" THEN {s} ELSE {},
               IF status = "waiting" THEN {s} ELSE {})
<1> DEFINE o == <<Outcome(s, status)>>
<1>1. /\ o \in Seq(Outcomes) /\ Len(o) = 1 /\ o[1].story = s /\ o[1].status = status
      /\ 1..Len(o) = {1}
  BY DEF Outcomes, Outcome
<1> HIDE DEF o
<1>2. Once(o) /\ Named(o) = {s}
  BY <1>1 DEF Once, Named
<1>3. ASSUME NEW other
      PROVE  With(o, other) = IF status = other THEN {s} ELSE {}
  BY <1>1 DEF With
<1> QED
  BY <1>1, <1>2, <1>3 DEF Reads, o

\* SetToSeq lists a finite set, each element once.
LEMMA Listed ==
  ASSUME NEW S, IsFiniteSet(S)
  PROVE  /\ SetToSeq(S) \in Seq(S)
         /\ \A i, j \in 1..Len(SetToSeq(S)) : SetToSeq(S)[i] = SetToSeq(S)[j] => i = j
         /\ \A x \in S : \E i \in 1..Len(SetToSeq(S)) : SetToSeq(S)[i] = x
<1> DEFINE n == Cardinality(S)
           o == SetToSeq(S)
<1>1. n \in Nat /\ ExistsBijection(1..n, S)
  BY FS_CardinalityType
<1>2. \E m \in [1..n -> S] : IsInjective(m)
  BY <1>1 DEF ExistsBijection, Bijection, Injection
<1>3. o \in [1..n -> S] /\ IsInjective(o)
  BY <1>2 DEF SetToSeq
<1> HIDE DEF o
<1>4. o \in Seq(S) /\ Len(o) = n /\ DOMAIN o = 1..n
  BY <1>1, <1>3
<1>5. o \in Injection(1..n, S)
  BY <1>3 DEF Injection
<1>6. Cardinality(1..n) = n
  BY <1>1, FS_Interval
<1>7. o \in Surjection(1..n, S)
  BY <1>5, <1>6, FS_Injection
<1> QED
  BY <1>3, <1>4, <1>7 DEF Surjection, IsInjective, o

\* The outcomes of the stories put on hold.
LEMMA HeldOutcomes ==
  ASSUME NEW H \in SUBSET Stories
  PROVE  Reads(Waiting(H), {}, {}, H)
<1> DEFINE S == {Outcome(s, "waiting") : s \in H}
           o == Waiting(H)
<1>1. IsFiniteSet(H)
  BY PlanAssumption, FS_Subset
<1>2. IsFiniteSet(S)
  <2> DEFINE f == [s \in H |-> Outcome(s, "waiting")]
  <2>1. f \in Surjection(H, S)
    BY DEF Surjection
  <2> QED
    BY <1>1, <2>1, FS_Surjection
<1>3. S \subseteq Outcomes /\ \A x \in S : x.story \in H /\ x.status = "waiting"
  BY DEF Outcomes, Outcome
<1>4. \A x, y \in S : x.story = y.story => x = y
  BY DEF Outcome
<1>5. ASSUME NEW s \in H
      PROVE  \E x \in S : x.story = s
  <2>1. Outcome(s, "waiting") \in S /\ Outcome(s, "waiting").story = s
    BY DEF Outcome
  <2> QED
    BY <2>1
<1>6. o = SetToSeq(S)
  BY DEF Waiting
<1> HIDE DEF S, o
<1>7. /\ o \in Seq(S)
      /\ \A i, j \in 1..Len(o) : o[i] = o[j] => i = j
      /\ \A x \in S : \E i \in 1..Len(o) : o[i] = x
  BY <1>2, <1>6, Listed
<1>8. o \in Seq(Outcomes)
  BY <1>3, <1>7, SeqMonotonic
<1>9. \A i \in 1..Len(o) : o[i] \in S
  BY <1>7, ElementOfSeq
<1>10. Once(o)
  BY <1>4, <1>7, <1>9 DEF Once
<1>11. Named(o) = H
  <2>1. Named(o) \subseteq H
    BY <1>3, <1>9 DEF Named
  <2>2. ASSUME NEW s \in H
        PROVE  s \in Named(o)
    <3>1. PICK x \in S : x.story = s
      BY <1>5
    <3> QED
      BY <3>1, <1>7 DEF Named
  <2> QED
    BY <2>1, <2>2
<1>12. With(o, "waiting") = Named(o) /\ With(o, "done") = {} /\ With(o, "failed") = {}
  <2>1. \A i \in 1..Len(o) : o[i].status = "waiting"
    BY <1>3, <1>9
  <2> QED
    BY <2>1 DEF With, Named
<1> QED
  BY <1>8, <1>10, <1>11, <1>12 DEF Reads, o

\* The definitions of the model, said of a sequence of outcomes.
LEMMA ReadOutcomes ==
  ASSUME NEW o \in Seq(Outcomes)
  PROVE  /\ {x.story : x \in ToSet(o)} = Named(o)
         /\ \A status : {s \in Stories : \E x \in ToSet(o) : x.story = s /\ x.status = status}
                        = With(o, status)
<1>1. ToSet(o) = {o[i] : i \in 1..Len(o)}
  BY LenProperties DEF ToSet
<1>2. {x.story : x \in ToSet(o)} = Named(o)
  BY <1>1 DEF Named
<1>3. ASSUME NEW status
      PROVE  {s \in Stories : \E x \in ToSet(o) : x.story = s /\ x.status = status}
             = With(o, status)
  BY <1>1, Entries DEF With
<1> QED
  BY <1>2, <1>3

\* The verdict a sequence of outcomes gives of a story.
ReadVerdict(o, s) ==
    IF s \in {x.story : x \in ToSet(o)}
    THEN LET i == CHOOSE i \in 1..Len(o) :
                     o[i].story = s /\ \A j \in 1..(i - 1) : o[j].story # s
         IN  o[i].status
    ELSE "none"

\* Where no story is named twice, the first outcome of a story is its only one.
LEMMA VerdictRead ==
  ASSUME NEW o, NEW d, NEW f, NEW h, Reads(o, d, f, h), NEW s \in Stories
  PROVE  ReadVerdict(o, s) = IF s \in d THEN "done" ELSE IF s \in f THEN "failed"
                             ELSE IF s \in h THEN "waiting" ELSE "none"
<1>1. o \in Seq(Outcomes) /\ Once(o) /\ {x.story : x \in ToSet(o)} = Named(o)
  BY ReadOutcomes DEF Reads
<1>2. CASE s \notin Named(o)
  BY <1>1, <1>2 DEF ReadVerdict, Reads
<1>3. CASE s \in Named(o)
  <2> DEFINE First(i) == o[i].story = s /\ \A j \in 1..(i - 1) : o[j].story # s
             n == CHOOSE i \in 1..Len(o) : First(i)
  <2>1. PICK i \in 1..Len(o) : o[i].story = s
    BY <1>3 DEF Named
  <2>2. \A j \in 1..(i - 1) : j \in 1..Len(o) /\ j # i
    BY <2>1, <1>1, LenProperties
  <2>3. First(i)
    BY <2>1, <2>2, <1>1 DEF Once
  <2>4. n \in 1..Len(o) /\ o[n].story = s
    BY <2>3
  <2>5. ReadVerdict(o, s) = o[n].status
    BY <1>1, <1>3 DEF ReadVerdict
  <2> HIDE DEF n
  <2>6. o[n].status \in {"done", "failed", "waiting"}
    BY <2>4, <1>1, Entries
  <2>7. s \in With(o, o[n].status)
    BY <2>4 DEF With
  <2>8. /\ With(o, "done") \cap With(o, "failed") = {}
        /\ With(o, "done") \cap With(o, "waiting") = {}
        /\ With(o, "failed") \cap With(o, "waiting") = {}
    BY <1>1, OneStatus
  <2> QED
    BY <2>5, <2>6, <2>7, <2>8 DEF Reads
<1> QED
  BY <1>2, <1>3

-----------------------------------------------------------------------------
(* The inductive invariant.                                                *)

\* The stories that came as far as a start and have no outcome yet.
UnderWay == running \cup (IF pc = "recovering" THEN {current} ELSE {})

\* No story under way has an outcome.
Apart == UnderWay \cap Settled = {}

\* A story starts, and is done, only after all it waits for is done.
DependenciesDone == \A s \in UnderWay \cup Done : DependsOn[s] \subseteq Done

\* Who waits for a story that failed or was put on hold has its outcome.
DependentsSettled ==
    pc # "abandoned" =>
        \A s \in Stories : DependsOn[s] \cap (Failed \cup Held) # {} => s \in Settled

\* A run that ends at its first failure leaves nothing running.
AbandonedEmpty == pc = "abandoned" => running = {}

\* The queue holds one completion of each of its stories, which the loop
\* counts as running although their fibers have ended.
InQueue ==
    /\ pc # "abandoned" => \A i \in 1..Len(queue) : queue[i].story \in running \ alive
    /\ \A i, j \in 1..Len(queue) : queue[i].story = queue[j].story => i = j

\* The story the loop waits for is retried for the first time.
Recovering == pc = "recovering" => current \in recovered \ running

\* A story that has no outcome and does not run still has a launch to come,
\* the first one, or the second one after an outage.
Attempted ==
    pc # "abandoned" =>
        \A s \in Stories \ (running \cup Settled) :
            attempts[s] <= IF s \in recovered THEN 1 ELSE 0

\* The loop ends when nothing runs; unless it was halted, nothing is left.
AllSettled == pc = "ending" => running = {} /\ (halted \/ Settled = Stories)

Scheduled ==
    /\ TypeOK /\ RecordedOnce /\ Apart /\ DependenciesDone /\ DependentsSettled
    /\ AbandonedEmpty /\ InQueue /\ Recovering /\ Attempted /\ RetriedOnce
    /\ NoReadyStoryForgotten /\ AllSettled

-----------------------------------------------------------------------------
(* What waits for what, and who is launched first.                         *)

\* A story that waits for one that is not done, directly or through others,
\* has a dependency that is not done.
LEMMA DependentBlocked ==
  ASSUME NEW D \in SUBSET Stories, \A d \in D : DependsOn[d] \subseteq D,
         NEW s \in Stories \ D, NEW t \in DependentsOf(s)
  PROVE  ~(DependsOn[t] \subseteq D)
<1> DEFINE B == {s} \cup {u \in Stories : ~(DependsOn[u] \subseteq D)}
<1>1. DependsOn \in [Stories -> SUBSET Stories]
  BY PlanAssumption
<1>2. Upward(B)
  <2> SUFFICES ASSUME NEW u \in Stories, NEW d \in DependsOn[u], d \in B
               PROVE  ~(DependsOn[u] \subseteq D)
    BY DEF Upward
  <2>1. d \notin D
    OBVIOUS
  <2> QED
    BY <2>1
<1>3. B \in SUBSET Stories /\ s \in B
  OBVIOUS
<1>4. t \in B /\ t # s
  BY <1>2, <1>3 DEF DependentsOf
<1> QED
  BY <1>4

\* What waits for a story or for a dependent of it is a dependent of it.
LEMMA DependentsUpward ==
  ASSUME NEW s \in Stories, NEW t \in Stories,
         DependsOn[t] \cap ({s} \cup DependentsOf(s)) # {}
  PROVE  t = s \/ t \in DependentsOf(s)
<1>1. PICK d \in DependsOn[t] : d = s \/ d \in DependentsOf(s)
  OBVIOUS
<1>2. ASSUME NEW B \in SUBSET Stories, s \in B, Upward(B)
      PROVE  t \in B
  <2>1. d \in B
    BY <1>1, <1>2 DEF DependentsOf
  <2> QED
    BY <2>1, <1>2 DEF Upward
<1> QED
  BY <1>2 DEF DependentsOf

\* Of the first k in plan order there are at most k, and fewer only when
\* there are no others.
LEMMA FirstRanks ==
  ASSUME NEW R \in SUBSET Stories, NEW k \in Nat
  PROVE  LET F == {s \in R : Cardinality({t \in R : Position[t] < Position[s]}) < k}
         IN  /\ IsFiniteSet(F) /\ Cardinality(F) <= k
             /\ F # R => Cardinality(F) = k
<1> DEFINE Before(s) == {t \in R : Position[t] < Position[s]}
           F == {s \in R : Cardinality(Before(s)) < k}
           n == Cardinality(R)
           rank == [s \in R |-> Cardinality(Before(s))]
           some == [s \in F |-> rank[s]]
<1>1. IsFiniteSet(R) /\ n \in Nat
  BY PlanAssumption, FS_Subset, FS_CardinalityType
<1>2. \A s \in R : Position[s] \in Nat
  BY PlanAssumption
<1>3. \A s, t \in R : s # t => Position[s] < Position[t] \/ Position[t] < Position[s]
  BY <1>2, PlanAssumption
<1>4. ASSUME NEW s \in R
      PROVE  rank[s] \in 0..(n - 1)
  <2>1. Before(s) \in SUBSET R /\ s \notin Before(s) /\ s \in R
    BY <1>2
  <2>2. Cardinality(Before(s)) \in Nat /\ Cardinality(Before(s)) <= n /\ Cardinality(Before(s)) # n
    BY <2>1, <1>1, FS_Subset, FS_CardinalityType
  <2> HIDE DEF n, Before
  <2> QED
    BY <2>2, <1>1
<1>5. ASSUME NEW s \in R, NEW t \in R, Position[s] < Position[t]
      PROVE  rank[s] < rank[t]
  <2>1. Before(s) \in SUBSET Before(t) /\ s \in Before(t) /\ s \notin Before(s)
    BY <1>2, <1>5
  <2>2. IsFiniteSet(Before(t))
    BY <1>1, FS_Subset
  <2>3. rank[s] <= rank[t] /\ rank[s] # rank[t]
    BY <2>1, <2>2, FS_Subset
  <2> QED
    BY <2>3, <1>4
<1>6. rank \in Injection(R, 0..(n - 1))
  <2>1. ASSUME NEW s \in R, NEW t \in R, rank[s] = rank[t], s # t
        PROVE  FALSE
    <3> HIDE DEF rank, n
    <3>1. rank[s] \in Int /\ rank[t] \in Int
      BY <1>1, <1>4
    <3>2. ~(rank[s] < rank[t]) /\ ~(rank[t] < rank[s])
      BY <2>1, <3>1
    <3> QED
      BY <2>1, <3>2, <1>3, <1>5
  <2>2. rank \in [R -> 0..(n - 1)]
    BY <1>4
  <2> QED
    BY <2>1, <2>2 DEF Injection, IsInjective
<1>7. IsFiniteSet(0..(n - 1)) /\ Cardinality(0..(n - 1)) = n
  BY <1>1, FS_Interval
<1>8. rank \in Surjection(R, 0..(n - 1))
  BY <1>6, <1>7, FS_Injection
<1>9. IsFiniteSet(0..(k - 1)) /\ Cardinality(0..(k - 1)) = k
  BY FS_Interval
<1>10. some \in Injection(F, 0..(k - 1))
  <2>1. \A s \in F : some[s] \in 0..(k - 1)
    BY <1>4
  <2>2. \A s, t \in F : some[s] = some[t] => s = t
    BY <1>6 DEF Injection, IsInjective
  <2> QED
    BY <2>1, <2>2 DEF Injection, IsInjective
<1>11. IsFiniteSet(F) /\ Cardinality(F) <= k
  BY <1>9, <1>10, FS_Injection
<1>12. ASSUME F # R
       PROVE  Cardinality(F) = k
  <2>1. PICK s \in R : s \notin F
    BY <1>12
  <2>2. k < n
    BY <2>1, <1>1, <1>4
  <2>3. ASSUME NEW j \in 0..(k - 1)
        PROVE  \E t \in F : some[t] = j
    <3>1. j \in 0..(n - 1)
      BY <2>2, <1>1
    <3>2. PICK t \in R : rank[t] = j
      BY <3>1, <1>8 DEF Surjection
    <3>3. t \in F /\ some[t] = j
      BY <3>2
    <3> QED
      BY <3>3
  <2>4. some \in Surjection(F, 0..(k - 1))
    BY <2>3, <1>10 DEF Surjection, Injection
  <2> QED
    BY <2>4, <1>9, <1>10, FS_Injection
<1> QED
  BY <1>11, <1>12

-----------------------------------------------------------------------------
(* What one step records.                                                  *)

\* The outcomes name each story once: those done, failed and on hold.
LEMMA Recorded3 ==
  ASSUME TypeOK, RecordedOnce
  PROVE  /\ Reads(outcomes, Done, Failed, Held)
         /\ Settled = Done \cup Failed \cup Held /\ Settled \subseteq Stories
         /\ Done \cap Failed = {} /\ Done \cap Held = {} /\ Failed \cap Held = {}
<1>1. outcomes \in Seq(Outcomes) /\ Once(outcomes)
  BY DEF TypeOK, RecordedOnce, Outcomes, Once
<1>2. /\ Settled = Named(outcomes) /\ Done = With(outcomes, "done")
      /\ Failed = With(outcomes, "failed") /\ Held = With(outcomes, "waiting")
  BY <1>1, ReadOutcomes DEF Settled, Done, Failed, Held, Recorded
<1>3. Done \subseteq Stories /\ Failed \subseteq Stories /\ Held \subseteq Stories
  BY DEF Done, Failed, Held, Recorded
<1>4. Settled = Done \cup Failed \cup Held
  BY <1>1, <1>2, NamedWith
<1>5. Done \cap Failed = {} /\ Done \cap Held = {} /\ Failed \cap Held = {}
  BY <1>1, <1>2, OneStatus
<1> QED
  BY <1>1, <1>2, <1>3, <1>4, <1>5 DEF Reads

\* What the next outcomes say is what the model says next.
LEMMA RecordedNext ==
  ASSUME NEW d, NEW f, NEW h, Reads(outcomes', d, f, h)
  PROVE  /\ outcomes' \in Seq(Outcomes) /\ RecordedOnce'
         /\ Done' = d /\ Failed' = f /\ Held' = h /\ Settled' = d \cup f \cup h
<1>1. outcomes' \in Seq(Outcomes) /\ Once(outcomes')
  BY DEF Reads
<1>2. /\ Settled' = Named(outcomes') /\ Done' = With(outcomes', "done")
      /\ Failed' = With(outcomes', "failed") /\ Held' = With(outcomes', "waiting")
  BY <1>1, ReadOutcomes DEF Settled, Done, Failed, Held, Recorded
<1> QED
  BY <1>1, <1>2 DEF Reads, RecordedOnce, Once

\* A step that leaves the outcomes alone leaves what they say alone.
LEMMA RecordedSame ==
  ASSUME UNCHANGED outcomes
  PROVE  /\ Done' = Done /\ Failed' = Failed /\ Held' = Held /\ Settled' = Settled
         /\ RecordedOnce' <=> RecordedOnce
  BY DEF Done, Failed, Held, Settled, Recorded, RecordedOnce

\* The end of a story without an outcome is recorded once; when it fails, so
\* is everything without an outcome that waits for it, unless the run ends.
LEMMA RecordAdds ==
  ASSUME TypeOK, RecordedOnce, NEW s \in Stories \ Settled, NEW end \in Ends, Record(s, end)
  PROVE  /\ outcomes' \in Seq(Outcomes) /\ RecordedOnce'
         /\ Settled' = Done' \cup Failed' \cup Held'
         /\ end = "done" => Done' = Done \cup {s} /\ Failed' = Failed /\ Held' = Held
         /\ end # "done" /\ options.failFast =>
               Done' = Done /\ Failed' = Failed \cup {s} /\ Held' = Held
         /\ end # "done" /\ ~options.failFast =>
               Done' = Done /\ Failed' = Failed \cup {s} /\ Held' = Held \cup HeldBy(s)
<1>1. /\ Reads(outcomes, Done, Failed, Held)
      /\ Settled = Done \cup Failed \cup Held /\ Settled \subseteq Stories
  BY Recorded3
<1>2. outcomes \in Seq(Outcomes)
  BY <1>1 DEF Reads
<1>3. ASSUME NEW status \in {"done", "failed"}
      PROVE  Append(outcomes, Outcome(s, status)) = outcomes \o <<Outcome(s, status)>>
  <2>1. Outcome(s, status) \in Outcomes
    BY DEF Outcome, Outcomes
  <2> QED
    BY <1>2, <2>1, AppendIsConcat
<1>4. CASE end = "done"
  <2>1. outcomes' = outcomes \o <<Outcome(s, "done")>>
    BY <1>3, <1>4 DEF Record
  <2>2. Reads(<<Outcome(s, "done")>>, {s}, {}, {})
    <3>1. Reads(<<Outcome(s, "done")>>, IF "done" = "done" THEN {s} ELSE {},
                IF "done" = "failed" THEN {s} ELSE {}, IF "done" = "waiting" THEN {s} ELSE {})
      BY Single
    <3> QED
      BY <3>1
  <2>3. Reads(outcomes', Done \cup {s}, Failed \cup {}, Held \cup {})
    BY <1>1, <2>1, <2>2, Joined
  <2> QED
    BY <1>4, <2>3, RecordedNext
<1>5. ASSUME end # "done"
      PROVE  Reads(Append(outcomes, Outcome(s, "failed")), Done, Failed \cup {s}, Held)
  <2>1. Reads(<<Outcome(s, "failed")>>, {}, {s}, {})
    <3>1. Reads(<<Outcome(s, "failed")>>, IF "failed" = "done" THEN {s} ELSE {},
                IF "failed" = "failed" THEN {s} ELSE {},
                IF "failed" = "waiting" THEN {s} ELSE {})
      BY Single
    <3> QED
      BY <3>1
  <2>2. Reads(outcomes \o <<Outcome(s, "failed")>>, Done \cup {}, Failed \cup {s}, Held \cup {})
    BY <1>1, <2>1, Joined
  <2> QED
    BY <2>2, <1>3
<1>6. CASE end # "done" /\ options.failFast
  <2>1. outcomes' = Append(outcomes, Outcome(s, "failed"))
    BY <1>6 DEF Record
  <2> QED
    BY <1>5, <1>6, <2>1, RecordedNext
<1>7. CASE end # "done" /\ ~options.failFast
  <2>1. outcomes' = Append(outcomes, Outcome(s, "failed")) \o Waiting(HeldBy(s))
    BY <1>7 DEF Record
  <2>2. /\ HeldBy(s) \in SUBSET Stories /\ s \notin HeldBy(s)
        /\ HeldBy(s) \cap Settled = {}
    BY DEF HeldBy, DependentsOf
  <2>3. Reads(Waiting(HeldBy(s)), {}, {}, HeldBy(s))
    BY <2>2, HeldOutcomes
  <2>4. Reads(outcomes', Done \cup {}, (Failed \cup {s}) \cup {}, Held \cup HeldBy(s))
    BY <1>1, <1>5, <1>7, <2>1, <2>2, <2>3, Joined
  <2> QED
    BY <1>7, <2>4, RecordedNext
<1> QED
  BY <1>4, <1>6, <1>7

\* The report of a halted run puts on hold whatever has no outcome.
LEMMA ReportAdds ==
  ASSUME TypeOK, RecordedOnce, Report
  PROVE  /\ outcomes' \in Seq(Outcomes) /\ RecordedOnce'
         /\ Settled' = Done' \cup Failed' \cup Held'
         /\ Done' = Done /\ Failed' = Failed
         /\ Held' = Held \cup (IF halted THEN Stories \ Settled ELSE {})
<1>1. /\ Reads(outcomes, Done, Failed, Held)
      /\ Settled = Done \cup Failed \cup Held /\ Settled \subseteq Stories
  BY Recorded3
<1>2. CASE halted
  <2>1. Reads(Waiting(Stories \ Settled), {}, {}, Stories \ Settled)
    BY HeldOutcomes
  <2>2. outcomes' = outcomes \o Waiting(Stories \ Settled)
    BY <1>2 DEF Report
  <2>3. Reads(outcomes', Done \cup {}, Failed \cup {}, Held \cup (Stories \ Settled))
    BY <1>1, <2>1, <2>2, Joined
  <2> QED
    BY <1>2, <2>3, RecordedNext
<1>3. CASE ~halted
  <2>1. outcomes' = outcomes
    <3>1. outcomes' = outcomes \o <<>> /\ outcomes \in Seq(Outcomes)
      BY <1>1, <1>3 DEF Report, Reads
    <3> QED
      BY <3>1, ConcatEmptySeq
  <2> QED
    BY <1>1, <1>3, <2>1, RecordedNext
<1> QED
  BY <1>2, <1>3

-----------------------------------------------------------------------------
(* The launch.                                                             *)

\* What starts is ready, and is all that is ready or as many as may start.
LEMMA Launched ==
  ASSUME TypeOK
  PROVE  /\ Limit \in Nat /\ Slots \in Nat
         /\ FirstReady \subseteq Ready /\ Ready \subseteq Stories
         /\ IsFiniteSet(running) /\ Cardinality(running) \in Nat
         /\ Cardinality(FirstReady) \in Nat
         /\ Cardinality(FirstReady) <= Slots
         /\ FirstReady # Ready => Cardinality(FirstReady) = Slots
         /\ Cardinality(running \cup FirstReady) = Cardinality(running) + Cardinality(FirstReady)
<1>1. Limit \in Nat
  BY BoundsAssumption DEF TypeOK, Limit, Lower
<1>2. IsFiniteSet(running) /\ Cardinality(running) \in Nat
  BY PlanAssumption, FS_Subset, FS_CardinalityType DEF TypeOK
<1>3. Slots \in Nat
  BY <1>1, <1>2 DEF Slots, Higher, Budget
<1>4. Ready \in SUBSET Stories /\ FirstReady \subseteq Ready /\ FirstReady \cap running = {}
  BY DEF Ready, FirstReady
<1>5. /\ IsFiniteSet(FirstReady) /\ Cardinality(FirstReady) <= Slots
      /\ FirstReady # Ready => Cardinality(FirstReady) = Slots
  BY <1>3, <1>4, FirstRanks DEF FirstReady
<1>6. Cardinality(FirstReady) \in Nat
  BY <1>5, FS_CardinalityType
<1>7. Cardinality(running \cap FirstReady) = 0
  BY <1>4, FS_EmptySet
<1>8. Cardinality(running \cup FirstReady) = Cardinality(running) + Cardinality(FirstReady)
  <2>1. Cardinality(running \cup FirstReady)
           = Cardinality(running) + Cardinality(FirstReady) - Cardinality(running \cap FirstReady)
    BY <1>2, <1>5, FS_Union
  <2> QED
    BY <2>1, <1>2, <1>6, <1>7
<1> QED
  BY <1>1, <1>2, <1>3, <1>4, <1>5, <1>6, <1>8

\* When nothing runs and nothing can start, no story is ready.
LEMMA NothingReady ==
  ASSUME TypeOK, running = {}, FirstReady = {}
  PROVE  Ready = {}
<1>1. Cardinality(FirstReady) = 0 /\ Cardinality(running) = 0
  BY FS_EmptySet
<1>2. Slots >= 1
  BY <1>1, Launched DEF Slots, Higher, Budget
<1> QED
  BY <1>1, <1>2, Launched

\* When no story is ready and none is under way, every story is settled: the
\* plan has no cycle, and a failure settles all that waits for it.
LEMMA NothingLeft ==
  ASSUME TypeOK, RecordedOnce, DependentsSettled, pc # "abandoned", Ready = {}, running = {}
  PROVE  Settled = Stories
<1>1. Settled = Done \cup Failed \cup Held /\ Settled \subseteq Stories
  BY Recorded3
<1>2. ASSUME NEW s \in Stories, DependsOn[s] \subseteq Settled, s \notin Settled
      PROVE  FALSE
  <2>1. ~(DependsOn[s] \subseteq Done)
    BY <1>2 DEF Ready
  <2>2. DependsOn[s] \cap (Failed \cup Held) # {}
    BY <1>1, <1>2, <2>1
  <2> QED
    BY <1>2, <2>2 DEF DependentsSettled
<1>3. Below(Settled)
  BY <1>2 DEF Below
<1> QED
  BY <1>1, <1>3, PlanAssumption

\* A launch that leaves no starved story behind leaves none that a slot more
\* would let start.
LEMMA LaunchForgetsNone ==
  ASSUME TypeOK, Launch, ~halted
  PROVE  NoReadyStoryForgotten'
<1> SUFFICES ASSUME starvedAt' = Satisfied, Ready' # {}
             PROVE  Cardinality(running') >= Concurrency
  BY DEF NoReadyStoryForgotten, Launch
<1>1. running' = running \cup FirstReady /\ UNCHANGED outcomes
  BY DEF Launch
<1>2. Ready' = Ready \ FirstReady
  BY <1>1, RecordedSame DEF Ready
<1>3. ~Starved
  BY BoundsAssumption DEF Launch, TypeOK, Satisfied, CapacitySeen
<1>4. Cardinality(running') \in Nat
  BY <1>1, Launched
<1>5. CASE options.roster
  BY <1>1, <1>2, <1>3, <1>4, <1>5, BoundsAssumption DEF Starved
<1>6. CASE ~options.roster
  <2>1. Limit = Concurrency
    BY <1>6 DEF Limit
  <2>2. Cardinality(FirstReady) = Slots /\ Slots >= Concurrency - Cardinality(running)
    BY <1>2, <2>1, Launched, BoundsAssumption DEF Slots, Higher, Budget
  <2> QED
    BY <1>1, <2>2, Launched, BoundsAssumption
<1> QED
  BY <1>5, <1>6

\* A launch starts only stories without an outcome whose dependencies are done.
LEMMA LaunchKeeps ==
  ASSUME Scheduled, Launch
  PROVE  Scheduled'
<1>1. /\ UNCHANGED <<environment, outcomes, queue, halted, recovered, current>>
      /\ pc = "launching" /\ pc' = IF running' = {} THEN "ending" ELSE "taking"
  BY DEF Launch
<1>2. Done' = Done /\ Failed' = Failed /\ Held' = Held /\ Settled' = Settled /\ RecordedOnce'
  BY <1>1, RecordedSame DEF Scheduled
<1>3. CASE halted
  <2>1. UNCHANGED <<running, alive, attempts>> /\ starvedAt' = Satisfied /\ halted'
    BY <1>1, <1>3 DEF Launch
  <2>2. TypeOK'
    BY <1>1, <2>1 DEF Scheduled, TypeOK, environment, Satisfied
  <2>3. UnderWay' = UnderWay
    BY <1>1, <2>1 DEF UnderWay
  <2>4. Apart' /\ DependenciesDone' /\ DependentsSettled'
    BY <1>1, <1>2, <2>3 DEF Scheduled, Apart, DependenciesDone, DependentsSettled
  <2>5. AbandonedEmpty' /\ InQueue' /\ Recovering' /\ Attempted' /\ RetriedOnce'
    BY <1>1, <1>2, <2>1 DEF Scheduled, AbandonedEmpty, InQueue, Recovering, Attempted, RetriedOnce
  <2>6. NoReadyStoryForgotten' /\ AllSettled'
    BY <1>1, <2>1 DEF NoReadyStoryForgotten, AllSettled
  <2> QED
    BY <1>2, <2>2, <2>4, <2>5, <2>6 DEF Scheduled
<1>4. CASE ~halted
  <2> TypeOK
    BY DEF Scheduled
  <2>1. /\ running' = running \cup FirstReady /\ alive' = alive \cup FirstReady
        /\ attempts' = [s \in Stories |-> attempts[s] + IF s \in FirstReady THEN 1 ELSE 0]
        /\ starvedAt' = IF Starved THEN CapacitySeen ELSE Satisfied
    BY <1>4 DEF Launch
  <2>2. FirstReady \subseteq Ready /\ Ready \subseteq Stories
    BY Launched
  <2>3. \A s \in Ready : s \notin Settled /\ s \notin running /\ DependsOn[s] \subseteq Done
    BY DEF Ready
  <2>4. UnderWay = running /\ UnderWay' = running'
    BY <1>1 DEF UnderWay
  <2>5. TypeOK'
    <3>1. running' \subseteq Stories /\ alive' \subseteq running'
      BY <2>1, <2>2 DEF TypeOK
    <3>2. attempts' \in [Stories -> Nat]
      BY <2>1 DEF TypeOK
    <3>3. starvedAt' \in 0..MaxCapacity \cup {Satisfied}
      BY <2>1 DEF TypeOK, CapacitySeen
    <3>4. pc' \in {"launching", "taking", "recovering", "ending", "reported", "abandoned"}
      BY <1>1
    <3> QED
      BY <1>1, <3>1, <3>2, <3>3, <3>4 DEF TypeOK, environment, Satisfied
  <2>6. Apart'
    BY <1>2, <2>1, <2>2, <2>3, <2>4 DEF Scheduled, Apart
  <2>7. DependenciesDone'
    BY <1>2, <2>1, <2>2, <2>3, <2>4 DEF Scheduled, DependenciesDone
  <2>8. DependentsSettled'
    BY <1>1, <1>2 DEF Scheduled, DependentsSettled
  <2>9. InQueue'
    <3>1. \A i \in 1..Len(queue) : queue[i].story \in running \ alive
      BY <1>1 DEF Scheduled, InQueue
    <3>2. \A i \in 1..Len(queue) : queue[i].story \in running' \ alive'
      BY <3>1, <2>1, <2>2, <2>3
    <3> QED
      BY <1>1, <3>2 DEF Scheduled, InQueue
  <2>10. AbandonedEmpty' /\ Recovering' /\ NoReadyStoryForgotten'
    BY <1>1, <1>4, LaunchForgetsNone DEF AbandonedEmpty, Recovering
  <2>11. ASSUME NEW s \in Stories
         PROVE  /\ s \notin running' \cup Settled' => attempts'[s] = attempts[s]
                /\ attempts'[s] <= IF s \in recovered THEN 2 ELSE 1
    <3>1. attempts[s] \in Nat /\ attempts[s] <= IF s \in recovered THEN 2 ELSE 1
      BY DEF Scheduled, TypeOK, RetriedOnce
    <3>2. CASE s \in FirstReady
      <4>1. attempts[s] <= IF s \in recovered THEN 1 ELSE 0
        BY <1>1, <2>2, <2>3, <3>2 DEF Scheduled, Attempted
      <4> QED
        BY <4>1, <3>1, <3>2, <2>1
    <3>3. CASE s \notin FirstReady
      BY <3>1, <3>3, <2>1
    <3> QED
      BY <3>2, <3>3
  <2>12. Attempted' /\ RetriedOnce'
    BY <1>1, <1>2, <2>1, <2>11 DEF Scheduled, Attempted, RetriedOnce
  <2>13. AllSettled'
    <3>1. SUFFICES ASSUME running' = {}
                   PROVE  Settled = Stories
      BY <1>1, <1>2 DEF AllSettled
    <3>2. running = {} /\ FirstReady = {}
      BY <2>1, <3>1
    <3> QED
      BY <1>1, <3>2, NothingReady, NothingLeft DEF Scheduled
  <2> QED
    BY <1>2, <2>5, <2>6, <2>7, <2>8, <2>9, <2>10, <2>12, <2>13 DEF Scheduled
<1> QED
  BY <1>3, <1>4

-----------------------------------------------------------------------------
(* The other steps of the loop.                                            *)

\* What recording an end keeps: s is under way, and nothing else of what is
\* under way waits for it.
LEMMA RecordKeeps ==
  ASSUME Scheduled, NEW s \in UnderWay, s \in Stories \ alive, NEW end \in Ends, Record(s, end),
         pc \in {"taking", "recovering"},
         UNCHANGED <<recovered, attempts, environment, starvedAt>>,
         halted' \in BOOLEAN, current' \in Stories \cup {NoStory},
         queue' \in Seq(Completions)
  PROVE  /\ TypeOK' /\ RecordedOnce' /\ Apart' /\ DependenciesDone' /\ DependentsSettled'
         /\ AbandonedEmpty' /\ Recovering' /\ Attempted' /\ RetriedOnce'
         /\ NoReadyStoryForgotten' /\ AllSettled'
<1> TypeOK /\ RecordedOnce
  BY DEF Scheduled
<1>1. s \in Stories \ Settled /\ DependsOn[s] \subseteq Done
  BY DEF Scheduled, Apart, DependenciesDone
<1>2. /\ Settled = Done \cup Failed \cup Held /\ Settled \subseteq Stories
  BY Recorded3
<1>3. /\ outcomes' \in Seq(Outcomes) /\ RecordedOnce'
      /\ Settled' = Done' \cup Failed' \cup Held'
  BY <1>1, RecordAdds
<1>4. /\ running' \subseteq running \ {s} /\ alive' \subseteq running'
      /\ pc' \in {"launching", "abandoned"}
      /\ pc' = "abandoned" => running' = {}
      /\ pc' = "launching" => running' = running \ {s} /\ (end = "done" \/ ~options.failFast)
  BY DEF Record, Without, TypeOK
<1>5. /\ end = "done" => Done' = Done \cup {s} /\ Failed' = Failed /\ Held' = Held
      /\ end # "done" => /\ Done' = Done /\ Failed' = Failed \cup {s}
                         /\ Held' = Held \cup (IF options.failFast THEN {} ELSE HeldBy(s))
  BY <1>1, RecordAdds
<1>6. Done \subseteq Done' /\ Done' \subseteq Done \cup {s} /\ Settled \subseteq Settled' /\ s \in Settled'
  BY <1>2, <1>3, <1>5
<1>7. Settled' \subseteq Settled \cup {s} \cup HeldBy(s)
  BY <1>2, <1>3, <1>5
<1>8. UnderWay' = running' /\ running \subseteq UnderWay
  BY <1>4 DEF UnderWay
<1>9. TypeOK'
  BY <1>3, <1>4 DEF TypeOK, environment, Outcomes, Satisfied
<1>10. Apart'
  <2>1. ASSUME NEW t \in HeldBy(s)
        PROVE  t \notin running
    <3>1. ~(DependsOn[t] \subseteq Done)
      <4>1. Done \in SUBSET Stories /\ \A d \in Done : DependsOn[d] \subseteq Done
        BY <1>2 DEF Scheduled, DependenciesDone
      <4> QED
        BY <4>1, <1>1, <1>2, DependentBlocked DEF HeldBy
    <3> QED
      BY <3>1, <1>8 DEF Scheduled, DependenciesDone
  <2> QED
    BY <2>1, <1>4, <1>7, <1>8 DEF Scheduled, Apart
<1>11. DependenciesDone'
  <2> SUFFICES ASSUME NEW t \in running' \cup Done'
               PROVE  DependsOn[t] \subseteq Done'
    BY <1>8 DEF DependenciesDone
  <2>1. t \in UnderWay \cup Done
    BY <1>4, <1>6, <1>8
  <2> QED
    BY <2>1, <1>6 DEF Scheduled, DependenciesDone
<1>12. DependentsSettled'
  <2> SUFFICES ASSUME pc' = "launching", NEW t \in Stories,
                      DependsOn[t] \cap (Failed' \cup Held') # {}
               PROVE  t \in Settled'
    BY <1>4 DEF DependentsSettled
  <2>1. CASE DependsOn[t] \cap (Failed \cup Held) # {}
    BY <2>1, <1>6 DEF Scheduled, DependentsSettled
  <2>2. CASE DependsOn[t] \cap ({s} \cup HeldBy(s)) # {} /\ end # "done"
    <3>1. t = s \/ t \in DependentsOf(s)
      BY <1>1, <2>2, DependentsUpward DEF HeldBy
    <3>2. HeldBy(s) \subseteq Settled'
      BY <1>3, <1>4, <1>5, <2>2
    <3> QED
      BY <3>1, <3>2, <1>6 DEF HeldBy
  <2> QED
    BY <2>1, <2>2, <1>5
<1>13. AbandonedEmpty' /\ Recovering' /\ NoReadyStoryForgotten' /\ AllSettled'
  BY <1>4 DEF AbandonedEmpty, Recovering, NoReadyStoryForgotten, AllSettled
<1>14. Attempted' /\ RetriedOnce'
  <2>1. pc' # "abandoned" => running \cup Settled \subseteq running' \cup Settled'
    BY <1>4, <1>6
  <2> QED
    BY <2>1, <1>4 DEF Scheduled, Attempted, RetriedOnce
<1> QED
  BY <1>3, <1>9, <1>10, <1>11, <1>12, <1>13, <1>14

\* The head of the queue is under way, and the rest of the queue is about
\* other stories.
LEMMA HeadOfQueue ==
  ASSUME TypeOK, InQueue, pc = "taking", queue # <<>>
  PROVE  /\ Head(queue) \in Completions /\ Tail(queue) \in Seq(Completions)
         /\ Head(queue).story \in running \ alive
         /\ \A i \in 1..Len(Tail(queue)) :
               Tail(queue)[i].story \in (running \ {Head(queue).story}) \ alive
         /\ \A i, j \in 1..Len(Tail(queue)) :
               Tail(queue)[i].story = Tail(queue)[j].story => i = j
<1>1. queue \in Seq(Completions) /\ Len(queue) \in Nat \ {0} /\ Head(queue) = queue[1]
  BY EmptySeq DEF TypeOK
<1>2. /\ Head(queue) \in Completions /\ Tail(queue) \in Seq(Completions)
      /\ Len(Tail(queue)) = Len(queue) - 1
      /\ \A i \in 1..Len(Tail(queue)) : Tail(queue)[i] = queue[i + 1]
  BY <1>1, HeadTailProperties
<1>3. \A i \in 1..Len(Tail(queue)) : i + 1 \in 1..Len(queue) /\ i + 1 # 1
  BY <1>1, <1>2
<1>4. 1 \in 1..Len(queue)
  BY <1>1
<1>5. Head(queue).story \in running \ alive
  BY <1>1, <1>4 DEF InQueue
<1>6. ASSUME NEW i \in 1..Len(Tail(queue))
      PROVE  Tail(queue)[i].story \in (running \ {Head(queue).story}) \ alive
  <2>1. i + 1 \in 1..Len(queue) /\ i + 1 # 1 /\ Tail(queue)[i] = queue[i + 1]
    BY <1>2, <1>3
  <2>2. queue[i + 1].story # queue[1].story
    BY <2>1, <1>4 DEF InQueue
  <2> QED
    BY <2>1, <2>2, <1>1 DEF InQueue
<1>7. ASSUME NEW i \in 1..Len(Tail(queue)), NEW j \in 1..Len(Tail(queue)),
             Tail(queue)[i].story = Tail(queue)[j].story
      PROVE  i = j
  <2>1. i + 1 \in 1..Len(queue) /\ j + 1 \in 1..Len(queue)
    BY <1>3
  <2>2. queue[i + 1].story = queue[j + 1].story
    BY <1>2, <1>7
  <2>3. i + 1 = j + 1
    BY <2>1, <2>2 DEF InQueue
  <2> QED
    BY <2>3
<1> QED
  BY <1>2, <1>5, <1>6, <1>7

\* A completion is recorded, or its story is held back for its engine.
LEMMA TakeKeeps ==
  ASSUME Scheduled, Take
  PROVE  Scheduled'
<1> DEFINE s == Head(queue).story
           end == Head(queue).end
<1>1. /\ pc = "taking" /\ queue # <<>> /\ queue' = Tail(queue)
      /\ UNCHANGED <<environment, starvedAt, attempts>>
  BY DEF Take
<1>2. /\ Head(queue) \in Completions /\ queue' \in Seq(Completions) /\ s \in running \ alive
      /\ \A i \in 1..Len(queue') : queue'[i].story \in (running \ {s}) \ alive
      /\ \A i, j \in 1..Len(queue') : queue'[i].story = queue'[j].story => i = j
  BY <1>1, HeadOfQueue DEF Scheduled
<1>3. s \in Stories /\ end \in Ends /\ s \in UnderWay /\ UnderWay = running
  BY <1>1, <1>2 DEF Completions, UnderWay
<1>4. \/ /\ s \notin recovered /\ recovered' = recovered \cup {s} /\ current' = s
         /\ running' = running \ {s} /\ pc' = "recovering"
         /\ UNCHANGED <<outcomes, halted, alive>>
      \/ /\ halted' = (halted \/ end \in {"outage", "halt"}) /\ Record(s, end)
         /\ UNCHANGED <<recovered, current>>
  BY DEF Take, MayRecover, Without
<1> HIDE DEF s, end
<1> TypeOK
  BY DEF Scheduled
<1>5. CASE /\ s \notin recovered /\ recovered' = recovered \cup {s} /\ current' = s
           /\ running' = running \ {s} /\ pc' = "recovering"
           /\ UNCHANGED <<outcomes, halted, alive>>
  <2>1. Done' = Done /\ Failed' = Failed /\ Held' = Held /\ Settled' = Settled /\ RecordedOnce'
    BY <1>5, RecordedSame DEF Scheduled
  <2>2. UnderWay' = UnderWay
    BY <1>2, <1>3, <1>5 DEF UnderWay
  <2>3. TypeOK'
    <3>1. running' \subseteq Stories /\ alive' \subseteq running'
      BY <1>2, <1>5 DEF TypeOK
    <3> QED
      BY <1>1, <1>2, <1>3, <1>5, <3>1 DEF TypeOK, environment, Satisfied
  <2>4. Apart' /\ DependenciesDone' /\ DependentsSettled'
    BY <1>1, <2>1, <2>2 DEF Scheduled, Apart, DependenciesDone, DependentsSettled
  <2>5. InQueue'
    BY <1>2, <1>5 DEF InQueue
  <2>6. AbandonedEmpty' /\ Recovering' /\ NoReadyStoryForgotten' /\ AllSettled'
    BY <1>5 DEF AbandonedEmpty, Recovering, NoReadyStoryForgotten, AllSettled
  <2>7. ASSUME NEW t \in Stories
        PROVE  /\ attempts'[t] <= IF t \in recovered' THEN 2 ELSE 1
               /\ t \notin running' \cup Settled' =>
                     attempts'[t] <= IF t \in recovered' THEN 1 ELSE 0
    <3>1. /\ attempts' = attempts /\ attempts[t] \in Nat
          /\ attempts[t] <= IF t \in recovered THEN 2 ELSE 1
          /\ t \notin running \cup Settled => attempts[t] <= IF t \in recovered THEN 1 ELSE 0
      BY <1>1 DEF Scheduled, TypeOK, Attempted, RetriedOnce
    <3> QED
      BY <3>1, <1>5, <2>1
  <2>8. Attempted' /\ RetriedOnce'
    BY <2>7 DEF Attempted, RetriedOnce
  <2> QED
    BY <2>1, <2>3, <2>4, <2>5, <2>6, <2>8 DEF Scheduled
<1>6. CASE /\ halted' = (halted \/ end \in {"outage", "halt"}) /\ Record(s, end)
           /\ UNCHANGED <<recovered, current>>
  <2>1. halted' \in BOOLEAN /\ current' \in Stories \cup {NoStory}
    BY <1>6 DEF TypeOK
  <2>2. /\ TypeOK' /\ RecordedOnce' /\ Apart' /\ DependenciesDone' /\ DependentsSettled'
        /\ AbandonedEmpty' /\ Recovering' /\ Attempted' /\ RetriedOnce'
         /\ NoReadyStoryForgotten' /\ AllSettled'
    BY <1>1, <1>2, <1>3, <1>6, <2>1, RecordKeeps
  <2>3. pc' # "abandoned" => running' = running \ {s} /\ alive' = alive
    BY <1>6 DEF Record, Without
  <2>4. InQueue'
    BY <1>2, <2>3 DEF InQueue
  <2> QED
    BY <2>2, <2>4 DEF Scheduled
<1> QED
  BY <1>4, <1>5, <1>6

\* The story whose engine did not come back is recorded as failed.
LEMMA GiveUpKeeps ==
  ASSUME Scheduled, GiveUp
  PROVE  Scheduled'
<1>1. /\ pc = "recovering" /\ halted' = TRUE /\ Record(current, "outage") /\ current' = NoStory
      /\ UNCHANGED <<environment, queue, recovered, starvedAt, attempts>>
  BY DEF GiveUp
<1>2. current \in recovered \ running /\ current \in Stories \ alive /\ current \in UnderWay
  BY <1>1 DEF Scheduled, TypeOK, Recovering, UnderWay
<1>3. /\ halted' \in BOOLEAN /\ current' \in Stories \cup {NoStory}
      /\ queue' \in Seq(Completions) /\ "outage" \in Ends
  BY <1>1 DEF Scheduled, TypeOK, Ends
<1>4. /\ TypeOK' /\ RecordedOnce' /\ Apart' /\ DependenciesDone' /\ DependentsSettled'
      /\ AbandonedEmpty' /\ Recovering' /\ Attempted' /\ RetriedOnce'
         /\ NoReadyStoryForgotten' /\ AllSettled'
  BY <1>1, <1>2, <1>3, RecordKeeps
<1>5. pc' # "abandoned" => running' = running /\ alive' = alive
  BY <1>1, <1>2 DEF Record, Without
<1>6. InQueue'
  BY <1>1, <1>5 DEF Scheduled, InQueue
<1> QED
  BY <1>4, <1>6 DEF Scheduled

\* The steps that record nothing and start nothing.
LEMMA RecoverKeeps ==
  ASSUME Scheduled, Recover \/ Grown
  PROVE  Scheduled'
<1>1. /\ pc \in {"recovering", "taking"} /\ pc' = "launching"
      /\ current' \in {current, NoStory}
      /\ UNCHANGED <<environment, outcomes, running, alive, queue, halted, recovered,
                     starvedAt, attempts>>
  BY DEF Recover, Grown
<1>2. Done' = Done /\ Failed' = Failed /\ Held' = Held /\ Settled' = Settled /\ RecordedOnce'
  BY <1>1, RecordedSame DEF Scheduled
<1>3. UnderWay' \subseteq UnderWay
  BY <1>1 DEF UnderWay
<1>4. TypeOK'
  BY <1>1 DEF Scheduled, TypeOK, environment, Satisfied
<1>5. Apart' /\ DependenciesDone' /\ DependentsSettled'
  BY <1>1, <1>2, <1>3 DEF Scheduled, Apart, DependenciesDone, DependentsSettled
<1>6. AbandonedEmpty' /\ InQueue' /\ Recovering' /\ NoReadyStoryForgotten' /\ AllSettled'
  BY <1>1 DEF Scheduled, AbandonedEmpty, InQueue, Recovering, NoReadyStoryForgotten, AllSettled
<1>7. Attempted' /\ RetriedOnce'
  BY <1>1, <1>2 DEF Scheduled, Attempted, RetriedOnce
<1> QED
  BY <1>2, <1>4, <1>5, <1>6, <1>7 DEF Scheduled

\* The report puts the rest on hold.
LEMMA ReportKeeps ==
  ASSUME Scheduled, Report
  PROVE  Scheduled'
<1>1. /\ pc = "ending" /\ pc' = "reported" /\ running = {}
      /\ UNCHANGED <<environment, running, alive, queue, halted, recovered, starvedAt, current,
                     attempts>>
  BY DEF Report, Scheduled, AllSettled
<1>2. /\ outcomes' \in Seq(Outcomes) /\ RecordedOnce'
      /\ Settled' = Done' \cup Failed' \cup Held'
      /\ Done' = Done /\ Failed' = Failed
      /\ Held' = Held \cup (IF halted THEN Stories \ Settled ELSE {})
  BY ReportAdds DEF Scheduled
<1>3. Settled = Done \cup Failed \cup Held /\ Settled \subseteq Stories
  BY Recorded3 DEF Scheduled
<1>4. Settled \subseteq Settled' /\ (halted => Settled' = Stories)
  BY <1>2, <1>3
<1>5. TypeOK'
  BY <1>1, <1>2 DEF Scheduled, TypeOK, environment, Outcomes, Satisfied
<1>6. UnderWay' = {}
  BY <1>1 DEF UnderWay
<1>7. Apart'
  BY <1>6 DEF Apart
<1>8. DependenciesDone'
  BY <1>2, <1>6 DEF Scheduled, DependenciesDone
<1>9. DependentsSettled'
  <2>1. CASE halted
    BY <2>1, <1>4 DEF DependentsSettled
  <2>2. CASE ~halted
    BY <2>2, <1>1, <1>2, <1>4 DEF Scheduled, DependentsSettled
  <2> QED
    BY <2>1, <2>2
<1>10. AbandonedEmpty' /\ InQueue' /\ Recovering' /\ NoReadyStoryForgotten' /\ AllSettled'
  BY <1>1 DEF Scheduled, AbandonedEmpty, InQueue, Recovering, NoReadyStoryForgotten, AllSettled
<1>11. Attempted' /\ RetriedOnce'
  BY <1>1, <1>4 DEF Scheduled, Attempted, RetriedOnce
<1> QED
  BY <1>2, <1>5, <1>7, <1>8, <1>9, <1>10, <1>11 DEF Scheduled

-----------------------------------------------------------------------------
(* The stories and the round.                                              *)

\* A fiber that ends offers one completion, after those already queued.
LEMMA EndStoryKeeps ==
  ASSUME Scheduled, NEW s \in Stories, EndStory(s)
  PROVE  Scheduled'
<1>1. /\ s \in alive /\ s \in running /\ alive' = alive \ {s}
      /\ UNCHANGED <<environment, loop, running, attempts>>
  BY DEF EndStory, Scheduled, TypeOK
<1>2. PICK end \in Ends : queue' = Append(queue, [story |-> s, end |-> end])
  BY DEF EndStory
<1>3. queue \in Seq(Completions) /\ [story |-> s, end |-> end] \in Completions
  BY DEF Completions, Scheduled, TypeOK
<1>4. /\ queue' \in Seq(Completions) /\ Len(queue) \in Nat /\ Len(queue') = Len(queue) + 1
      /\ \A i \in 1..Len(queue) : queue'[i] = queue[i]
      /\ queue'[Len(queue) + 1].story = s
  BY <1>2, <1>3, AppendProperties, LenProperties
<1>5. pc # "abandoned" => \A i \in 1..Len(queue) : queue[i].story \in running \ alive
  BY DEF Scheduled, InQueue
<1>6. UNCHANGED <<pc, outcomes, halted, recovered, starvedAt, current>>
  BY <1>1 DEF loop
<1>7. Done' = Done /\ Failed' = Failed /\ Held' = Held /\ Settled' = Settled /\ RecordedOnce'
  BY <1>6, RecordedSame DEF Scheduled
<1>8. TypeOK'
  BY <1>1, <1>4, <1>6 DEF Scheduled, TypeOK, environment, Satisfied
<1>9. UnderWay' = UnderWay /\ Ready' = Ready
  BY <1>1, <1>6, <1>7 DEF UnderWay, Ready
<1>10. Apart' /\ DependenciesDone' /\ DependentsSettled'
  BY <1>6, <1>7, <1>9 DEF Scheduled, Apart, DependenciesDone, DependentsSettled
<1>11. AbandonedEmpty' /\ Recovering' /\ NoReadyStoryForgotten' /\ AllSettled'
  BY <1>1, <1>6, <1>7, <1>9 DEF Scheduled, AbandonedEmpty, Recovering, NoReadyStoryForgotten, AllSettled
<1>12. Attempted' /\ RetriedOnce'
  BY <1>1, <1>6, <1>7 DEF Scheduled, Attempted, RetriedOnce
<1>13. \A i \in 1..Len(queue') : i \in 1..Len(queue) \/ i = Len(queue) + 1
  BY <1>4
<1>14. InQueue'
  <2>1. ASSUME pc # "abandoned", NEW i \in 1..Len(queue')
        PROVE  queue'[i].story \in running' \ alive'
    BY <2>1, <1>1, <1>4, <1>5, <1>13
  <2>2. pc # "abandoned"
    <3>1. SUFFICES ASSUME pc = "abandoned"
                   PROVE  FALSE
      OBVIOUS
    <3> QED
      BY <3>1, <1>1 DEF Scheduled, AbandonedEmpty
  <2>3. \A i \in 1..Len(queue) : queue[i].story # s
    BY <2>2, <1>1, <1>5
  <2>4. ASSUME NEW i \in 1..Len(queue'), NEW j \in 1..Len(queue'),
               queue'[i].story = queue'[j].story
        PROVE  i = j
    <3>1. CASE i \in 1..Len(queue) /\ j \in 1..Len(queue)
      BY <2>4, <3>1, <1>4 DEF Scheduled, InQueue
    <3>2. CASE i = Len(queue) + 1 \/ j = Len(queue) + 1
      BY <2>3, <2>4, <3>2, <1>4, <1>13
    <3> QED
      BY <3>1, <3>2, <1>13
  <2> QED
    BY <2>1, <2>4, <1>6 DEF InQueue
<1> QED
  BY <1>7, <1>8, <1>10, <1>11, <1>12, <1>14 DEF Scheduled

\* The capacity of the round is nothing the loop has decided on yet.
LEMMA CapacityKeeps ==
  ASSUME Scheduled, ChangeCapacity
  PROVE  Scheduled'
<1>1. /\ capacity' \in 0..MaxCapacity /\ changesLeft > 0 /\ changesLeft' = changesLeft - 1
      /\ UNCHANGED <<options, loop, running, alive, queue, attempts>>
  BY DEF ChangeCapacity
<1>2. UNCHANGED <<pc, outcomes, halted, recovered, starvedAt, current>>
  BY <1>1 DEF loop
<1>3. Done' = Done /\ Failed' = Failed /\ Held' = Held /\ Settled' = Settled /\ RecordedOnce'
  BY <1>2, RecordedSame DEF Scheduled
<1>4. TypeOK'
  <2>1. changesLeft' \in 0..MaxCapacityChanges
    BY <1>1, BoundsAssumption DEF Scheduled, TypeOK
  <2> QED
    BY <2>1, <1>1, <1>2 DEF Scheduled, TypeOK, Satisfied
<1>5. UnderWay' = UnderWay /\ Ready' = Ready
  BY <1>1, <1>2, <1>3 DEF UnderWay, Ready
<1>6. Apart' /\ DependenciesDone' /\ DependentsSettled'
  BY <1>2, <1>3, <1>5 DEF Scheduled, Apart, DependenciesDone, DependentsSettled
<1>7. AbandonedEmpty' /\ Recovering' /\ NoReadyStoryForgotten' /\ AllSettled'
  BY <1>1, <1>2, <1>3, <1>5 DEF Scheduled, AbandonedEmpty, Recovering, NoReadyStoryForgotten, AllSettled
<1>8. Attempted' /\ RetriedOnce' /\ InQueue'
  BY <1>1, <1>2, <1>3 DEF Scheduled, Attempted, RetriedOnce, InQueue
<1> QED
  BY <1>3, <1>4, <1>6, <1>7, <1>8 DEF Scheduled

-----------------------------------------------------------------------------
(* The invariant holds in every behaviour.                                 *)

\* At the start nothing is recorded and nothing runs.
LEMMA ScheduledAtFirst == Init => Scheduled
<1> SUFFICES ASSUME Init PROVE Scheduled
  OBVIOUS
<1>1. /\ outcomes = <<>> /\ queue = <<>> /\ Len(outcomes) = 0 /\ Len(queue) = 0
      /\ running = {} /\ alive = {} /\ recovered = {} /\ pc = "launching" /\ halted = FALSE
      /\ attempts = [s \in Stories |-> 0] /\ current = NoStory /\ starvedAt = Satisfied
  BY EmptySeq DEF Init
<1>2. outcomes \in Seq(Outcomes) /\ queue \in Seq(Completions)
  BY <1>1, EmptySeq
<1>3. TypeOK
  <2>1. /\ capacity \in 0..MaxCapacity /\ changesLeft \in 0..MaxCapacityChanges
        /\ options \in [roster : BOOLEAN, failFast : BOOLEAN, awaitRecovery : BOOLEAN]
    BY BoundsAssumption DEF Init
  <2>2. attempts \in [Stories -> Nat]
    BY <1>1
  <2> QED
    BY <1>1, <1>2, <2>1, <2>2 DEF TypeOK, Outcomes
<1>4. RecordedOnce
  BY <1>1 DEF RecordedOnce
<1>5. Named(outcomes) = {}
  BY <1>1 DEF Named
<1>6. Settled = {} /\ Done = {} /\ Failed = {} /\ Held = {}
  BY <1>3, <1>4, <1>5, Recorded3 DEF Reads
<1>7. UnderWay = {}
  BY <1>1 DEF UnderWay
<1>8. Apart /\ DependenciesDone /\ DependentsSettled
  BY <1>6, <1>7 DEF Apart, DependenciesDone, DependentsSettled
<1>9. AbandonedEmpty /\ InQueue /\ Recovering /\ Attempted /\ RetriedOnce
  BY <1>1 DEF AbandonedEmpty, InQueue, Recovering, Attempted, RetriedOnce
<1>10. NoReadyStoryForgotten /\ AllSettled
  BY <1>1 DEF NoReadyStoryForgotten, AllSettled
<1> QED
  BY <1>3, <1>4, <1>8, <1>9, <1>10 DEF Scheduled

\* Every step keeps it.
LEMMA ScheduledNext == Scheduled /\ [Next]_vars => Scheduled'
<1> SUFFICES ASSUME Scheduled, [Next]_vars PROVE Scheduled'
  OBVIOUS
<1>1. CASE Launch
  BY <1>1, LaunchKeeps
<1>2. CASE Grown \/ Recover
  BY <1>2, RecoverKeeps
<1>3. CASE Take
  BY <1>3, TakeKeeps
<1>4. CASE GiveUp
  BY <1>4, GiveUpKeeps
<1>5. CASE Report
  BY <1>5, ReportKeeps
<1>6. CASE \E s \in Stories : EndStory(s)
  BY <1>6, EndStoryKeeps
<1>7. CASE ChangeCapacity
  BY <1>7, CapacityKeeps
<1>8. CASE UNCHANGED vars
  <2>1. /\ UNCHANGED <<options, pc, outcomes, running, alive, queue, halted>>
        /\ UNCHANGED <<recovered, starvedAt, current, capacity, changesLeft, attempts>>
    BY <1>8 DEF vars
  <2>2. Done' = Done /\ Failed' = Failed /\ Held' = Held /\ Settled' = Settled /\ RecordedOnce'
    BY <2>1, RecordedSame DEF Scheduled
  <2>3. TypeOK'
    BY <2>1 DEF Scheduled, TypeOK, Satisfied
  <2>4. UnderWay' = UnderWay /\ Ready' = Ready
    BY <2>1, <2>2 DEF UnderWay, Ready
  <2>5. Apart' /\ DependenciesDone' /\ DependentsSettled'
    BY <2>1, <2>2, <2>4 DEF Scheduled, Apart, DependenciesDone, DependentsSettled
  <2>6. AbandonedEmpty' /\ InQueue' /\ Recovering' /\ Attempted' /\ RetriedOnce'
    BY <2>1, <2>2 DEF Scheduled, AbandonedEmpty, InQueue, Recovering, Attempted, RetriedOnce
  <2>7. NoReadyStoryForgotten' /\ AllSettled'
    BY <2>1, <2>2, <2>4 DEF Scheduled, NoReadyStoryForgotten, AllSettled
  <2> QED
    BY <2>2, <2>3, <2>5, <2>6, <2>7 DEF Scheduled
<1> QED
  BY <1>1, <1>2, <1>3, <1>4, <1>5, <1>6, <1>7, <1>8 DEF Next, Loop

\* The scheduler is in its inductive invariant in every reachable state.
THEOREM AlwaysScheduled == Spec => []Scheduled
  BY ScheduledAtFirst, ScheduledNext, PTL DEF Spec

\* Every variable keeps its type, whatever the plan and the capacity.
THEOREM TypeCorrect == Spec => []TypeOK
<1>1. Scheduled => TypeOK
  BY DEF Scheduled
<1> QED
  BY <1>1, AlwaysScheduled, PTL

\* No story of a plan gets a second outcome: what is recorded, put on hold by a
\* failure, or by the report, had none before.
THEOREM OneOutcome == Spec => []RecordedOnce
<1>1. Scheduled => RecordedOnce
  BY DEF Scheduled
<1> QED
  BY <1>1, AlwaysScheduled, PTL

\* A story starts at most twice, the second time after an outage waited out.
THEOREM RetriesBounded == Spec => []RetriedOnce
<1>1. Scheduled => RetriedOnce
  BY DEF Scheduled
<1> QED
  BY <1>1, AlwaysScheduled, PTL

\* While the loop waits for a completion only, it runs as many of the ready
\* stories as the options allow.
THEOREM NoneForgotten == Spec => []NoReadyStoryForgotten
<1>1. Scheduled => NoReadyStoryForgotten
  BY DEF Scheduled
<1> QED
  BY <1>1, AlwaysScheduled, PTL

-----------------------------------------------------------------------------
(* A step launches within the limit.                                       *)

\* Only a launch adds to what runs, and it fills the slots that are free.
LEMMA LaunchWithinLimit ==
  ASSUME TypeOK, [Next]_vars
  PROVE  running' \subseteq running \/ Cardinality(running') <= Higher(1, Limit)
<1>1. CASE Launch
  <2>1. CASE halted
    BY <1>1, <2>1 DEF Launch
  <2>2. CASE ~halted
    <3>1. running' = running \cup FirstReady
      BY <1>1, <2>2 DEF Launch
    <3>2. Cardinality(running') <= Cardinality(running) + Slots
      BY <3>1, Launched
    <3>3. CASE running = {}
      <4>1. Cardinality(running) = 0
        BY <3>3, FS_EmptySet
      <4>2. Slots = Higher(1, Limit)
        BY <3>3, <4>1, Launched DEF Slots, Budget, Higher
      <4>3. Cardinality(running') <= Slots
        <5>1. Cardinality(running') = Cardinality(running) + Cardinality(FirstReady)
          BY <3>1, Launched
        <5> QED
          BY <5>1, <4>1, Launched
      <4> QED
        BY <4>2, <4>3
    <3>4. CASE running # {} /\ Limit <= Cardinality(running)
      <4>1. Slots = 0
        BY <3>4, Launched DEF Slots, Budget, Higher
      <4>2. Cardinality(FirstReady) = 0 /\ IsFiniteSet(FirstReady)
        <5>1. Cardinality(FirstReady) = 0
          BY <4>1, Launched
        <5>2. FirstReady \in SUBSET Stories
          BY Launched
        <5> QED
          BY <5>1, <5>2, PlanAssumption, FS_Subset
      <4>3. FirstReady = {}
        BY <4>2, FS_EmptySet
      <4> QED
        BY <3>1, <4>3
    <3>5. CASE running # {} /\ Limit > Cardinality(running)
      <4>1. Slots = Limit - Cardinality(running)
        BY <3>5, Launched DEF Slots, Budget, Higher
      <4>2. Cardinality(running') = Cardinality(running) + Cardinality(FirstReady)
        BY <3>1, Launched
      <4> QED
        BY <4>1, <4>2, Launched DEF Higher
    <3> QED
      BY <3>3, <3>4, <3>5, Launched
  <2> QED
    BY <2>1, <2>2
<1>2. CASE Take \/ GiveUp
  BY <1>2 DEF Take, GiveUp, Record, Without
<1>3. CASE Grown \/ Recover \/ Report
  BY <1>3 DEF Grown, Recover, Report
<1>4. CASE (\E s \in Stories : EndStory(s)) \/ ChangeCapacity \/ UNCHANGED vars
  BY <1>4 DEF EndStory, ChangeCapacity, vars
<1> QED
  BY <1>1, <1>2, <1>3, <1>4 DEF Next, Loop

\* No step takes the stories that run above what options and round allow,
\* except the one that starts when none runs.
THEOREM LaunchesBounded == Spec => LaunchesWithinLimit
<1>1. TypeOK /\ [Next]_vars =>
          [running' \subseteq running \/ Cardinality(running') <= Higher(1, Limit)]_vars
  BY LaunchWithinLimit
<1> QED
  BY <1>1, TypeCorrect, PTL DEF Spec, LaunchesWithinLimit

-----------------------------------------------------------------------------
(* The scheduler implements EpicOutcome.                                   *)

\* The verdict of a story, as the model gives it.
VerdictIs(s) ==
    IF s \in Done THEN "done" ELSE IF s \in Failed THEN "failed"
    ELSE IF s \in Held THEN "waiting" ELSE "none"

\* The first outcome of a story is the one that is recorded of it.
LEMMA VerdictsAre ==
  ASSUME TypeOK, RecordedOnce
  PROVE  Verdicts = [s \in Stories |-> VerdictIs(s)]
<1>1. Reads(outcomes, Done, Failed, Held)
  BY Recorded3
<1>2. \A s \in Stories : Verdict(s) = ReadVerdict(outcomes, s)
  BY DEF Verdict, ReadVerdict, Settled
<1>3. \A s \in Stories : ReadVerdict(outcomes, s) = VerdictIs(s)
  BY <1>1, VerdictRead DEF VerdictIs
<1> QED
  BY <1>2, <1>3 DEF Verdicts

\* The same of the next state.
LEMMA VerdictsNext ==
  ASSUME TypeOK', RecordedOnce'
  PROVE  Verdicts' = [s \in Stories |-> VerdictIs(s)']
<1>1. outcomes' \in Seq(Outcomes) /\ Once(outcomes')
  BY DEF TypeOK, RecordedOnce, Outcomes, Once
<1>2. /\ Settled' = Named(outcomes') /\ Done' = With(outcomes', "done")
      /\ Failed' = With(outcomes', "failed") /\ Held' = With(outcomes', "waiting")
  BY <1>1, ReadOutcomes DEF Settled, Done, Failed, Held, Recorded
<1>3. Reads(outcomes', Done', Failed', Held')
  BY <1>1, <1>2, NamedWith DEF Reads
<1>4. \A s \in Stories : Verdict(s)' = ReadVerdict(outcomes', s)
  BY DEF Verdict, ReadVerdict, Settled
<1>5. \A s \in Stories : ReadVerdict(outcomes', s) = VerdictIs(s)'
  BY <1>3, VerdictRead DEF VerdictIs
<1> QED
  BY <1>4, <1>5 DEF Verdicts

\* A step that records nothing and leaves the stage alone shows nothing.
LEMMA ShowsNothing ==
  ASSUME UNCHANGED <<outcomes, halted>>, Stage' = Stage
  PROVE  UNCHANGED Promise!vars
<1>1. \A s \in Stories : Verdict(s)' = Verdict(s)
  BY DEF Verdict, Settled
<1>2. Verdicts' = Verdicts
  BY <1>1 DEF Verdicts
<1> QED
  BY <1>2 DEF Promise!vars

\* The story that ends had no verdict and all it waits for is done.
LEMMA EndsAllowed ==
  ASSUME Scheduled, NEW s \in UnderWay, s \in Stories, pc \in {"taking", "recovering"}
  PROVE  Promise!MayEnd(s)
<1>1. s \notin Settled /\ DependsOn[s] \subseteq Done
  BY DEF Scheduled, Apart, DependenciesDone
<1>2. Settled = Done \cup Failed \cup Held /\ Done \subseteq Stories
  BY Recorded3 DEF Scheduled
<1>3. Verdicts = [t \in Stories |-> VerdictIs(t)]
  BY VerdictsAre DEF Scheduled
<1>4. Stage \in {"open", "stopped"}
  BY DEF Stage
<1>5. Verdicts[s] = "none"
  BY <1>1, <1>2, <1>3 DEF VerdictIs
<1>6. \A d \in DependsOn[s] : Verdicts[d] = "done"
  BY <1>1, <1>2, <1>3 DEF VerdictIs
<1> QED
  BY <1>4, <1>5, <1>6 DEF Promise!MayEnd

\* Recording an end finishes a story, breaks it, or abandons the epic.
LEMMA RecordRefines ==
  ASSUME Scheduled, Scheduled', NEW s \in UnderWay, s \in Stories, NEW end \in Ends,
         Record(s, end), pc \in {"taking", "recovering"}, halted' \in {halted, TRUE},
         end = "done" => halted' = halted
  PROVE  Promise!Next
<1> TypeOK /\ RecordedOnce /\ TypeOK' /\ RecordedOnce'
  BY DEF Scheduled
<1>1. Promise!MayEnd(s) /\ s \in Stories \ Settled
  BY EndsAllowed DEF Scheduled, Apart
<1>2. Settled = Done \cup Failed \cup Held /\ Done \cap Failed = {} /\ Done \cap Held = {}
      /\ Failed \cap Held = {}
  BY Recorded3
<1>3. Verdicts = [t \in Stories |-> VerdictIs(t)] /\ Verdicts' = [t \in Stories |-> VerdictIs(t)']
  BY VerdictsAre, VerdictsNext
<1>4. Stage = IF halted THEN "stopped" ELSE "open"
  BY DEF Stage
<1>5. CASE end = "done"
  <2>1. Done' = Done \cup {s} /\ Failed' = Failed /\ Held' = Held
    BY <1>1, <1>5, RecordAdds
  <2>2. Verdicts' = [Verdicts EXCEPT ![s] = "done"]
    BY <1>1, <1>2, <1>3, <2>1 DEF VerdictIs
  <2>3. pc' = "launching" /\ Stage' = Stage
    BY <1>4, <1>5 DEF Record, Stage
  <2> QED
    BY <1>1, <2>2, <2>3 DEF Promise!Next, Promise!Finish
<1>6. CASE end # "done" /\ options.failFast
  <2>1. Done' = Done /\ Failed' = Failed \cup {s} /\ Held' = Held
    BY <1>1, <1>6, RecordAdds
  <2>2. Verdicts' = [Verdicts EXCEPT ![s] = "failed"]
    BY <1>1, <1>2, <1>3, <2>1 DEF VerdictIs
  <2>3. Stage' = "abandoned"
    BY <1>6 DEF Record, Stage
  <2> QED
    BY <1>1, <1>4, <2>2, <2>3 DEF Promise!Next, Promise!Abandon
<1>7. CASE end # "done" /\ ~options.failFast
  <2>1. Done' = Done /\ Failed' = Failed \cup {s} /\ Held' = Held \cup HeldBy(s)
    BY <1>1, <1>7, RecordAdds
  <2>2. Promise!DependentsOf(s) = DependentsOf(s)
    BY DEF Promise!DependentsOf, Promise!Upward, DependentsOf, Upward
  <2>3. Verdicts' = [t \in Stories |->
           IF t = s THEN "failed"
           ELSE IF t \in DependentsOf(s) /\ Verdicts[t] = "none" THEN "waiting" ELSE Verdicts[t]]
    <3>1. ASSUME NEW t \in Stories
          PROVE  VerdictIs(t)' = IF t = s THEN "failed"
                                 ELSE IF t \in DependentsOf(s) /\ Verdicts[t] = "none"
                                 THEN "waiting" ELSE Verdicts[t]
      <4>1. Verdicts[t] = VerdictIs(t)
        BY <1>3
      <4>2. VerdictIs(t) = "none" <=> t \notin Settled
        BY <1>2 DEF VerdictIs
      <4>3. t \in HeldBy(s) <=> t \in DependentsOf(s) /\ t \notin Settled
        BY DEF HeldBy
      <4> QED
        BY <1>1, <1>2, <2>1, <4>1, <4>2, <4>3 DEF VerdictIs
    <3> QED
      BY <1>3, <3>1
  <2>4. pc' = "launching"
    BY <1>7 DEF Record
  <2>5. Stage' = IF halted' THEN "stopped" ELSE "open"
    BY <2>4 DEF Stage
  <2>6. Stage' \in {Stage, "stopped"}
    <3>1. CASE halted' = halted
      <4>1. Stage' = Stage
        BY <1>4, <2>5, <3>1
      <4> QED
        BY <4>1
    <3>2. CASE halted' = TRUE
      BY <2>5, <3>2
    <3> QED
      BY <3>1, <3>2
  <2> QED
    BY <1>1, <2>2, <2>3, <2>6 DEF Promise!Next, Promise!Break
<1> QED
  BY <1>5, <1>6, <1>7

\* The report gives every story its verdict, and leaves none out of an epic
\* that was not stopped.
LEMMA ReportRefines ==
  ASSUME Scheduled, Scheduled', Report
  PROVE  Promise!Next
<1> TypeOK /\ RecordedOnce /\ TypeOK' /\ RecordedOnce'
  BY DEF Scheduled
<1>1. /\ Done' = Done /\ Failed' = Failed
      /\ Held' = Held \cup (IF halted THEN Stories \ Settled ELSE {})
  BY ReportAdds
<1>2. Settled = Done \cup Failed \cup Held /\ Done \cap Failed = {} /\ Done \cap Held = {}
      /\ Failed \cap Held = {}
  BY Recorded3
<1>3. Verdicts = [t \in Stories |-> VerdictIs(t)] /\ Verdicts' = [t \in Stories |-> VerdictIs(t)']
  BY VerdictsAre, VerdictsNext
<1>4. pc = "ending" /\ pc' = "reported" /\ (halted \/ Settled = Stories)
  BY DEF Report, Scheduled, AllSettled
<1>5. Stage = (IF halted THEN "stopped" ELSE "open") /\ Stage' = "over"
  BY <1>4 DEF Stage
<1>6. \A t \in Stories : VerdictIs(t) = "none" <=> t \notin Settled
  BY <1>2 DEF VerdictIs
<1>7. Stage = "stopped" \/ (Stage = "open" /\ \A t \in Stories : Verdicts[t] # "none")
  BY <1>3, <1>4, <1>5, <1>6
<1>8. ASSUME NEW t \in Stories
      PROVE  VerdictIs(t)' = IF Verdicts[t] = "none" THEN "waiting" ELSE Verdicts[t]
  <2>1. Verdicts[t] = VerdictIs(t)
    BY <1>3
  <2>2. CASE t \in Settled
    BY <2>1, <2>2, <1>1, <1>2 DEF VerdictIs
  <2>3. CASE t \notin Settled
    BY <2>1, <2>3, <1>1, <1>2, <1>4 DEF VerdictIs
  <2> QED
    BY <2>2, <2>3
<1>9. Verdicts' = [t \in Stories |-> IF Verdicts[t] = "none" THEN "waiting" ELSE Verdicts[t]]
  BY <1>3, <1>8
<1> QED
  BY <1>5, <1>7, <1>9 DEF Promise!Next, Promise!Report

\* Every step of the scheduler is a step of the promise, or shows nothing.
LEMMA StepRefines ==
  ASSUME Scheduled, Scheduled', [Next]_vars
  PROVE  [Promise!Next]_(Promise!vars)
<1>1. CASE Launch
  <2>1. UNCHANGED <<outcomes, halted>> /\ Stage' = Stage
    BY <1>1 DEF Launch, Stage
  <2> QED
    BY <2>1, ShowsNothing
<1>2. CASE Grown \/ Recover
  <2>1. UNCHANGED <<outcomes, halted>> /\ Stage' = Stage
    BY <1>2 DEF Grown, Recover, Stage
  <2> QED
    BY <2>1, ShowsNothing
<1>3. CASE Take
  <2> DEFINE s == Head(queue).story
             end == Head(queue).end
  <2>1. pc = "taking" /\ s \in running /\ s \in Stories /\ end \in Ends
    BY <1>3, HeadOfQueue DEF Take, Scheduled, Completions
  <2>2. \/ pc' = "recovering" /\ UNCHANGED <<outcomes, halted>>
        \/ halted' = (halted \/ end \in {"outage", "halt"}) /\ Record(s, end)
    BY <1>3 DEF Take
  <2>3. CASE pc' = "recovering" /\ UNCHANGED <<outcomes, halted>>
    <3>1. Stage' = Stage
      BY <2>1, <2>3 DEF Stage
    <3> QED
      BY <2>3, <3>1, ShowsNothing
  <2>4. CASE halted' = (halted \/ end \in {"outage", "halt"}) /\ Record(s, end)
    <3>1. s \in UnderWay
      BY <2>1 DEF UnderWay
    <3>2. halted' \in {halted, TRUE} /\ (end = "done" => halted' = halted)
      BY <2>4 DEF Scheduled, TypeOK
    <3> HIDE DEF s, end
    <3> QED
      BY <2>1, <2>4, <3>1, <3>2, RecordRefines
  <2> QED
    BY <2>2, <2>3, <2>4
<1>4. CASE GiveUp
  <2>1. pc = "recovering" /\ halted' = TRUE /\ Record(current, "outage")
    BY <1>4 DEF GiveUp
  <2>2. current \in UnderWay /\ current \in Stories /\ "outage" \in Ends
    BY <2>1 DEF UnderWay, Ends, Scheduled, Recovering, TypeOK
  <2> QED
    BY <2>1, <2>2, RecordRefines
<1>5. CASE Report
  BY <1>5, ReportRefines
<1>6. CASE (\E s \in Stories : EndStory(s)) \/ ChangeCapacity \/ UNCHANGED vars
  <2>1. UNCHANGED <<outcomes, halted, pc>>
    BY <1>6 DEF EndStory, ChangeCapacity, vars, loop
  <2>2. Stage' = Stage
    BY <2>1 DEF Stage
  <2> QED
    BY <2>1, <2>2, ShowsNothing
<1> QED
  BY <1>1, <1>2, <1>3, <1>4, <1>5, <1>6 DEF Next, Loop

\* A run of an epic keeps what EpicOutcome promises of its stories: verdicts are
\* final, only what waits for nothing undone comes to an end of its own, and a
\* report has a verdict for every story.
THEOREM PromiseKept == Spec => KeepsPromise
<1>1. Init => Promise!Init
  <2> SUFFICES ASSUME Init PROVE Promise!Init
    OBVIOUS
  <2>1. Scheduled /\ Stage = "open"
    BY ScheduledAtFirst DEF Init, Stage
  <2>2. Len(outcomes) = 0
    BY EmptySeq DEF Init
  <2>3. Done = {} /\ Failed = {} /\ Held = {}
    BY <2>1, <2>2, Recorded3 DEF Scheduled, Reads, Named
  <2>4. Verdicts = [s \in Stories |-> "none"]
    BY <2>1, <2>3, VerdictsAre DEF Scheduled, VerdictIs
  <2> QED
    BY <2>1, <2>4 DEF Promise!Init
<1>2. Scheduled /\ Scheduled' /\ [Next]_vars => [Promise!Next]_(Promise!vars)
  BY StepRefines
<1> QED
  BY <1>1, <1>2, AlwaysScheduled, PTL DEF Spec, KeepsPromise, Promise!Spec
=============================================================================
