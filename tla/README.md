# A formal model of llm4ts

llm4ts runs coding agents: *flows* take a plan, lease model executors, let them
write code in git worktrees, judge and gate what they wrote, and merge it. This
directory models the part where things can go wrong between concurrent fibers,
files that outlive a run, and merges that are undone: TLA+ modules, TLC
configurations, and theorems that the TLA+ proof system (TLAPS) checks.
`PROJECT.json` lists the components, the runs, the mutants, the hazards, the
theorems, and for every definition the lines it was written from. Paths below
are relative to the repository's root.

## 1. The system and its parts

The code is TypeScript on the Effect library: one JavaScript thread, many fibers.
A fiber runs without interruption until it awaits something (a file, a process,
a model, a `Deferred`, a `Queue`, a semaphore), so **a step of every model is what
a fiber does between two awaits**.

| Component (`packages/...`) | State it keeps | Operations | Talks to | Hard behaviour |
| --- | --- | --- | --- | --- |
| Executor roster, `flow/src/Roster.ts` | per executor: busy slots, coder slots, clone numbers, lastLeased, exclusion; one wake-up `Deferred` | `lease`, `tryLease`, `report`, `pause`, `resume`, `available`, `capacity`, probes | scheduler (capacity), seats, state file, events | waiting without losing a wake-up; probes that answer late; coders that wait for reasoning slots while they hold slots; interruption |
| Roster seats, `flow/src/RosterSeats.ts` | the coder a story holds, its handovers | reasoning call, move to another executor, handover | roster | a failure between lease and release; a handover that waits; two calls that fail together |
| Epic scheduler, `flow/src/Stories.ts` (`implementStories`), `StoryPlan.ts` | outcomes, running stories, completion queue, halted, recovered, starvedAt | launch, take, recover, report | story fibers, roster | a race of the queue with capacity; outages retried once; failFast |
| Story merge, `flow/src/Stories.ts` (`implementStory`, `prepareWorktree`, `integrate`) | epic branch, story branches, state files, `mergeLock` | start, catch up, code, judge, merge, gate, keep, undo | git, gates, baselines | merges undone under others; a crash anywhere; reruns |
| Gate baselines, `flow/src/GateTriage.ts` | `gates/baselines.json` | ensure, read, write, triage | story merge | unlocked read-modify-write of one file |
| Task graph of a story, `flow/src/PlanExecution.ts`, `Plan.ts`, `Stories.ts` (`runAside`) | done, running, handed back, conflicted, home semaphore, plan file | schedule, take, complete; task at home or aside, merge back | plan file, story branch | which tasks run side by side; merges into a shared worktree; reruns |
| Review loop, `flow/src/Review.ts`, `Recheck.ts`, and the story review of `Stories.ts` | the reviewers' memory on disk, rounds, answers | gates, plan of a round, review, remember, fix, revision | story, coder, reviewers | restarts at any point; who need not be asked again; stale verdicts; rounds that never converge |
| Run supervisor, `shell/src/RunSupervisor.ts` | append-only run registry; live, launching and stopping runs | start, list, get, stop, watch, escalate, close | detached processes, clients | calls cancelled at any await; stale readings; stops that outlive their caller; server crashes and restarts |
| Work queue, `flow/src/WorkQueue.ts` | ledger of items | rounds, shards | files | a round cut short |
| Graph worklist, `flow/src/GraphWorklist.ts` | visited nodes | next, mark | code graph | pure |
| Transient retry and usage limits, `flow/src/TransientRetry.ts`, `core/src/UsageLimits.ts` | attempts | classify, retry | model calls | bounded retries |
| Blackboard, `core/src/blackboard` | facts | apply rules | | fixpoint |
| Flow events, `flow/src/FlowEvents.ts` | bounded hub | publish, drain | every component | back-pressure on publishers |
| Others: boards and trackers, guards, ledgers, providers, endpoint clients, shell, runner, tools | | | | input and output, prose, or pure functions on documents |

What makes each correct:

* **Roster**: its counters are the slots really taken; no executor is
  oversubscribed; clones are distinct; a reasoning call is independent of the
  coder it judges unless the lease says why not; a context that holds a capable
  coder is never told that nobody can serve it; everybody who waits is woken.
* **Scheduler**: each story has one outcome; nothing starts before its
  dependencies are done, above the limit, or twice; what depends on a failure
  waits; the run ends.
* **Story merge**: what is called done is on the epic branch, and stays; the
  head is left green; a story answers for its own red lines only; every story
  settles.
* **Baselines**: what is recorded of a commit is of that commit, and is kept.
* **Task graph**: a completed task has its work on the branch; a coder finds
  what its task depends on; one coder or merge at a time in the story's
  worktree; coders aside own disjoint files; the plan is not given up as stuck.
* **Supervisor**: the registry calls a run ended once, for good, and only when
  its process is gone; writing runs stay within the limit; one process per
  request id; one SIGINT per run; a stop is seen through.
* **Story review**: what is merged was cleared by the judge as the tasks left it
  and was shown to every lens it concerns; a re-check follows a fix; it ends.

How they meet: the scheduler launches one fiber per story. A story leases its
coder from the roster for its lifetime and a reasoning slot for each judgement;
runs its tasks through the task graph in its worktree; catches up with the epic
branch, compares its gates with the baselines, and merges under `mergeLock`.
The roster's `capacity` limits how many stories start. Within a story, the review
loop runs after its tasks and before its merge, and a merge that is undone sends
the story back through both. The supervisor stands outside: each of its runs is
a process that runs one flow.

## 2. The modules

| Module | Models | Lines of behaviour |
| --- | --- | --- |
| `Roster` | the executor roster and the seats of its contexts | contexts lease, wait, probe, are woken, call, fail, move, hand over, end, are interrupted; exclusions come and go |
| `EpicOutcome` | abstract: what a run of an epic promises of its stories | a verdict per story, final; four stages |
| `StoryScheduler` | the main loop of `implementStories` | implements `EpicOutcome` through `Promise` |
| `StoryMerge` | the way of each story onto the epic branch, and the baselines | one action per stretch of a story's fiber between awaits, over several runs |
| `StoryReview` | one story from `prepareWorktree` through its review to its merge | the same, over several runs cut off anywhere, and edits of its entry |
| `TaskGraph` | the tasks of one story, at home and aside | the loop's actions and those of a task's fiber, over several runs |
| `RunLife` | abstract: what the registry of runs promises its readers | a life and a process per run |
| `RunSupervisor` | `makeRunSupervisor` and the children it starts | implements `RunLife` through `Promise` |
| `RosterProofs`, `RosterProgressProofs`, `StorySchedulerProofs`, `StoryMergeProofs`, `StoryReviewProofs`, `TaskGraphProofs`, `RunSupervisorProofs` | theorems about those modules | |
| `MCRoster`, `MCStoryMerge`, `MCStoryReview`, `MCStoryScheduler`, `MCTaskGraph`, `MCRunSupervisor` | the small instances TLC checks | |

### Roster

`busy`, `busyCoders`, `clones` and `turn` are `usage` and `lastLeased`; `turn`
is a rank, since only the order of the counter is ever compared. `excl` holds the
kind of an exclusion and whether its instant (for `health`, the next probe) has
come, in place of clock values. `waiting` is the set of contexts whose copy of
the wake-up `Deferred` has not been completed; completing it and putting a new
one in its place, as the code does, empties the set. `seats` records each slot
taken, whoever still knows of it: the counters are compared with it.

Each critical section of the roster runs under one semaphore and is synchronous,
so it is one step. `pc` names the awaits between them: `checking` and `saving`
are the publication and `persist` after an attempt that ended an exclusion,
`owning` the announcement before `takeOwn`, `probing` the answers awaited by
`probeDue`, `asleep` the race of `waitForChange`, `taken` the stretch between
taking a slot and `leaseOf` registering the finalizer, `recovered` the event and the
`persist` between a probe that found an executor up and its signal. What sets or ends
an exclusion from outside a call is two steps as well: an operator's `Pause` or `Resume`
changes it, `telling` says the signal is still to come, and `Told` gives it. `Operators`
says how many such calls may be under way at once.

A context is a story: it leases its coder for its lifetime and a reasoning slot
per call. A call that fails reports its executor (`Report`: the exclusion is set
in one step, saved and signalled in the next) and moves once to another executor
if there is one (`Move`); a failed coder is reported, its slot given back, the
next coder leased (`HandOver`, at most `MaxHandovers` times), with the
story's other contexts taking and freeing slots in between.

Abstractions: planner, judge and verifier lease exactly as the reviewer does and
are that role; the text of reports and the state file are left out, but not the
awaits they cause; an operator's `manual` exclusion has no instant (one may be given, and it
then ends by the clock as `until` does). `Pause` and `Resume` are the calls `exclude` and `resume`
of a roster in use, from outside its contexts; the operator's command line writes the state file
instead, which the next run loads. Such a call, or a probe, that is cut off before its signal
loses the wake-up for good; that is left out. A context makes
one call of its held coder at a time, as a story does; the preference a resumed
context states is left out. `TryLease` is the lease that takes a free coder or gives up.

### StoryScheduler and EpicOutcome

The loop's variables are the code's. `alive` says which launched stories still
run, so that each ends once per launch; what a story *does* is
`EndStory`, with any of the four ends the loop tells apart (done; failed; an
outage that may be waited out; an interruption that halts). The three options
(`roster`, `failFast`, `awaitRecovery`) are chosen at the start.
`EpicOutcome` knows neither queue nor capacity: a story gets a verdict of its own
only when all it depends on is done, a failure puts all its dependents on
hold, and a report leaves no story out. `KeepsPromise` says that the loop,
its outcomes read as the report reads them (the first one of a story), behaves so.

### StoryMerge

A tree is a function from stories to the work it holds of each: none, `plain`,
or `clashing`: two clashing stories are green one by one and red together,
which is the case `integrate` exists for. A commit is such a tree and who made it (its
own work or the epic's), since baselines are keyed by commit and equal trees
are different commits. `Joined` is what git's merge does to trees, conflicts
are possible exactly when the epic moved since the story caught up. Red work in
the worktree (which its coder fixes before it is judged) is not told apart.
While `runs <= FailingRuns` the epic gates may fail to run, and git may fail to roll
a red merge back (`IntegrateFails`): the merge then stays where it is and its story fails.

`baselines` is the file; `snap` what a fiber has read of it and will write back,
so the unlocked read-modify-write of `writeBaseline` is two steps with the awaits
between. `before` and `checkpoint` are `integrate`'s local variables, `lock`
is `mergeLock`. `NewRun` ends a run anywhere, by a crash, by failFast's
interruption, or because it is over, and starts the next from what is on disk.

Three history variables exist for the properties only: `ungated` (stories whose
merge was left in place without being found green), `clobbered` (a write of the
baselines file lost another's entry) and `early` (stories found "in place" on a
head whose gates were still running).

Not in it: the judge's rounds (one step, `Judged`; they are `StoryReview`), the task loop (that is
`TaskGraph`; here `Code`), a changed entry (`StoryReview` has it), moves of worktrees, setup, red-first
tests and perimeters. They end a story or leave it alone, which `GiveUp` does.

### TaskGraph

`at` is where a task's fiber is, `home` the one-permit semaphore (held by a task
at home, and by a merge back from aside), `queue` the completions. Footprints
are sets of files; the code's path patterns overlap or not, and sets can do
both. The tasks that start aside in one pass of the loop are those of
`StartTogether`: each in plan order may run beside those running when its turn
comes. `Title` is there because `complete` marks every task of the title.
The merge back of an aside ends merged, in conflict (run last by the story's coder), or in
another failure of git (declined, the story's coder takes it). A plan file that cannot be
written fails the story; the other tasks' fibers go on until the story's own fiber has ended.
`Rerun` cuts a run off anywhere; the plan file and the story branch survive.
The sequential runner is the case `Concurrency = 1`.

### StoryReview

One story, alone, so that everything between two runs can be in the model. On disk:
the state file, the branch, the checkpoint of the tasks (`tasks`: open or done),
and the reviewers' memory `memo` (the last round answered, the diff it was of,
whether its fix landed, what each reviewer said, which files each has seen). The
loop keeps that memory in a `Ref` as well; the two are written together and are
one variable. `prepareWorktree` is four steps (delete the old branch, delete
what goes with it, make the branch, save `started`), and `CutOff` may come
between any two steps. A run fails (`Fails`) at any await; whether a failed
story's memory can then be removed is open, as in the code (`Effect.ignore`).

A diff is a function from files to versions: planning a round needs to know
which files the branch changes, which a fix has touched since, and nothing of
their content. `FirstTime`, `Recheck` and `NewFiles` are `planRound`'s three
reasons to ask a reviewer. Answers are clean, minor or blocking. Beside its findings the judge
says whether a piece is missing, which opens a revision task in place of a fix. A library user's
judge may say that freely; the repository's one, of `flows/lib/epic-stories.ts`, finds a score of
`provides` below full `Critical` (`judgeSeverity`), so here a judge that misses a piece has a
blocking finding (`MayMiss`). That matters: with a judge that misses a piece and finds nothing,
`MergedIsJudged` is violated (a finding of a lens opens the revision task, which writes the
story's code anew, and the judge, remembered as clean, is not asked again). The
gates are red or green freely. A catch-up may change the diff. The story's
merge is kept or undone (`Integrate`; the merge itself is `StoryMerge`).

Three history variables: `verdict` (the judge's last word since tasks last wrote
code), `shown` (what each lens was really shown since the work began anew), and
`outlived` (the memory is older than the branch, finding 4).

Not in it: the loop's use per task, which has no memory (selectors, votes,
prescreens, the stall on an identical diff); verdicts served from the cache are
among the answers; a diff that is empty (found in place, `StoryMerge` has it).

### RunSupervisor and RunLife

`state` and `ask` are what a reader of the append-only registry folds out of its lines;
exited, interrupted and lost are one state, `ended`. `child` is the process: detached,
so it survives the server. `known` is what one server holds of a run: the
entries of `live`, `launching` and `orphansStopping`, and the fiber of its
escalation; a crash forgets it. A call carries the registry it read
(`read`) and the runs of it still to reconcile (`todo`): whether a run is watched
is asked then, its state was read before.

`Cancel` is a client that gives up, or an append of its start that failed: an append
under way has landed or never does, a spawn has happened or not. `Close` is the
finalizer, which stops every live run; `Crash` comes any time; `Boot` marks
what the last server left.

Abstractions: one repository (the limit is per repository, and nothing else is
shared); pids are not used again; timers set with the same delay fire in the
order they were set; a client starts a run only while run ids are left; logs, knobs and
environments are left out. Flows that only read are in the module and not in the
instance.

`RunLife` is the promise: a run is announced before it has a process, and
called ended once, after its process is gone, except that a run whose pid never
reached the registry may be called so. `KeepsPromise` maps to it: a run that
says `running` but that no server watched yet is still starting.

### Operators that nothing uses

Beside some definitions stands a wrong version of it (`LockIgnored`,
`RedHeadLeft`, `DirectDependents`, `OnlyDirty`, `ThoughLaunching`, ...). They are
the plausible mistakes against which the properties are tried: with the definition
replaced, TLC must find the property broken. `PROJECT.json` pairs them under `mutants`;
every property of every passing run has one.

## 3. The runs

`tlc -config <cfg> <module>` in this directory. Deadlock is not checked: every
one of these systems really stops (all contexts ended, the epic reported, the
runs used up); that it stops only where it should is what the liveness
properties say.

| Run | Instance | States | Shows |
| --- | --- | --- | --- |
| `RosterSafety` | 2 contexts, 2 executors (2 slots and 1; 1 coder slot each), all exclusion kinds, 2 changes of them by calls or 1 operator, 1 call each that may fail and move, 1 handover each, interruptions; symmetric contexts | 955,359 | `SlotAccounting`, `ClonesDistinct`, `Independence`, `HolderNeverExhausted` |
| `RosterProgress` | 3 contexts on 2 one-slot executors, 2 calls each, no exclusions | 60,447 | `NoMissedWake`, `NoCyclicWait`, `EveryStoryEnds`: more stories than slots, every coder slot held while its holder waits for a reasoning slot |
| `RosterLostWake` | 2 contexts, 1 exclusion that expires | until violated | finding 1 |
| `StoryMerge` | 3 stories, one waiting for another; 1 merge revision; a red line from before; epic gates and rollbacks that may fail | 253,666 | `MergedIsOnEpic`, `RedOnlyAfterTrouble`, `ChargedForAdded`, `EveryStorySettles` |
| `StoryMergeRerun` | 3 stories, one waiting for the other two; 2 runs, the first cut off anywhere; 1 merge revision; a red line from before | 1,484,993 | `RedOnlyAfterTrouble` over a crash, `MergesSurvive` |
| `StoryMergeGreen` | the same, one run, no gate failures | until violated | finding 2 |
| `StoryReview` | 2 files, 2 lenses (one for either file, one for one of them) and the judge, 2 rounds, 1 merge revision, 2 runs cut off anywhere, 1 edit of the entry, deferring or not | 793,623 | `MergedIsJudged`, `NothingUnseen`, `RecheckFollowsFix`, `StoryEnds` |
| `StoryReviewStale` | the same | until violated | finding 4 |
| `StoryScheduler` | 4 stories (a chain and a join, listed out of order), concurrency 2, capacity 0 to 2 that changes twice, every choice of options | 94,676 | `RecordedOnce`, `NoReadyStoryForgotten`, `RetriedOnce`, `LaunchesWithinLimit`, `KeepsPromise` (refinement), `EpicEnds` |
| `TaskGraph` | 5 tasks (two chains, two overlapping footprints, one undeclared), 3 coders, 2 runs | 223,548 | `CompleteIsOnBranch`, `DependenciesFound`, `AloneInWorktree`, `AsidesApart`, `PlanEnds` |
| `RunSupervisor` | 2 runs of one repository, a limit of 1, 2 clients of which both may repeat one request id, 3 calls, 2 servers | 94,452 | `WithinLimit`, `OneRunPerRequest`, `SignalledOnce`, `KeepsPromise` (refinement), `CallsEnd`, `StopsAreSeenThrough` |
| `RunSupervisorOneWriting` | the same, one server | until violated | finding 3 |

Each passing run also checks its module's `TypeOK`, but for `RosterProgress` and
`StoryMergeRerun`.

Bounds, all named in CONSTANTS: `MaxCalls`, `MaxChanges`, `MaxCapacity`,
`MaxCapacityChanges`, `MaxRuns`, `FailingRuns`, `MaxEdits`, `MaxServers`; and options
of the code given small values: `MaxHandovers`, `MergeRevisions`, `MaxRounds`. Why they are enough for the
cases that matter:

* a lost wake-up needs one waiter and one releaser; a cyclic wait needs two
  holders, and a third context makes the wake-ups contend;
* the safety of exclusions needs two changes of them (one set while the other is being probed, or
  set and ended); with three `RosterSafety` was run once (5,580,047 states, no error), and
  `NoMissedWake` once with pauses, resumes and failed calls (2 contexts, kinds `run` and `manual`:
  1,327,265 states, no error);
* a handover needs one exclusion; that what it gives back is taken by another, a second context;
* a rollback that drops another's merge needs a merger, a second one, and a
  story that took the first one's work: three stories; the clash needs two. With two runs the
  third story waits for the other two, which keeps `StoryMergeRerun` small; the case of a story
  taken up again after a restart beside one that inherits its unfinished merge was checked once,
  with `QThenR`, no merge revision and the same properties (3,950,900 states, no error);
* a lens that is not asked again needs a file only another lens is for, and a fix that touches
  one seen before and one new: two files, two lenses; two rounds give a first, a re-check and the
  last one taken up again after a restart (three rounds were run once: 3,058,393 states, nothing new);
* a crash needs one run after it; a rerun after a rerun starts from the same kind
  of disk (and the theorems cover any number);
* a run past the limit, a request that starts twice and a stop by two clients all need two
  clients; a restart needs a second server; the third call lists, stops or starts once more;
* a dependent held twice needs two failures below one story: the join `z`;
* two asides launched in one pass beside a task at home need three coders; the
  overlap, the undeclared footprint and the dependency that finishes while another
  runs need five tasks.

### Fairness

`Spec` has none, and every safety property is checked or proved of it (the runs
that also check liveness use `FairSpec`, which restricts only infinite behaviours).
`FairSpec` assumes weak fairness of each fiber's and of the loop's step: Effect's
scheduler runs every ready fiber, a semaphore's permit and a `Deferred` reach
those who wait, and what a fiber awaits (gates, git, a model, a probe,
`awaitRecovery`) comes to an end, well or badly. The last is an assumption about
processes and services outside this code: one that hangs for ever keeps its story,
and for `awaitRecovery` the whole loop, waiting. In the
roster, weak fairness of `ComesDue` says that time passes, and of `Told` that an operator's call
goes on to its signal. In `StoryReview`, what the story awaits ends, and in `RunSupervisor`, the server's
calls and fibers go on and its timers fire; children, clients and whoever stops the server are
free, so a child may ignore every signal. No fairness is
assumed of failures, probes' verdicts, exclusions, resumptions, interruptions,
capacity changes or new runs.
For waiting on a lock, weak fairness is enough: a story retries or gives the
lock up a bounded number of times, so the lock is free for good in the end.

## 4. Findings

The first four are runs TLC must find violated; `PROJECT.json` has the quoted lines.

1. `Roster.ts:978` (`RosterLostWake`): a retry that ended an exclusion writes the
   state file before it takes the wake-up `Deferred`; a release in between is missed,
   and the lease sleeps beside a free slot. `capacityChanged` avoids just this.
2. `GateTriage.ts:358` (`StoryMergeGreen`): the baselines file is read and written
   back whole without a lock; a lost entry makes a red merge look inherited.
3. `RunSupervisor.ts:273` (`RunSupervisorOneWriting`): a start that is cancelled, or
   whose append fails, after its process was spawned leaves a writing flow nobody
   counts or can stop.
4. `Stories.ts:1258` (`StoryReviewStale`): a changed entry removes the branch and all
   that goes with it but the reviewers' memory: the new branch is merged on the old
   one's verdict.

The models show the following too; no run states them as properties of their own.

5. `Roster.ts:798`: a probe that answers "up" deletes whatever exclusion the executor
   has by then, also one that should last for the run (`Answer`).
6. `Stories.ts:2372`: a story can be saved as merged on the strength of a merge
   whose gates are still running and that is then undone (`early` in `StoryMerge`).
7. `Stories.ts:1483`: on a merge revision the base that says what a story may inherit
   holds the story's own work.
8. `PlanExecution.ts:229`: the held coder's next task is not compared with the tasks
   that run aside, as ADR 0034 says it is.
9. `Stories.ts:1267`: a run cut off between making the story branch and saving
   `started` leaves a branch that every later run fails on (`MakeBranch`).
10. `Stories.ts:2233`: that the judge missed a piece is known only to the run that asked it;
    after a restart a fix turn is made, where `flows/README.md` promises a revision task.
11. `Review.ts:1202`: a restart applies the fix of the last round also when its findings
    were to be deferred.
12. `Review.ts:1204`: a restart takes up the last round again, so `--review-rounds` bounds
    the rounds of a run, not of a story.
13. `Recheck.ts`, `planRound`: a judge once clean is not asked again whatever a fix
    touched, though decision 4 of ADR 0044 speaks of lens and judge alike; only new work
    of the tasks brings it back.
14. `Roster.ts:958`: a lease asks `canEverServe` and `independenceBlocked`, then publishes and
    probes, and sleeps without asking again. If another call's failure takes the last independent
    executor out for the run meanwhile, the context sleeps for ever, though its own executor could
    serve it and would have, had it asked later (2 contexts on 2 one-slot executors, 1 exclusion
    of kind `run`; the other context may end up asleep beside it). `NoCyclicWait` is violated there.

Two more, from reading alone: two concurrent calls of one held coder that fail together
each hand over, and the second forgets the coder the first has leased
(`RosterSeats.ts:345`; the port flows call one held coder from a concurrent queue); and the
roster's state file is written outside its lock, whole, so two writes may land in reverse order
and a run may overwrite what an operator paused (`Roster.ts:578`).

The passing properties next to them say what holds all the same: `MergedIsOnEpic`
leaves out only the stories of finding 6, `RedOnlyAfterTrouble` and `ChargedForAdded`
only heads with a lost entry or a merge left without being found green, `WithinLimit` only runs whose start
was cut off, `MergedIsJudged` and `NothingUnseen` only branches with an older memory.

## 5. What is proved

`tlapm` on the seven modules `*Proofs.tla` checks everything; each theorem is for any value of
the constants that satisfies the named `ASSUME`s, including any number of executors, contexts,
stories, tasks, coders, files, lenses, rounds, clients, servers and runs. The assumptions are the
types of the constants, that executors, stories and runs are finitely many, and two facts the code
checks before it starts: a plan has no cycle (`PlanAssumption`), and an executor's coder slots are
among its slots (`SlotsAssumption`).

**Roster.** `TypeCorrect`, `SlotsCounted` (`SlotAccounting`), `ClonesApart`
(`ClonesDistinct`), `CallsIndependent` (`Independence`), `HoldersServed`
(`HolderNeverExhausted`), `WakesNotMissed` (`NoMissedWake`), and, in `RosterProgressProofs`,
`NoneWaitForAll` (`NoCyclicWait`).

* The invariant `Leasing` ties the counters and the clones to the slots taken
  (`Usage`: cardinalities of the slots on an executor and of the coders' among them,
  which `TakeCounts` and `FreeCounts` follow through one taken or freed), and says of each
  context when it holds a slot for a call (`OneCall`: from the taking of it to the end of
  the call, whichever way it ends), with what reason it goes on with its own executor
  (`Owns`, which is what makes `Independence` survive the awaits before `takeOwn`), and
  that a call fails on two executors at most (`Moves`). That `LowestFree` gives a number
  within the slots (`LowestFreeIsFree`) is the pigeonhole of `nextClone`.
* `WakesNotMissed` needs a second invariant, `Calm`: nothing is ever due, no fiber writes
  the state file between its attempt and its wait, and whoever sleeps without having been
  woken has no executor that could take it but those in `BeingTold`. An operator's `Resume`
  makes an executor free some awaits before it signals: in between a sleeper has somebody it
  could lease, and the property says that this is the only such case and that the signal is then
  on its way (`OperatorsTell`, `CalmRound`). A release frees its slot and signals in one
  synchronous step, so there is no such window for slots. The hypothesis `NoClock` (no
  exclusion of kind `until` or `health`) is necessary: finding 1 is the run that refutes the
  property without it.
* `NoneWaitForAll` is the safety half of `EveryStoryEnds`: no state is reachable in which all who
  are under way sleep. Its hypotheses are that no call fails and nobody is interrupted (`Peaceful`:
  finding 14, and a slot whose context is interrupted before its finalizer is registered, can make
  everyone wait), and that who takes coders has a slot for one (`CodersPlaced`: the code accepts
  zero, and a coder would then wait for ever).
  The property is not inductive, and neither is "who waits has somebody to hope for": when the last
  one decides to wait, the first one's reasons may be gone. The invariant that carries it is
  `Open`: whenever contexts wait that keep a coder on an executor that takes calls, *one* of them has
  room, a slot that is free or held by somebody who does not wait. Who decides to wait brings its
  own witness (`WaitsWithRoom`: `independenceBlocked` found an executor with a slot no coder holds,
  so it is free or serves a call), and a witness that stops waiting leaves its own executor as the
  room of the others (`OpenNext`). Where all sleep the room would be a free slot, and `Calm` says
  that nobody sleeps beside one. With an `independenceBlocked` that asks only who is out, the proof
  fails at `WaitsWithRoom`, and TLC finds all contexts under way asleep.

**StoryScheduler.** `TypeCorrect`, `OneOutcome` (`RecordedOnce`), `RetriesBounded`
(`RetriedOnce`), `NoneForgotten` (`NoReadyStoryForgotten`), `LaunchesBounded`
(`LaunchesWithinLimit`, an action property), `PromiseKept` (`KeepsPromise`: the loop
implements `EpicOutcome`).

* The invariant `Scheduled` says that no story under way has an outcome (`Apart`; the one whose
  engine is waited for is under way), that each completion in the queue is that of one story
  that still counts as running (`InQueue`), and what an outcome says of the stories around it:
  what is under way or done had all it waits for done (`DependenciesDone`), and who waits for a
  failed or waiting story has an outcome too (`DependentsSettled`). With `DependentBlocked` (who waits for
  a story not done, also through others, has a dependency not done) these say that a failure puts on
  hold nobody who runs, is done, or is on hold already.
* `NoneForgotten` rests on `FirstRanks`: taking the first so many of the ready stories in plan
  order leaves none over unless the slots are used.
* For `PromiseKept` the abstract verdict is that of the outcome recorded last, and the step that needs the
  plan to be acyclic is the report (`NothingLeft`): if every story were blocked by another one
  without an outcome, there would be a cycle. It is used as "a set of stories that contains
  each story whose dependencies it contains holds them all", which is induction over the
  plan as an assumption about it.

**RunSupervisor.** `TypeCorrect`, `LimitHolds` (`WithinLimit`), `OneProcessPerRequest`
(`OneRunPerRequest`), `SigintOnce` (`SignalledOnce`), `PromiseKept` (`KeepsPromise`: the
supervisor implements `RunLife`).

* The invariant `Supervised` has one part per thing a call relies on after its awaits: how far
  the launch of the lock's holder has come, in the registry, in memory and as a process
  (`Launches`), that nothing was signalled to a run being launched (`Unborn`), that a watched
  run has a process and is recorded (`Watches`), who may still signal a run and by which path
  (`Signals`), and what an old reading of the registry still tells (`Readings`).
* `LimitHolds` is not what `Decide` checks: it counts the runs *as read before the
  reconciliation*. While the start holds the lock no other run comes to be watched, so what is watched
  and alive now was read as running (`Readings`): the old reading counts at least those that
  are left, and `Room` carries the one place from the decision to the spawn.
* For `PromiseKept` a run's life is what the registry says of it (`Life`); the step to argue is `lost`,
  written from a stale reading: it may replace `exited`, which is the same life, and never
  reaches a run whose launch is under way.

**TaskGraph.** `TypeCorrect`, `WorktreeIsExclusive` (`AloneInWorktree`),
`FootprintsApart` (`AsidesApart`), `CompleteTasksAreDone` (`CompleteIsOnBranch`),
`CodersFindDependencies` (`DependenciesFound`).

* `AloneInWorktree` says two things: at most one task is at work at home or in its merge, and
  the story branch is still the one the held coder began from as long as its task is at work, so
  no aside merges under it. Neither is inductive: that the semaphore is free says nothing of
  who works at home. `Control` adds who holds it (`HomeHeld`), that whatever is
  under way counts as running (`Launched`), that the queue holds each ended run
  once (`Ended`: otherwise a stale entry could take a task launched again for
  ended), what the coder at home began from (`BranchStill`), and what is being
  saved (`Saving`). A task aside may wait for its merge meanwhile; it may not merge.
* `AsidesApart` is asked once, at launch, of the tasks *running then*; it holds
  of all pairs later because an aside is never launched without being in
  `running`, and two launched in one pass are compared by the later one.
* `CompleteIsOnBranch` and `DependenciesFound` are inductive only together with
  what a queued completion stands for (`CompletingIsOnBranch`) and with
  `DependenciesDone`: invariant `Work`. `CompleteIsOnBranch` speaks of the plan file
  and the loop's own set, not of what a verification said. They need `DistinctTitles`: `complete`
  marks all tasks of a title, so with two tasks of one title the second
  counts as complete without its work. The theorems carry that as their
  hypothesis; the code does not enforce it.

**StoryMerge.** `TypeCorrect`, `KeptOnEpic` (`MergedIsOnEpic`), `MergesStay`
(`MergesSurvive`, an action property), `RedHasCause` (`RedOnlyAfterTrouble`), `ChargedFairly`
(`ChargedForAdded`).

* The invariant `Merging` has four parts: `Holding` (the lock is held by exactly
  the story between its merge and its verdict, so no other merge comes between
  a checkpoint and its rollback); `WorkIsThere` (a story past its coding has
  work on its branch, one that holds the lock has it on the epic, so that
  "nothing to merge" means "already there" and "kept" means "there");
  `MergedRests` (a story saved as merged takes no step but to be skipped); and
  `KeptStays` (a kept story is on the epic *and on the checkpoint* of a merge
  under way). The last conjunct is the heart: a rollback restores the checkpoint,
  and loses nobody, because everything kept was there when the lock was taken and
  nothing can be kept while it is held, but for the stories of `early`.
* `KeptGrows` says how a story comes to be kept, `KeptEpicStays` that no step
  takes it away; the theorems follow for any number of runs cut off anywhere.
* What is red between merges needs the invariant `Deciding`: as long as every merge was
  found green or undone and no entry was lost (`NoTrouble`), the baseline of each of the epic's own commits
  is what its gates say (`Honest`), the head is green but for what was red before the
  first merge (`GreenHead`), and what a merge is compared with was measured on the head it merged into
  (`Measured`, `Compared`). The hypothesis is about the past and only ever turns false, so the invariant
  is an implication and each step has to show only that trouble stays trouble.

**StoryReview.** `TypeCorrect`, `MergedJudged` (`MergedIsJudged`), `SeenBeforeMerge`
(`NothingUnseen`), `FixBeforeRecheck` (`RecheckFollowsFix`).

* The invariant `Reviewed` says what the memory stands for. `JudgeClean`: a judge
  remembered as clean said so of what the tasks wrote last, and they are done since; this
  is why the judge need not be asked again. `MemoryShown`: what the memory calls
  seen was shown, *and* of the diff it is of, each lens was shown all it is for.
  The second half is what `planRound` relies on: a file that has not changed with that
  diff was shown then (`LensNotAsked` splits on whether the file was touched).
* Both hold only on a branch the memory is not older than (`Fresh`). `Counted`
  (a memory of no round is empty; it is gone before a merge revision is opened) and
  `BranchThere` (no branch is made while one is there) carry that through restarts.
* `AnswersAsked` ties the answers of a round to `planRound` until they are remembered,
  `MissingSaid` (a piece is missing only where the judge has a blocking finding) and
  `TasksDone` say when tasks may write again.

TLC checked `Control`, `Work`, `Merging`, `Deciding`, `Reviewed`, `Leasing`, `Calm`, `Flowing`
(`Open` and what it needs), `Scheduled` and `Supervised` on the instances above before they were proved.

**Only model-checked**: liveness, since fairness and ENABLED are beyond the prover:
`EveryStoryEnds`, `EpicEnds`, `EveryStorySettles`, `StoryEnds`, `PlanEnds`, `CallsEnd`,
`StopsAreSeenThrough`. Every safety invariant, action property and refinement that a passing run
checks is a theorem, `NoMissedWake` and `NoCyclicWait` under the hypotheses said above.

## 6. Not modelled, and the plan

Not modelled: everything listed `not_modelled` in `PROJECT.json`, with its
reason. In the parts that are modelled: the roster's state file (nothing in a
run reads it back), two calls of one held coder at once, the event hub's
back-pressure, and the review loop per task. `Queue.take` under `raceFirst`
is assumed not to lose an element (a property of the Effect library).

Done, in this order: roster; story merge with baselines; scheduler with its
abstract specification; task graph; proofs of task graph and story merge;
run supervisor with its abstract specification; story review; the roster's moves and
handovers; proofs of the story review, of the run supervisor, of the scheduler and of the roster,
with both refinements, and of what may make the epic's head red.

Next:

1. Proofs: the counterparts of `NoCyclicWait` for the other liveness properties, that the lock
   of a merge, the tasks of a plan and the stops of a run are never all waited for at once.
2. Two calls of one held coder at once, in `Roster`.
3. `WorkQueue` with its shards as `flows/port-files.ts` merges them, and its ledger over
   crashes; the event hub and its drain at a run's end.
4. The review loop per task: votes, prescreens, the stall on an identical diff.
5. A task-graph instance with two tasks of one title.
6. Pure algorithms against reference definitions: `TransientRetry`'s
   classification, `GraphWorklist`, blackboard rules to a fixpoint.
