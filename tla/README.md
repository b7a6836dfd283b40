# auditloop: specifications, model checking and proofs

auditloop crawls a web target (or receives pages pushed by a plugin), keeps screenshots and
findings per page, compares each run with the run before it, lets language models write notes and
persona evaluations about a run, and drives a browser towards a goal in a *walkthrough*. It is one
Go binary with the roles `web`, `worker` and `all`, one SQL database, and an artifact store.

This directory holds TLA+ modules that model the parts of it where the order of steps matters, TLC
configurations that check them on small instances, and TLAPS proofs that hold for all instances.
`PROJECT.json` lists components, runs, source lines of each definition, hazards, findings, theorems.

## 1. Inventory

| Component | State it keeps | Operations | Interacts through | Modelled in |
|---|---|---|---|---|
| Run queue and crawl worker (`internal/db/runs.go`, `internal/worker`) | `runs` rows (status, trigger, baseline, diff), `pages` rows | enqueue, claim, crawl, persist page, diff, finish | the database; many workers poll one table | `RunQueue` |
| Plugin push (`handlers/plugins.go`) | the same rows, written by a request | create a running run, persist pages, finish | the database, the artifact store | `RunQueue` (the run), `PluginPush`, `PageFindings` (token, payload, objects, findings) |
| Notes and evaluation passes (`internal/notes`, `internal/eval`) | `notes_*` and `eval_*` columns of the run, `page_notes`, `page_evaluations` | claim, plan, draft cells in parallel, count, synthesize, settle, edit | goroutines of one process, database counters | `LlmPass` |
| Walkthroughs (`internal/walkthrough`, `internal/db/walkthrough.go`) | `walkthroughs`, `walkthrough_steps`, the synthetic run | create, claim, drive, settle, diff, materialize, evaluate, diff again | database; an evaluation is an LLM pass over the synthetic run | `Walkthrough`, `WalkDiff` |
| Startup (`main.go`, `handlers/app.go`, `internal/db/migrations.go`) | `schema_migrations` | migrate, then boot sweeps of all the above | database, shared by the processes | `Startup`; the sweeps in each of the three |
| Browser driver, watchdog, interceptor (`internal/crawler/driver.go`, `watchdog.go`, `intercept.go`) | trace, counters of blocked requests, kill function | plan, act, settle, check the goal, stall | callbacks of the browser, timers | `Driver`; its reports (`DriveOutcome`) enter `Walkthrough` |
| Crawler (`crawler.go`, `favicon.go`), address guard (`ssrf.go`, `intercept.go`), login (`login.go`, `internal/recipe`) | frontier, visited set, pages; the collector of each page | log in, visit, capture, follow links; charge network events; allow or refuse | the browser, the resolver, timers, the tab's event goroutine | `Crawl`, `Recipe`, `AddressGuard`; `Collector` |
| Login recipes and audit configuration (`handlers/auth_recipe.go`, `audit_config.go`) | one row each per target, flags of the target | save, merge credentials, clear, test; infer, save, start a drive | database; the worker and the drive read the rows again | `TargetConfig` |
| DOM gate and verification (`internal/eval/ground.go`, `verify.go`) | none; reads a page's digest | verify, re-anchor, drop refuted claims | the objects a push or a crawl stored | `Gate`, `Evaluation` |
| Rate limiters (`handlers/ratelimit.go`) | a map under a mutex | Allow, with a sweep when full | called by login tests, pushes, API reads | `RateLimit`, `Service` |
| Prompts, planner, LLM client | none shared | text in, answers out | HTTP | outcomes only |
| Storage backends, pixel diff, report, views, metrics, sessions | objects, none, or one-row lookups | – | – | no |

What is hard in it: several actors write one row without transactions (a worker, a request, a sweep);
baselines, counts and verdicts are read before slow work and used after it; any statement may fail
and most errors are only logged; any process may die between two statements and the next one sweeps
what it believes was left behind. `PROJECT.json` lists the hazards with their lines.

What makes each component correct:

* queue: one owner per run; a completed run never changes; a baseline is a completed audit of the
  same target; a stored diff is true; the sweep hits orphans only; every run settles;
* passes: one pass per run; progress and cost are those of this pass; *done* means complete; a
  synthesis cites current rows; nothing is written after the job settled; every job settles;
* walkthroughs: a baseline did observe the goal and stays as it was; a trace is materialized whole, and
  once but for rejected statements; the diff a CI gate reads tells the truth about the two rows; everything settles;
* driver: a drive always returns; it reports what its session observed or that nothing was; a dry
  run writes nothing; a blocked navigation fails it; *stuck* for want of progress means spinning;
  *success* means the goal was seen;
* crawler: no page in reach is dropped, captured twice or over budget; only the site's documents are
  kept; a slow login is no dead browser; every session ends; a page is charged with its own traffic, once;
* configuration: a login that is taken up is complete; a drive follows only what a person saved;
* pushes, limiters, gate: stored references resolve; what a limiter forgets is worth no more than the
  time a call waits for its mutex; the gate drops only what the page's DOM refutes, and leaves opinions alone;
* startup: a process serves only on its whole schema, and comes to serve.

## 2. Plan

| # | Modules | State |
|---|---|---|
| 1 | `RunLifecycle` (abstract), `RunQueue`, `MCRunQueue`, `RunQueueProofs` | done |
| 2 | `LlmPass`, `MCLlmPass`, `LlmPassProofs` | done |
| 3 | `WalkDiff`, `Walkthrough` (extends `WalkDiff` and `DriveOutcome`), `MCWalkthrough`, `WalkthroughProofs` | done |
| 4 | `DriveOutcome` (shared by `Walkthrough` and `Driver`), `Driver`, `MCDriver`, `DriverProofs` | done |
| 5 | `AddressGuard`, `Recipe`, `Crawl`, `MCCrawl`, `CrawlProofs` | done |
| 6 | `Collector`, `MCCollector`, `CollectorProofs` | done |
| 7 | `Gate`, `RateLimit`, `PageFindings` (pure), `Service`, `TargetConfig`, `PluginPush`, `Evaluation`, composed by `Requests`, `MCRequests`, `RequestsProofs` | done |
| 8 | `Startup`, `MCStartup`, `StartupProofs` | done |

Every safety invariant and every action property the runs check is the subject of a theorem
(section 6). What TLC alone decides are the liveness properties.

## 3. The modules and the code

Conventions: one action is one SQL statement or transaction with the local work up to the next one;
an actor's place in the code is its `pc` (`main`, `at`, `reqAt`, `stage`, `inflight[r].op`). A rejected
statement (`DbError`, `Abandon`) takes the branch the code takes: log and go on, give up, or return.
Rows are numbered in order of creation. Operators under a comment *Mutant* are wrong variants of their
neighbour: a specification with the variant in place violates a property, which shows that the property
says something; `PROJECT.json` pairs them.

### RunLifecycle

What a reader of the table may rely on: absent, queued or running or done, settled once, plus one
step in which a restart fails every running run.

### RunQueue

*State*: the columns `status`, `trigger`, `target`, `prev` (baseline), `diff` of each run and the
set `rows` of its pages; per actor (worker or request handler) its place and locals; which processes
are up. *Actions*: `Stamp`, `ReadBaseline`, `InsertQueued` are `CreateRun`; `InsertPushed` is
`CreatePushedRun`; `Pick`, `Claim`, `Load` are the SELECT, the guarded UPDATE and the read back of
`ClaimNextQueuedRun`; `CrawlOk`, `CrawlFail`, `PersistPage`, `ComputeDiff`, `FinishRun`,
`SetRunDiff` are `ProcessRun`, whose tail a push shares; `Synthesize` is the insert of a
walkthrough's run; `Boot` is `NewRouter`'s sweep; `Crash` ends a process with its actors.
`Host` places actors on processes, which is how the roles appear.

### LlmPass

*State*: the job columns, the synthesis, one row per cell (page x model, page x persona), and per
pass the place of its main goroutine and the step of each cell. *Actions*: `Claim` is the request
(`ClaimNotesJob`, `ClaimEvalJob`) with its resets; `Plan`, `ZeroProgress`, `Draft`, `Count`,
`UpdateProgress`, `Join`, `Gather`, `Synthesize`, `BillStory`, `FullProgress`, `Finish` follow
`Generator.Run`; `SaveEdit` is a person's edit. `kind` tells the two passes apart. The in-memory
counter is the number of cells counted (`Ticked`). A pass's goroutine may be gone only by a crash.

### WalkDiff and Walkthrough

`WalkDiff` is `ComputeDiff` as a function of two verdicts and two sets of blocker keys.
`Walkthrough` has the rows and steps, the goroutine of each walkthrough (`CreateWalkthrough` to
`DriveWritesDiff`), and evaluate requests (`Evaluate` to `EvalWritesDiff`). `Observe` and `SwapRunID`
are `MaterializeWalkthroughRun` before and inside its transaction. `Observe` reads the walkthrough and,
if it names a run, that run: found, it is reused; a run that cannot be read, for whatever error, is taken
for deleted, and the request goes on to `ReqSwaps` with the name it has seen in `job`, which `SwapRunID`
compares (`Unchanged`). A drive ends with any trace in
`Observed`, with `Stalled`, or by giving up. The evaluation itself is one step here; module
`LlmPass` has it in full.

### DriveOutcome and Driver

`DriveOutcome` says what a drive reports: a verdict and a number of steps. `Walkthrough` takes any
of these reports; `Driver` is the code that makes them, and `ReportsObserved` (a theorem) says that
it makes no others, apart from an error, on which the walkthrough gives up.

*State*: the session goroutine (`place`, `parked` while a browser call does not return, the trace as
`verdict` and `steps`, the locals of one turn of the loop), the page (`url`, and `goal`: whether the
success assertion holds now), the interceptor (`paused` requests, `armed`, `blocked`), the deadline
`expired`, and what `Drive` returned (`report`). Two history variables: `sent`, the writes that
reached the site, and `caught`, a block recorded between an action and its judgement. A step of the
trace is the key that `seen` counts it under, so `seen` is the range of `steps`.
*Actions*: `BringUp`, `Login`, `Arm`, `Base`, `GoalSeen`, `Look`, `PlannerError`, `Reject`,
`ChooseFinish`, `Execute`, `JudgeRefused`, `JudgeProgress`, `Finish`, `LoopEnds`, `Last` follow
`driveSession`; `InnerStall` is the watchdog of one call, `Fire` that of the drive; `Deliver` is
`Drive` returning; `Issue` and `Decide` are a request that Fetch pauses and `handlePaused` on its own
goroutine; `Move` is the page changing by itself, `Park` a call that never returns, `Expire` the
deadline. `Execute` has no effect on the page of its own: what an action does to the page is a `Move`
or an `Issue` while it settles, which is when the browser does it.

### AddressGuard, Recipe and Crawl

`AddressGuard` is `ssrf.go`: a host is a sequence of labels from the root, so that the allowlist's
suffix match is `IsPrefix`; an address is the class it falls in; a resolver's answer is an argument, so
that two looks may differ. `Recipe` is the steps of a login: `Compile` and `DeriveGuided` (the guided
form and back), `Validate`, `RequiredRefs`.

`Crawl` is one browser session, a crawl or a login test (`mode`). *State*: `pc`, the place in the
session, and `parked`, a call that does not return; the login's `step` and the time `elapsed` in it;
the `tab`; the frontier (`queue`, `visited` with depths, `pages`, `refused`); the item in hand (`cur`,
viewport, links left, `favicon`); the favicon's `dialled` address; the `outcome`. `found`, the links
seen, is history. *Actions*: `BringUp`, `NoLogin`, `Preflight`, `LoginStep`, `Landing`, `LoginFails`
are the bring-up and `runLogin`; `Begin`, `Take`, `NextViewport`, `Capture`, `CaptureFails`, `Follow`,
`PageDone`, `LoopEnds`, `Favicon` are `Crawl`; `CheckEnd` and `Screenshot` end a test; `Move` is the
page going elsewhere by itself, past the interceptor; `Park` and `Watchdog` are calls that hang and the
bounds of `watchdog.go`.

### Collector

One tab serves all captures. *State*: the capture `at` work and its `stage`; `cur`, the collector
installed in the session; its contents; what each capture reported; the requests of the tab (`wire`);
`events` on their way, in order; the event in the listener's `hand` with the collector it looked up.
*Actions*: `Start`, `Navigate`, `Read`, `Skip`, `Leave` follow `capturePage`; `Issue`, `Redirect`,
`Chunk`, `Respond`, `Finish`, `Fail` are what a request does; `LookUp` and `HandOver` are
`session.handle` before and after the unlock. `stray` is history: an event went to another collector
than that of its page, which the code cannot exclude, and after which only `ChargedOnce` is promised.
So is `nth`, the place of a chunk among those of its request. `PageResult` is the single list of failures
that `capturePage` copies, each with the flag `first` that `SameOrigin` gives it. `Own` is the set of URLs
a reader takes for the page's own; `OwnOrigin` says that it is drawn by scheme, host and port, and
`MCCollector` has TLC evaluate it.

### Gate, RateLimit, PageFindings: pure parts

`Gate` is the DOM gate on an evaluation and a digest: a selector is its text, its concrete keys and its
quoted literals, a name a sequence of four-letter pieces (the minimal prefix match is twelve letters).
What a stage leaves of a list stays at its place (`RestrictValues`): a Go slice that was filtered is here
a function on some of the old positions, in the same order and with the same repetitions.
`RateLimit` is both limiters as functions of what they remember, the key and the time the call has read; `PageFindings` is what becomes of a
page's signals, crawled or pushed.

### Service, TargetConfig, PluginPush, Evaluation, Requests

`Service` has what the handlers of a process share: the target rows, the requests `inflight`, the
limiters (`limits`) and, as history, limiters that never forget (`heard`). A limiter reads the clock and
then waits for its mutex. An action is the call that gets the mutex, with the `time` it has read, and
`now` is the latest time any call has come with: `Called` lets a call be overtaken by at most `Delay`,
so times come out of order, levels fall below zero and a bucket's time goes back, as in the code. A
request is a record whose
`op` names the statement it will execute next, so all reads before it may be stale. `TargetConfig` has
the recipe and configuration rows: `SubmitAuth` reads and merges, `SetLoginRecipe` writes;
`DeleteLoginRecipe` clears; `LoginTest` and `ProcessRun` read the target, `buildLogin` the recipe, for a
test, a crawl or a drive; `handleInferAuditConfig` and `StoreDraft` are before and after the model's call;
`handleSaveAuditConfig`, `SetTargetAuditConfig`, `SetDrivingConfig` are the save and its two statements;
`handleStartWalkthrough`, `GetTargetAuditConfig`, `Run`, `Success` are a drive up to its browser.
`PluginPush` has tokens, pages and the object store: `handlePluginPush` is the lookup, the limiter and
the validation, `persistPushedPage` one page with any of its uploads failing, `persistPage` the worker's
page. `Evaluation` has `plan` and one cell: the draft, its verification and the gate. `Requests` is
their composition: at each step one request executes one statement.

### Startup

`applied` is the schema's DDL, `recorded` the tracking table; each process has its place in `migrate`,
the migration it is at, and the `release` of its binary, which a later start may replace by a newer one.
`Start`, `Check`, `Apply`, `Record` are the bootstrap, the SELECT, the DDL and the INSERT; `Serve` is
`main` after `db.Open`; a statement that fails ends the process.

## 4. The runs

Every configuration sets `CHECK_DEADLOCK FALSE`: once the bounded numbers of runs, passes and
requests are used and the queue is empty, all actors idle, as the program does.

| Run | What it shows |
|---|---|
| `queue_one_process` | one process, its worker, two requests, three runs of one target, two pages, one restart, one failing statement: `BaselineIsDoneAudit`, `DiffMatchesRows`, and the table implements `RunLifecycle` |
| `queue_two_workers` | two processes with a worker each, two restarts: `ClaimExclusive`, `DoneIsFrozen`, `EveryRunSettles` |
| `queue_split_roles` | *violated*: the worker process, starting, fails the run of a push that the web process is receiving |
| `llm_pass` | both kinds, up to three pages, two at a time, two passes, a synthesis prompt that holds two verdicts: all safety properties of a pass, and `EveryPassSettles` |
| `walkthrough` | two walkthroughs, two evaluate requests, one key, one restart, one failing statement: `BaselineObserved`, `BaselineFrozen`, `MaterializedOnce` (a second run only for a rejected statement), `RunIsWholeTrace`, `DiffIsOfSettledRows` |
| `walkthrough_settles` | `AllSettle` on one step and one request |
| `walkthrough_infra` | *violated*: a pass marked infra carries a regression |
| `driver` | five steps, one action, one URL and the unread one, one request to be guarded; any call may park, the deadline may come at any time, with and without login and dry run |
| `crawl` | a site of three pages, one of them also under a fragment, an internal subdomain and a foreign host; four lists of links; five recipes (none, guided, slow, off the site, long); every redirect, refusal and hang: `FrontierSound`, `SiteContained`, `PatientLogin`, `CrawlEnds` |
| `collector` | two captures, two requests of the tab, a redirect, a chunk, one event on its way and one in hand: `Attribution` |
| `requests` | three requests of any kind over a crawled and a push-only target, times 0, 1 and 21, calls overtaken by a unit at most: `LoginsArmed`, `DrivenGoalsAuthored`, `PushSound`, `LimitersRemember`, `GateSound` |
| `startup` | *violated*: after a crash between a migration and its record no start succeeds |

*Why the bounds are enough to be interesting.* Three runs are a baseline, a run compared with it,
and one that completes in between; two pages make an added and a removed one at once. Two workers
make every claim race, two restarts let one process sweep while the other works and then the reverse.
Three pages with two at a time give a page that waits for a slot; two passes give left-overs of an
earlier pass; a prompt of two verdicts is overfull with three. Two walkthroughs give a baseline and a
comparison, two requests every race of materialization and of the evaluation claim. One failing
statement is placed by TLC before or after every other step. Five steps are one more than the
shortest spin (an action and three repeats); URLs are only compared, so one URL and an unread one give
both answers; one request is decided in every phase, and the code keeps no state between requests but
a count.
In `crawl` three pages of budget and depth two over five addresses make each bound end a crawl, a
fragment and a repeated link make every duplicate, answers that mix a public with a private address
make every judgement of the guard; the recipes have one whose own waits exceed the login's ceiling. In
`collector` two captures make an event late by one page; a third would repeat it. In `requests` three
requests are a save between another request's read and its write, followed by a job that takes the
result up; limiters of one entry and of one bucket are always full; the payloads
hold one that is accepted, one whose digest contradicts itself, and one with bad files; the digests are
complete, contested and truncated.
The caps on a digest (`MaxA11y...`) are 2 in place of the code's larger numbers: only reaching them
matters. The burst is 1 and `Delay` 1, so that two calls that enter out of order already make the sweep
drop a bucket that is not full, at time 1, while at time 21 everything may be forgotten. With these
numbers twice the wait exceeds the burst: the run shows that no bucket is poorer for a sweep and no
interval shorter; how much richer a bucket may be where the burst is larger is the theorem
`LimitersForgive`. In `startup` three migrations with one ALTER and one crash suffice.

*Split of the queue runs.* `SweepHitsOrphansOnly` and the refinement are promises for one process, where
the theorem `SweepSparesOwners` has the first and `queue_one_process` checks the second. With two they
fail, the first as `queue_split_roles` shows, because the sweep has no notion of an owner and `FinishRun`
no guard. `ClaimExclusive` and `DoneIsFrozen` hold with any number of processes.

*Fairness.* Weak fairness of every goroutine's steps: the Go scheduler runs what can run, a crawl
and a drive are bounded by a watchdog, a model call by the client's timeout. For a drive: weak
fairness of its session (no step of a parked one but its own watchdog's is enabled), of the deadline,
of the watchdog and of `Drive` itself; none of the page or the interceptor. For a crawl: weak fairness of
its goroutine, which can step unless a call is parked, and of the watchdog's timer. Weak fairness of
`Boot`: a supervisor restarts the process, and crashes are bounded; the same of `Boots` in `Startup`. Nothing is assumed of users.
Liveness is stated for executions in which the database refuses no statement (`dbErrors > 0` is the
escape in `EveryPassSettles` and `AllSettle`; `queue_two_workers` allows no such error): after a
refused settlement the code leaves the row until the next restart.

## 5. What disagrees with the documentation

Three runs end in a violation of something a comment says; `PROJECT.json` quotes the lines.

* `queue_split_roles`. The boot sweep fails every running run. While the web process receives a push,
  whose run is running from its insert, the worker process starts and fails that run. The comment at the
  call speaks of orphans; the one on the statement (`runs.go:192-194`) does say that it is safe for a single
  replica only, but the roles of `config.go` are two processes with one replica each.
* `walkthrough_infra`. A settlement error lets an infra pass be scored.
* `startup`. A migration is not one step: a crash after its ALTER and before its record keeps every
  process of that release from starting, until someone edits `schema_migrations` by hand.

Observations without a run of their own, met while modelling:

* A walkthrough's run is reused only if it can be read; any error of `GetRunByID`, not only a missing row,
  falls through (`db/walkthrough.go:280`), and the swap at `:313` replaces the name of a run that exists by
  that of a second one, with an evaluation of its own, where `:270-271` guarantees one. `MaterializedOnce`
  counts such a run against the statement that was rejected.
* The limiters read the clock before they take the mutex (`ratelimit.go:30`, `:76`), so a call may take a
  level below zero and set a bucket's time back. The sweep looks at that time only (`:94`) and may drop a
  bucket that is not full, against the comment at `:91`. `LimitersRemember` says what this is worth at most:
  the tokens of twice the wait for the mutex.

* A run enqueued while an earlier one still waits or crawls is never compared with it: the baseline is
  the latest done run at enqueue time (`runs.go:26`).
* Progress columns are assigned from a counter taken earlier, so they may go back (`page_notes.go:36`).
* A duplicate POST drives two browsers: each creates a row of its own, which nobody else can claim
  (`handlers/walkthrough.go:259`). `report.json` says *done* before `FinishRun` has run.
* A push-only target can be enqueued for a crawl (`handlers/targets.go:40` does not look at `auth_mode`),
  though `db/plugin_tokens.go:10` says it is never crawled. Saving a login form without login on it sets the
  mode to `none`, after which its token finds no target.
* A recipe saved by a request that read the credentials before another cleared them brings them back.
* Two saves of the audit form are two statements each and may interleave: the goal of one, the driving
  flags of the other. The goal and the success condition of one drive may come from different saves.
* The guided form shows a five-step advanced recipe reordered (`recipe.go:91-123`); `Validate` accepts a
  `waitFor` anywhere (`recipe.go:220`).
* The verified draft may carry `verified: true` written by the model itself.
* `persistPage` of the worker records keys of objects whose Put failed; the axe, network and a11y
  objects of a page are shared by its viewports, and the last writer wins.
* `InferConfig` takes the landing page for the first in order of creation; `ListPages` orders by URL.
* A viewport that fails first takes the page's links with it (`crawler.go:291`): `FrontierSound` is about
  pages that were captured.
* A request of one page that is issued after the next collector is installed and before the tab
  navigates is charged to the next page.

## 6. The proofs

All theorems are about `Spec` for every value of the constants under the modules' named assumptions
(natural bounds, disjoint workers and handlers, finite labels), without fairness.

* `RunQueueProofs`. `OwnerInv` says where each actor may stand relative to its run: who has stamped
  an id has it alone, who works on a run finds it running or failed, who stores a diff finds it done,
  and two actors that hold runs hold different ones. It is inductive with `TypeOK`
  (`TypeCorrect`) and gives `ClaimIsExclusive`. It also shows that no step changes a done run, hence
  `CompletedRunsAreFrozen`. For the diffs the strengthening is `DataInv`: a computed delta stays equal
  to the comparison of the two runs' rows until it is stored, because the baseline is done and
  therefore frozen and the run's own pages are all written (`BaselinesAndDiffs`).
* `LlmPassProofs`. `PassInv`: passes beyond the latest have not begun, and only a pass that is
  fanning out has half-done cells. It gives `OnePassAtATime` and, as an action property,
  `SettledJobsAreQuiet`. `StoryInv`: while any pass can still write rows there is no synthesis, since
  the claim cleared it, and what was gathered is current when it is saved (`SynthesisIsCurrent`).
* `WalkthroughProofs`. First `ComputeDiff` alone: never a regression and a resolution at once
  (`NeverBoth`), a gate passed twice is passed over both (`GateComposes`), a pass that never ran fails
  no gate (`InfraTripsNoGate`). Then `WalkInv`, which adds to the four invariants what each place of a
  goroutine implies of its row (`Placed`, `Stopped`, `Unsettled`, `Storing`, `SettledTrace`); from it
  `BaselinesObserved`, `BaselinesFrozen`, `OneRunPerWalkthrough`, `RunsAreWholeTraces`,
  `OneEvaluationPass`. For the runs, `Excused`: a request that has seen a run and is about to swap it all
  the same (`Renewing`) has met a rejected statement that no run accounts for yet. So the swap may add one,
  and `OneRunPerWalkthrough` counts at most one run more than there were rejections; the comparison lets no
  second request swap on the same observation. TLC has checked `WalkInv`, `PassInv` and `StoryInv` on the instances above.

* `DriverProofs`. `DriverInv`: `Placed` says what each place implies of the trace (no verdict before
  the end, no steps before the loop, room for a step inside it, and at the last check either the
  deadline or a full budget, which is why a success always has a step); `Guarded` that an unarmed dry
  run has not begun to drive and that only the login phase can have paused requests by then; `Blocks`
  that a block recorded in time is either still to be judged or has failed the drive; `Reports` that
  a report exists only of a session that is over or abandoned. From it `Reporting`, `DryRun`,
  `BlockFails` and, as an action property, `Success`.
  `Spins`: since some step at least `noProgress` actions were executed and each repeats an earlier one,
  so a drive that stops as stuck was `Spinning` (`StuckSpun`).
* `StartupProofs`. `SchemaInv`: what is recorded is applied, and everything before the migration a
  process is at is applied; hence `WholeSchema`, for any processes, releases and crashes, with no
  assumption but that there is a first migration. `ServesWholeSchema` and `TypeOK` were checked by TLC
  as well (four migrations, two crashes), in no listed run.

Further results on the first three:

* Queue, one process (`OneProcess`, the deployment the sweep is written for). `AloneInv`: an actor that
  is not idle belongs to a process that is up (`BusyIsUp`), and a run that somebody owns is running
  (`OwnedRunning`). So a boot, which needs its process down, finds every actor idle
  (`BootFindsNobody`); hence `SweepSparesOwners`, and with it `RunsFollowLifecycle`: every step
  either leaves all runs alone or is one step of `RunLifecycle`, a finish being one of a running run
  because its owner still owns it. `BaselinesAreDoneAudits` needs no such hypothesis.
* Passes: `AccountInv`. A number that a goroutine took from the counter is at most the cells that are
  finished by now (`Tally`), a drafted cell has its row and a joined pass has counted all of them unless a
  statement was refused (`Complete`), and the synthesis is billed after the cells (`StoryBilled`). Hence
  `ProgressIsHonest` and `CostsAreOfThisPass`.
* Walkthroughs: `DiffInv`. A row that ended has a verdict (`Ended`), who compares holds rows that have
  ended (`Ripe`), and ended rows keep their verdicts, so every diff in hand or stored is true (`Underway`);
  hence `DiffsAreTrue`, whichever refresh writes last.

Crawler and requests:

* `CrawlProofs`. `Placed` says what each place of a session has not done yet, and with it `TypeOK` is
  inductive (`SessionTypes`). `FrontierInv` has five parts: the queue holds known URLs once, shallow ones
  first (`Queued`); all that is known lies at most one level below the page in hand (`Level`), which is
  why a page found twice is found at its least depth; a stored page has left the queue, and of the page
  in hand only earlier viewports are stored (`Shown`); a link that was found has led to a known URL or
  still waits in the links of the page in hand (`Traced`); a page in hand fits the budget (`Budgeted`).
  It gives `FrontierIsSound`. `Within` and the interceptor's decision give `SiteIsContained`; for the
  icon, that the address dialled is the first that passes (`PinnedAllowed`). `Timed` bounds the seconds a
  login has taken by its finished steps times the slowest step, which `BudgetSuffices` compares with the
  budget: `LoginsAreGivenTime`. Assumptions: `CrawlAssumption` (bounds, kinds), `GuardAssumption` (a
  literal host is some address), `RecipeAssumption`: a session's recipe is validated, because a save
  validates it (`auth_recipe.go:134`) and `buildLogin` does once more (`worker.go:242`).
* `RequestsProofs`. `RequestsInv`: what the record of a request has read is enough for what it will
  write, whatever was committed in between (`Stored`: a recipe in hand is complete, a row has a recipe
  exactly in login mode); a page refers only to stored objects, of keys its own push wrote
  (`PushedWell`); and the limiters stay close to limiters that never forget (`Clocked`, `Memories`).
  Hence `RequestTypes`, `LoginsAreArmed`, `DrivesAreAuthored` and `LimitersForgive`. For the last: an
  interval's entry is swept when it is ten intervals old, so it has no say in a call that comes at most nine
  late (`Faded`); a bucket's level, in either memory, is below zero by at most the wait (`Level`), so one that is
  swept is short of full by at most the wait, and by twice the wait for a call that is itself late
  (`FadedBuckets`). That no bucket is swept before it is full is false (section 5).
  `PushesAreSound` has one hypothesis, `HandWrittenAgree`: the findings a harness writes by hand into a
  payload do not contradict one another. The code checks no such thing; what is proved is that it adds no
  contradiction of its own. Assumptions: `LimiterAssumption` (naturals, a burst of at least one), `ServiceAssumption` (naturals; calls
  wait at most `Delay`),
  `FormAssumption` (flags are flags), `PageAssumption` (a payload's pages are a list; a crawl has the two
  viewports of the code; a digest is one), `DraftAssumption` (a draft and a reply have findings).
  `GatesAreSound` first follows the gate through one evaluation: what is left of the list, position by
  position (`Gated`); a claim that was moved to a listed selector is listed there, so grounding it again
  moves nothing (`Hit`, `Grounding`); a second passage finds what the first left (`Settled`); and where
  anchors agree and labels are derived from sources (`Sane`), a label that one row claims is claimed by
  every row of that anchor (`Spoken`). Then `GateInv` says that the digest a cell reads is such a one if its
  page was pushed: an object belongs to the request that is its run, which is a push or a crawl from its
  beginning, so no crawl ever writes under a pushed page (`Sourced`, `Harnessed`). TLC has checked `GateInv`
  on the instance of `requests`.
* `CollectorProofs`. `Attribution` speaks of sums, which the fold of the community modules defines by
  recursion on whatever element CHOOSE picks. `SumCounts` replaces the recursion: the sum of `f` over a
  finite set is the number of pairs of an element `x` and a number up to `f[x]`. It is proved from a
  smallest counterexample, not by the library's induction, and from it follow the laws used later (a sum
  over a part is no larger, one element adds its value). The event in the listener's hand and those on
  their way are one queue, which a step leaves alone, extends at its tail or shortens at its head.
  `Inv` says: what the queue tells of a request agrees with what became of it, in the order it happened
  (`InOrder`: nothing follows the end of a request, its issue precedes all else); a collector has counted
  fewer chunks than any chunk still queued (`Counted`), so that a request that finishes never weighs more
  than it carried; what all captures have reported, with what the listening collector holds, stays within
  what the requests did whose events have been handed over (`Charged`), and each failure is told in
  one place (`ReportedOnce`). An event dropped between two captures only widens that margin, which is why
  `ChargedOnce` is an inequality. While nothing went astray the inequality is an equality for the page at
  work (`Faithful`): its collector has exactly what was handed over of its own requests, the chunks still
  missing are in the queue, and the address it remembers is the last one it was told. At rest the queue
  is empty and `Exact` follows. Each conjunct needs the others: without the order of the
  queue a chunk could follow its end and be charged to nobody, and without `Counted` the charge of a
  document, whose total the browser reports as zero, has no bound. TLC has checked `Inv` on two
  captures of one request (two chunks, four events on their way) and on one capture of two requests (two
  chunks, three events). Assumptions: `CollectorAssumption` (finitely many
  request ids; bounds) and the hypothesis `OwnOrigin`.

A hypothesis of a theorem holds in its run: one process in `queue_one_process`, payloads that
agree with themselves in `requests`, `OwnOrigin` in `collector`.

Only model-checked: the liveness properties (beyond the prover, as is ENABLED). `OwnerInv`,
`OneEvalPass` and, for one process, `SweepHitsOrphansOnly` are proved and no longer in a passing run.

## 7. Abstractions and what is not modelled

Texts, images, selectors, costs in dollars and timestamps are left out: a page is present or not, a
cell found, clean, error or edited, a step of a drive the key of its action, a cost a number of calls, a walkthrough's blockers a set of keys.
The database executes one statement or transaction at a time (one SQLite connection; guarded UPDATEs
and transactions elsewhere). A rejected statement has no effect; a commit whose answer is lost is not
modelled. Creating a walkthrough reads its baseline and inserts the row in one step; an error of
`InsertFinding`, which the code ignores, is not distinguished; a panic that the handler recovers comes
before the settlement (no later statement is known to panic); a recipe without steps is refused when it is
parsed, where the code leaves that to `Validate`, which is called next. The progress and cost columns of a walkthrough, screenshots and artifact keys, and the
digests stored after materialization are left out. The components of section 1 without a module are
listed in `PROJECT.json` with the reason.

Of the crawler the scripts that run in a page, scrolling, stitching and console errors are left out, and
an event is late by a bounded number of others. A DOM digest, a finding and a selector carry only what the
gate compares. Credentials are plain text: encryption has no state. The requests of a service share one
process; a restart ends all of them at once, which `Abandon` of each in turn covers because nothing they
hold in memory outlives them except the limiters, which a restart empties in the code and does not in the model. The
connection pool, the text order of timestamps and a panic inside a bounded browser call are hazards
without a model; `PROJECT.json` lists them with the reason. Views, metrics and the push command change
no state that another part reads.
