------------------------------ MODULE RunQueue ------------------------------
(***************************************************************************)
(* The runs table and everything that moves a run: the handler that        *)
(* enqueues an audit, the crawl worker that claims and processes it, the   *)
(* plugin push that creates a run already running, the synthetic run of a  *)
(* walkthrough, and the sweep every process makes when it boots.           *)
(*                                                                         *)
(* An actor is a worker loop or an HTTP handler in flight; it lives in a   *)
(* process and dies with it.  Every database statement is one action.      *)
(***************************************************************************)
EXTENDS Integers

CONSTANTS
  Proc,         \* processes of the binary that share one database
  Worker,       \* crawl worker loops (role worker or all)
  Handler,      \* HTTP requests in flight (bounds their concurrency)
  Host,         \* [Worker \cup Handler -> Proc]
  Target, Page,
  MaxRuns,      \* bound: runs ever created
  MaxCrashes,   \* bound: process crashes
  MaxDbErrors   \* bound: statements the database rejects

Actor   == Worker \cup Handler
RunId   == 1 .. MaxRuns      \* in order of created_at
NoRun   == 0
NoDelta == [prev |-> NoRun, added |-> {}, removed |-> {}]

ASSUME HostAssumption == Host \in [Actor -> Proc]
ASSUME ActorAssumption == Worker \cap Handler = {}
ASSUME TargetAssumption == Target # {}
ASSUME BoundAssumption ==
  MaxRuns \in Nat /\ MaxCrashes \in Nat /\ MaxDbErrors \in Nat

VARIABLES
  \* the runs and pages tables; the row of an "absent" run is the handler's
  \* in-memory struct until its INSERT
  status, trigger, target, prev, rows, diff,
  \* an actor's place in its code and its locals
  pc, job, todo, delta,
  \* the processes, and the counters the bounds cap
  up, created, crashes, dbErrors

table  == <<status, trigger, target, prev, rows, diff>>
actors == <<pc, job, todo, delta>>
env    == <<up, created, crashes, dbErrors>>
vars   == <<table, actors, env>>

Status  == {"absent", "queued", "running", "done", "failed"}
Trigger == {"manual", "plugin", "walkthrough"}
Delta   == [prev : RunId, added : SUBSET Page, removed : SUBSET Page]
PC      == {"idle", "stamped", "insert", "picked", "claimed", "crawl",
            "persist", "finish", "setdiff"}

TypeOK ==
  /\ status  \in [RunId -> Status]
  /\ trigger \in [RunId -> Trigger]
  /\ target  \in [RunId -> Target]
  /\ prev    \in [RunId -> RunId \cup {NoRun}]
  /\ rows    \in [RunId -> SUBSET Page]
  /\ diff    \in [RunId -> Delta \cup {NoDelta}]
  /\ pc      \in [Actor -> PC]
  /\ job     \in [Actor -> RunId \cup {NoRun}]
  /\ todo    \in [Actor -> SUBSET Page]
  /\ delta   \in [Actor -> Delta \cup {NoDelta}]
  /\ up      \in SUBSET Proc
  /\ created \in 0 .. MaxRuns
  /\ crashes \in 0 .. MaxCrashes
  /\ dbErrors \in 0 .. MaxDbErrors

Init ==
  /\ status  = [r \in RunId |-> "absent"]
  /\ trigger = [r \in RunId |-> "manual"]
  /\ target  = [r \in RunId |-> CHOOSE t \in Target : TRUE]
  /\ prev    = [r \in RunId |-> NoRun]
  /\ rows    = [r \in RunId |-> {}]
  /\ diff    = [r \in RunId |-> NoDelta]
  /\ pc      = [a \in Actor |-> "idle"]
  /\ job     = [a \in Actor |-> NoRun]
  /\ todo    = [a \in Actor |-> {}]
  /\ delta   = [a \in Actor |-> NoDelta]
  /\ up = {} /\ created = 0 /\ crashes = 0 /\ dbErrors = 0

----------------------------------------------------------------------------
(* Statements and small steps the actions are built from.                  *)

Live(a) == Host[a] \in up

Goto(a, place) == pc' = [pc EXCEPT ![a] = place]

\* A statement the database rejects: the caller moves on, the table does not.
DbError == /\ dbErrors < MaxDbErrors
           /\ dbErrors' = dbErrors + 1

Rest(a) ==
  /\ pc'    = [pc EXCEPT ![a] = "idle"]
  /\ job'   = [job EXCEPT ![a] = NoRun]
  /\ todo'  = [todo EXCEPT ![a] = {}]
  /\ delta' = [delta EXCEPT ![a] = NoDelta]

SetStatus(r, s) == status' = [status EXCEPT ![r] = s]

\* Mutant: the baseline query without its trigger filter.
DoneRuns(t) == {r \in RunId : status[r] = "done" /\ target[r] = t}

\* The runs LatestDoneRunForTarget chooses from.
DoneAudits(t) ==
  {r \in RunId : status[r] = "done" /\ target[r] = t /\ trigger[r] # "walkthrough"}

\* ORDER BY created_at DESC LIMIT 1, or no baseline.
LatestDone(t) ==
  {r \in DoneAudits(t) \cup {NoRun} : \A q \in DoneAudits(t) : q <= r}

\* ORDER BY created_at ASC LIMIT 1 over the queued runs.
OldestQueued ==
  {r \in RunId : /\ status[r] = "queued"
                 /\ \A q \in RunId : status[q] = "queued" => r <= q}

\* What runDiff reports of the page sets of run r and its baseline b.
Compare(r, b) ==
  [prev |-> b, added |-> rows[r] \ rows[b], removed |-> rows[b] \ rows[r]]

----------------------------------------------------------------------------
(* Creating a run: the handler takes an id and a created_at, reads the     *)
(* baseline, then inserts the row.                                         *)

Stamp(h, t, kind) ==
  /\ Live(h) /\ pc[h] = "idle" /\ created < MaxRuns
  /\ created' = created + 1
  /\ target'  = [target EXCEPT ![created + 1] = t]
  /\ trigger' = [trigger EXCEPT ![created + 1] = kind]
  /\ job'     = [job EXCEPT ![h] = created + 1]
  /\ Goto(h, "stamped")
  /\ UNCHANGED <<status, prev, rows, diff, todo, delta, up, crashes, dbErrors>>

\* An error of the baseline query is swallowed: the run then has no baseline.
ReadBaseline(h) ==
  /\ Live(h) /\ pc[h] = "stamped"
  /\ \/ /\ \E b \in LatestDone(target[job[h]]) : prev' = [prev EXCEPT ![job[h]] = b]
        /\ UNCHANGED dbErrors
     \/ DbError /\ UNCHANGED prev
  /\ Goto(h, "insert")
  /\ UNCHANGED <<status, trigger, target, rows, diff, job, todo, delta,
                 up, created, crashes>>

InsertQueued(h) ==
  /\ Live(h) /\ pc[h] = "insert" /\ trigger[job[h]] = "manual"
  /\ \/ SetStatus(job[h], "queued") /\ UNCHANGED dbErrors
     \/ DbError /\ UNCHANGED status
  /\ Rest(h)
  /\ UNCHANGED <<trigger, target, prev, rows, diff, up, created, crashes>>

\* A validated push carries at least one page.
InsertPushed(h) ==
  /\ Live(h) /\ pc[h] = "insert" /\ trigger[job[h]] = "plugin"
  /\ \/ /\ SetStatus(job[h], "running")
        /\ \E pages \in SUBSET Page \ {{}} : todo' = [todo EXCEPT ![h] = pages]
        /\ Goto(h, "persist")
        /\ UNCHANGED <<job, delta, dbErrors>>
     \/ DbError /\ UNCHANGED status /\ Rest(h)
  /\ UNCHANGED <<trigger, target, prev, rows, diff, up, created, crashes>>

\* MaterializeWalkthroughRun inserts its vessel already done, with its pages,
\* in one transaction.
Synthesize(p, t) ==
  /\ p \in up /\ created < MaxRuns
  /\ created' = created + 1
  /\ target'  = [target EXCEPT ![created + 1] = t]
  /\ trigger' = [trigger EXCEPT ![created + 1] = "walkthrough"]
  /\ SetStatus(created + 1, "done")
  /\ rows'    = [rows EXCEPT ![created + 1] = Page]
  /\ UNCHANGED <<prev, diff, actors, up, crashes, dbErrors>>

----------------------------------------------------------------------------
(* The worker loop: ClaimNextQueuedRun's three statements, then the crawl. *)

Pick(w) ==
  /\ Live(w) /\ pc[w] = "idle"
  /\ \E r \in OldestQueued : job' = [job EXCEPT ![w] = r]
  /\ Goto(w, "picked")
  /\ UNCHANGED <<table, todo, delta, env>>

\* Mutant: the UPDATE of the claim without its status guard.
ClaimAnyStatus(w) ==
  /\ Live(w) /\ pc[w] = "picked"
  /\ SetStatus(job[w], "running") /\ Goto(w, "claimed")
  /\ UNCHANGED <<trigger, target, prev, rows, diff, job, todo, delta, env>>

\* UPDATE ... WHERE id=? AND status='queued': one row, or the race is lost.
Claim(w) ==
  /\ Live(w) /\ pc[w] = "picked"
  /\ \/ /\ status[job[w]] = "queued"
        /\ SetStatus(job[w], "running")
        /\ Goto(w, "claimed")
        /\ UNCHANGED <<job, todo, delta>>
     \/ /\ status[job[w]] # "queued"
        /\ Rest(w)
        /\ UNCHANGED status
  /\ UNCHANGED <<trigger, target, prev, rows, diff, env>>

\* Mutant: a claim whose run cannot be loaded is put back in the queue.
LoadOrRequeue(w) ==
  /\ Live(w) /\ pc[w] = "claimed"
  /\ \/ Goto(w, "crawl") /\ UNCHANGED <<status, job, todo, delta, dbErrors>>
     \/ DbError /\ Rest(w) /\ SetStatus(job[w], "queued")
  /\ UNCHANGED <<trigger, target, prev, rows, diff, up, created, crashes>>

\* GetRunByID after the flip: if it fails the loop forgets a running run.
Load(w) ==
  /\ Live(w) /\ pc[w] = "claimed"
  /\ \/ Goto(w, "crawl") /\ UNCHANGED <<job, todo, delta, dbErrors>>
     \/ DbError /\ Rest(w)
  /\ UNCHANGED <<table, up, created, crashes>>

\* A crawl that captured nothing still succeeds.
CrawlOk(w) ==
  /\ Live(w) /\ pc[w] = "crawl"
  /\ \E pages \in SUBSET Page : todo' = [todo EXCEPT ![w] = pages]
  /\ Goto(w, "persist")
  /\ UNCHANGED <<table, job, delta, env>>

\* Target lookup, login recipe, login or crawl failed; fail() drops the error
\* of its own UPDATE.
CrawlFail(w) ==
  /\ Live(w) /\ pc[w] = "crawl"
  /\ \/ SetStatus(job[w], "failed") /\ UNCHANGED dbErrors
     \/ DbError /\ UNCHANGED status
  /\ Rest(w)
  /\ UNCHANGED <<trigger, target, prev, rows, diff, up, created, crashes>>

----------------------------------------------------------------------------
(* The tail that the crawl and the push share.                             *)

\* One page: its artifacts, then its row.  A rejected INSERT loses the page
\* and the run goes on; a push also loses the page when the store refuses its
\* screenshot.
PersistPage(a, page) ==
  /\ Live(a) /\ pc[a] = "persist" /\ page \in todo[a]
  /\ \/ rows' = [rows EXCEPT ![job[a]] = @ \cup {page}] /\ UNCHANGED dbErrors
     \/ DbError /\ UNCHANGED rows
     \/ a \in Handler /\ UNCHANGED <<rows, dbErrors>>
  /\ todo' = [todo EXCEPT ![a] = @ \ {page}]
  /\ UNCHANGED <<status, trigger, target, prev, diff, pc, job, delta,
                 up, created, crashes>>

\* Mutant: the diff moved before the last pages are persisted.
ComputeDiffEarly(a) ==
  /\ Live(a) /\ pc[a] = "persist"
  /\ delta' = [delta EXCEPT ![a] =
                 IF prev[job[a]] = NoRun THEN NoDelta ELSE Compare(job[a], prev[job[a]])]
  /\ rows' = [rows EXCEPT ![job[a]] = @ \cup todo[a]]
  /\ todo' = [todo EXCEPT ![a] = {}]
  /\ Goto(a, "finish")
  /\ UNCHANGED <<status, trigger, target, prev, diff, job, env>>

\* runDiff: nothing without a baseline, nothing when a read fails.
ComputeDiff(a) ==
  /\ Live(a) /\ pc[a] = "persist" /\ todo[a] = {}
  /\ \/ /\ prev[job[a]] # NoRun
        /\ delta' = [delta EXCEPT ![a] = Compare(job[a], prev[job[a]])]
        /\ UNCHANGED dbErrors
     \/ prev[job[a]] = NoRun /\ UNCHANGED <<delta, dbErrors>>
     \/ prev[job[a]] # NoRun /\ DbError /\ UNCHANGED delta
  /\ Goto(a, "finish")
  /\ UNCHANGED <<table, job, todo, up, created, crashes>>

\* FinishRun(done) has no status guard.  If it fails the actor gives up and the
\* run stays running.
FinishRun(a) ==
  /\ Live(a) /\ pc[a] = "finish"
  /\ \/ /\ SetStatus(job[a], "done")
        /\ UNCHANGED dbErrors
        /\ \/ delta[a] # NoDelta /\ Goto(a, "setdiff") /\ UNCHANGED <<job, todo, delta>>
           \/ delta[a] = NoDelta /\ Rest(a)
     \/ DbError /\ UNCHANGED status /\ Rest(a)
  /\ UNCHANGED <<trigger, target, prev, rows, diff, up, created, crashes>>

SetRunDiff(a) ==
  /\ Live(a) /\ pc[a] = "setdiff"
  /\ \/ diff' = [diff EXCEPT ![job[a]] = delta[a]] /\ UNCHANGED dbErrors
     \/ DbError /\ UNCHANGED diff
  /\ Rest(a)
  /\ UNCHANGED <<status, trigger, target, prev, rows, up, created, crashes>>

----------------------------------------------------------------------------
(* Processes.                                                              *)

\* Mutants: the sweep forgotten, the sweep of every run that left the queue, and
\* the sweep into a status of its own.
SweptNone == status
SweptUnqueued ==
  [r \in RunId |-> IF status[r] \in {"running", "done"} THEN "failed" ELSE status[r]]
SweptInterrupted ==
  [r \in RunId |-> IF status[r] = "running" THEN "interrupted" ELSE status[r]]

\* What RecoverStaleRuns leaves in the status column.
Swept == [r \in RunId |-> IF status[r] = "running" THEN "failed" ELSE status[r]]

\* NewRouter: the sweep, whose error is only logged, then the worker and the
\* routes, in every role.
Boot(p) ==
  /\ p \notin up
  /\ up' = up \cup {p}
  /\ \/ status' = Swept /\ UNCHANGED dbErrors
     \/ DbError /\ UNCHANGED status
  /\ UNCHANGED <<trigger, target, prev, rows, diff, actors, created, crashes>>

\* A process stops at any point; the actors it hosts are gone.
Crash(p) ==
  /\ p \in up /\ crashes < MaxCrashes
  /\ crashes' = crashes + 1
  /\ up' = up \ {p}
  /\ pc'    = [a \in Actor |-> IF Host[a] = p THEN "idle" ELSE pc[a]]
  /\ job'   = [a \in Actor |-> IF Host[a] = p THEN NoRun ELSE job[a]]
  /\ todo'  = [a \in Actor |-> IF Host[a] = p THEN {} ELSE todo[a]]
  /\ delta' = [a \in Actor |-> IF Host[a] = p THEN NoDelta ELSE delta[a]]
  /\ UNCHANGED <<table, created, dbErrors>>

----------------------------------------------------------------------------
Request(h) == \E t \in Target, kind \in {"manual", "plugin"} : Stamp(h, t, kind)

HandlerStep(h) == ReadBaseline(h) \/ InsertQueued(h) \/ InsertPushed(h)

WorkerStep(w) == Pick(w) \/ Claim(w) \/ Load(w) \/ CrawlOk(w) \/ CrawlFail(w)

TailStep(a) ==
  \/ \E page \in Page : PersistPage(a, page)
  \/ ComputeDiff(a) \/ FinishRun(a) \/ SetRunDiff(a)

Next ==
  \/ \E h \in Handler : Request(h) \/ HandlerStep(h)
  \/ \E w \in Worker : WorkerStep(w)
  \/ \E a \in Actor : TailStep(a)
  \/ \E p \in Proc : Boot(p) \/ Crash(p) \/ \E t \in Target : Synthesize(p, t)

Spec == Init /\ [][Next]_vars

\* Go schedules every goroutine that can run, and a supervisor restarts a
\* process; users and crashes owe nothing.
Fairness ==
  /\ \A h \in Handler : WF_vars(HandlerStep(h))
  /\ \A w \in Worker : WF_vars(WorkerStep(w))
  /\ \A a \in Actor : WF_vars(TailStep(a))
  /\ \A p \in Proc : WF_vars(Boot(p))

FairSpec == Spec /\ Fairness

----------------------------------------------------------------------------
(* Properties.                                                             *)

\* The actors that act on a run they believe is theirs and running.
Owning    == {"claimed", "crawl", "persist", "finish"}
Owns(a, r) == pc[a] \in Owning /\ job[a] = r

\* Where every actor stands relative to its run: what makes ClaimExclusive and
\* DoneIsFrozen inductive.
Creating == {"stamped", "insert"}
Holding  == Owning \cup {"setdiff"}

FutureAbsent   == \A r \in RunId : created < r => status[r] = "absent"
JobCreated     == \A a \in Actor : pc[a] # "idle" => job[a] \in 1 .. created
CreatingAbsent == \A a \in Actor : pc[a] \in Creating => status[job[a]] = "absent"
CreatingAlone  == \A a, b \in Actor :
  pc[a] \in Creating /\ pc[b] # "idle" /\ job[a] = job[b] => a = b
PickedExists   == \A a \in Actor : pc[a] = "picked" => status[job[a]] # "absent"
OwnedUnsettled == \A a \in Actor :
  pc[a] \in Owning => status[job[a]] \in {"running", "failed"}
DiffingDone    == \A a \in Actor : pc[a] = "setdiff" => status[job[a]] = "done"
HoldersDiffer  == \A a, b \in Actor :
  pc[a] \in Holding /\ pc[b] \in Holding /\ job[a] = job[b] => a = b

OwnerInv ==
  /\ FutureAbsent /\ JobCreated /\ CreatingAbsent /\ CreatingAlone
  /\ PickedExists /\ OwnedUnsettled /\ DiffingDone /\ HoldersDiffer

\* Two actors never process one run, however their statements interleave and
\* whoever restarts (ClaimNextQueuedRun's promise to two workers).
ClaimExclusive ==
  \A a, b \in Actor : \A r \in RunId : Owns(a, r) /\ Owns(b, r) => a = b

\* A run's baseline is a completed crawl or push of the same target, never a
\* failed run, a run in progress or a walkthrough's vessel.
BaselineIsDoneAudit ==
  \A r \in RunId : prev[r] # NoRun =>
    /\ status[prev[r]] = "done"
    /\ target[prev[r]] = target[r]
    /\ trigger[prev[r]] # "walkthrough"

\* The stored diff of a run is what a reader recomputes from the page rows of
\* the run and of its baseline: neither set changes after the diff was taken.
DiffMatchesRows ==
  \A r \in RunId : diff[r] # NoDelta => prev[r] # NoRun /\ diff[r] = Compare(r, prev[r])

\* What DiffMatchesRows and BaselineIsDoneAudit rest on: an actor's computed
\* delta is still current when it comes to store it.
FutureBare   == \A r \in RunId : created < r => prev[r] = NoRun
DeltaCurrent == \A a \in Actor : delta[a] # NoDelta =>
  /\ pc[a] \in {"finish", "setdiff"}
  /\ prev[job[a]] # NoRun
  /\ delta[a] = Compare(job[a], prev[job[a]])
DiffOnlyDone == \A r \in RunId : diff[r] # NoDelta => status[r] = "done"

DataInv ==
  /\ FutureBare /\ BaselineIsDoneAudit
  /\ DeltaCurrent /\ DiffOnlyDone /\ DiffMatchesRows

\* A completed run stays completed, its page rows and its baseline frozen, so
\* that it can serve as a baseline for ever.
DoneIsFrozen ==
  [][\A r \in RunId : status[r] = "done" =>
       status'[r] = "done" /\ rows'[r] = rows[r] /\ prev'[r] = prev[r]]_vars

\* A running run fails only by its owner's hand, or when nobody owns it: the boot
\* sweep settles runs orphaned by a restart and no other.
SweepHitsOrphansOnly ==
  [][\A r \in RunId : status[r] = "running" /\ status'[r] = "failed" =>
       \A a \in Actor : Owns(a, r) => pc'[a] = "idle"]_vars

\* What SweepHitsOrphansOnly and the refinement below rest on when there is one
\* process: an actor at work lives in it, so that a boot finds nobody at work.
BusyIsUp     == \A a \in Actor : pc[a] # "idle" => Live(a)
OwnedRunning == \A a \in Actor : pc[a] \in Owning => status[job[a]] = "running"

AloneInv == BusyIsUp /\ OwnedRunning

\* Every audit that was queued, claimed or pushed settles: through its owner, or
\* through the sweep of the restart that killed its owner.
EveryRunSettles ==
  \A r \in RunId : status[r] \in {"queued", "running"} ~> status[r] \in {"done", "failed"}

\* With one process the table implements the lifecycle of RunLifecycle.
Lifecycle == INSTANCE RunLifecycle WITH Run <- RunId
ImplementsLifecycle == Lifecycle!Spec
=============================================================================
