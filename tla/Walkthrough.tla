---------------------------- MODULE Walkthrough ----------------------------
(***************************************************************************)
(* The walkthroughs of one target.  A request creates a row linked to its  *)
(* baseline, claims it and starts a goroutine that drives the browser,     *)
(* stores the trace, settles the row and diffs it against the baseline.    *)
(* Another request materializes the trace as a run, claims its evaluation  *)
(* and starts a goroutine that evaluates it and diffs the walkthrough      *)
(* again.  A restart sweeps both.                                          *)
(*                                                                         *)
(* Driver, planner and evaluator are outcomes here: a trace of module      *)
(* DriveOutcome, or a set of task-blocker keys.  A statement or a          *)
(* transaction is one step; the reads of one diff are one step, apart from *)
(* the write they lead to.                                                 *)
(***************************************************************************)
EXTENDS WalkDiff, DriveOutcome, FiniteSets

CONSTANTS
  MaxWalks,    \* bound: walkthroughs started
  Key,         \* task-blocker keys
  MaxRequests, \* bound: evaluate requests
  MaxCrashes,  \* bound: restarts
  MaxDbErrors  \* bound: statements the database rejects

ASSUME WalkthroughAssumption ==
  /\ MaxWalks \in Nat /\ MaxSteps \in Nat /\ MaxRequests \in Nat
  /\ MaxCrashes \in Nat /\ MaxDbErrors \in Nat

Walk    == 1 .. MaxWalks     \* in order of creation
Request == 1 .. MaxRequests
Idx     == 1 .. MaxSteps
None    == 0

VARIABLES
  \* the walkthroughs rows, in order of creation, and walkthrough_steps: the indices stored
  created, status, verdict, prev, runID, diff, steps,
  \* the run a request's transaction made: its walkthrough, its pages, its evaluation
  runOf, runPages, evalStatus, keys,
  \* the goroutine of a walkthrough: its place and locals
  at, trace, next, held,
  \* an evaluate request and the goroutine it starts: place and locals
  reqAt, of, pages, job, reqHeld,
  up, crashes, dbErrors

row    == <<status, verdict, prev, runID, diff>>
runs   == <<runOf, runPages, evalStatus, keys>>
driver == <<at, trace, next, held>>
asker  == <<reqAt, of, pages, job, reqHeld>>
env    == <<up, crashes, dbErrors>>
vars   == <<created, row, steps, runs, driver, asker, env>>

Diff == [outcomeCompared : BOOLEAN, isRegression : BOOLEAN, resolved : BOOLEAN,
         stuckStepDelta : -MaxSteps .. MaxSteps, blockersCompared : BOOLEAN,
         added : SUBSET Key, removed : SUBSET Key]

Place == {"none", "created", "drive", "persist", "finish", "fail", "read", "write", "over", "gone"}
ReqPlace == {"new", "observe", "swap", "claim", "eval", "read", "write", "over", "gone"}

\* A diff column, or a diff to write, is a set: none, or one.
RowsTyped ==
  /\ created \in 0 .. MaxWalks
  /\ status \in [Walk -> {"idle", "driving", "done", "failed"}]
  /\ verdict \in [Walk -> Verdict]
  /\ prev \in [Walk -> Walk \cup {None}] /\ runID \in [Walk -> Request \cup {None}]
  /\ diff \in [Walk -> SUBSET Diff] /\ steps \in [Walk -> SUBSET Idx]
RunsTyped ==
  /\ runOf \in [Request -> Walk \cup {None}] /\ runPages \in [Request -> SUBSET Idx]
  /\ evalStatus \in [Request -> {"idle", "generating", "done", "failed"}]
  /\ keys \in [Request -> SUBSET Key]
DriversTyped ==
  /\ at \in [Walk -> Place] /\ trace \in [Walk -> Trace] /\ next \in [Walk -> Idx \cup {1}]
  /\ held \in [Walk -> SUBSET Diff]
AskersTyped ==
  /\ reqAt \in [Request -> ReqPlace]
  /\ of \in [Request -> Walk \cup {None}] /\ pages \in [Request -> SUBSET Idx]
  /\ job \in [Request -> Request \cup {None}] /\ reqHeld \in [Request -> SUBSET Diff]
EnvTyped ==
  up \in BOOLEAN /\ crashes \in 0 .. MaxCrashes /\ dbErrors \in 0 .. MaxDbErrors
TypeOK == RowsTyped /\ RunsTyped /\ DriversTyped /\ AskersTyped /\ EnvTyped

Init ==
  /\ created = 0
  /\ status = [w \in Walk |-> "idle"] /\ verdict = [w \in Walk |-> NoVerdict]
  /\ prev = [w \in Walk |-> None] /\ runID = [w \in Walk |-> None]
  /\ diff = [w \in Walk |-> {}] /\ steps = [w \in Walk |-> {}]
  /\ runOf = [r \in Request |-> None] /\ runPages = [r \in Request |-> {}]
  /\ evalStatus = [r \in Request |-> "idle"] /\ keys = [r \in Request |-> {}]
  /\ at = [w \in Walk |-> "none"] /\ trace = [w \in Walk |-> NoTrace]
  /\ next = [w \in Walk |-> 1] /\ held = [w \in Walk |-> {}]
  /\ reqAt = [r \in Request |-> "new"] /\ of = [r \in Request |-> None]
  /\ pages = [r \in Request |-> {}] /\ job = [r \in Request |-> None]
  /\ reqHeld = [r \in Request |-> {}]
  /\ up = TRUE /\ crashes = 0 /\ dbErrors = 0

----------------------------------------------------------------------------
DbError == dbErrors < MaxDbErrors /\ dbErrors' = dbErrors + 1
DbOk    == UNCHANGED dbErrors

\* A goroutine moves; one that needs its locals no more drops them.
Goto(w, place) == at' = [at EXCEPT ![w] = place] /\ UNCHANGED <<trace, next, held>>
Drop(w, place) ==
  /\ at' = [at EXCEPT ![w] = place] /\ trace' = [trace EXCEPT ![w] = NoTrace]
  /\ next' = [next EXCEPT ![w] = 1] /\ held' = [held EXCEPT ![w] = {}]
ReqGoto(r, place) ==
  reqAt' = [reqAt EXCEPT ![r] = place] /\ UNCHANGED <<of, pages, job, reqHeld>>
ReqDrop(r) ==
  /\ reqAt' = [reqAt EXCEPT ![r] = "over"] /\ of' = [of EXCEPT ![r] = None]
  /\ pages' = [pages EXCEPT ![r] = {}] /\ job' = [job EXCEPT ![r] = None]
  /\ reqHeld' = [reqHeld EXCEPT ![r] = {}]
ReqClaims(r, s) ==
  /\ reqAt' = [reqAt EXCEPT ![r] = "claim"] /\ job' = [job EXCEPT ![r] = s]
  /\ pages' = [pages EXCEPT ![r] = {}] /\ UNCHANGED <<of, reqHeld>>

SetStatus(w, s) == status' = [status EXCEPT ![w] = s]

Terminal(w) == status[w] \in {"done", "failed"}

\* Mutant: a pass that never ran is a baseline like any other.
AnyTerminal == {w \in 1 .. created : Terminal(w)}

\* The rows latestTerminalWalkthroughID chooses from: a baseline did observe the goal.
Baselines == {w \in 1 .. created : Terminal(w) /\ ~verdict[w].infra}

\* ORDER BY created_at DESC LIMIT 1, or none.
latestTerminalWalkthroughID == {w \in Baselines \cup {None} : \A v \in Baselines : v <= w}

\* The task-blockers of a walkthrough, once its evaluation is complete.
HasKeys(w) == runID[w] # None /\ evalStatus[runID[w]] = "done"
Keys(w)    == IF HasKeys(w) THEN keys[runID[w]] ELSE {}

\* RefreshWalkthroughDiff up to its write: no diff without a baseline.  If a row
\* cannot be read there is none either, or it is one without the task-blockers.
RefreshedDiff(w, hasKeys) ==
  IF prev[w] = None THEN {}
  ELSE {ComputeDiff(verdict[prev[w]], verdict[w], Keys(prev[w]), Keys(w), hasKeys)}
FullDiff(w)  == RefreshedDiff(w, prev[w] # None /\ HasKeys(prev[w]) /\ HasKeys(w))
PoorDiffs(w) == {{}, RefreshedDiff(w, FALSE)}

----------------------------------------------------------------------------
(* The walkthrough: the request, then its goroutine.                       *)

CreateWalkthrough ==
  /\ up /\ created < MaxWalks
  /\ created' = created + 1
  /\ \E p \in latestTerminalWalkthroughID : prev' = [prev EXCEPT ![created + 1] = p]
  /\ Goto(created + 1, "created")
  /\ UNCHANGED <<status, verdict, runID, diff, steps, runs, asker, env>>

ClaimWalkthroughJob(w) ==
  /\ up /\ at[w] = "created" /\ status[w] # "driving"
  /\ \/ /\ SetStatus(w, "driving") /\ verdict' = [verdict EXCEPT ![w] = NoVerdict]
        /\ Goto(w, "drive") /\ DbOk
     \/ DbError /\ Drop(w, "over") /\ UNCHANGED <<status, verdict>>
  /\ UNCHANGED <<created, prev, runID, diff, steps, runs, asker, up, crashes>>

\* The drive reports a trace; or Run cannot read the walkthrough, and returns.
DriveBrowser(w) ==
  /\ up /\ at[w] = "drive"
  /\ \/ /\ \E t \in Trace :
             /\ trace' = [trace EXCEPT ![w] = t]
             /\ at' = [at EXCEPT ![w] = IF t.n = 0 THEN "finish" ELSE "persist"]
        /\ UNCHANGED <<next, held>> /\ DbOk
     \/ DbError /\ Drop(w, "over")
  /\ UNCHANGED <<created, row, steps, runs, asker, up, crashes>>

\* A missing setup, a browser that cannot be brought up, or a panic that the
\* handler recovers.
GiveUp(w) ==
  /\ up /\ at[w] \in {"drive", "persist"}
  /\ Drop(w, "fail")
  /\ UNCHANGED <<created, row, steps, runs, asker, env>>

\* A step the database rejects is left out of the trace.
InsertWalkthroughStep(w) ==
  /\ up /\ at[w] = "persist"
  /\ \/ steps' = [steps EXCEPT ![w] = steps[w] \cup {next[w]}] /\ DbOk
     \/ DbError /\ UNCHANGED steps
  /\ \/ next[w] < trace[w].n /\ next' = [next EXCEPT ![w] = next[w] + 1] /\ UNCHANGED at
     \/ next[w] >= trace[w].n /\ at' = [at EXCEPT ![w] = "finish"] /\ UNCHANGED next
  /\ UNCHANGED <<created, row, runs, trace, held, asker, up, crashes>>

\* FinishWalkthrough; its error is logged, and the diff is taken all the same.
Settle(w, v) ==
  \/ /\ SetStatus(w, IF v.outcome = "failed" THEN "failed" ELSE "done")
     /\ verdict' = [verdict EXCEPT ![w] = v] /\ DbOk
  \/ DbError /\ UNCHANGED <<status, verdict>>

FinishWalkthrough(w) ==
  /\ up /\ at[w] = "finish"
  /\ Settle(w, trace[w].verdict) /\ Drop(w, "read")
  /\ UNCHANGED <<created, prev, runID, diff, steps, runs, asker, up, crashes>>

Fail(w) ==
  /\ up /\ at[w] = "fail"
  /\ Settle(w, Stalled) /\ Drop(w, "over")
  /\ UNCHANGED <<created, prev, runID, diff, steps, runs, asker, up, crashes>>

Takes(w, d) ==
  IF d = {} THEN Drop(w, "over")
  ELSE /\ at' = [at EXCEPT ![w] = "write"] /\ held' = [held EXCEPT ![w] = d]
       /\ UNCHANGED <<trace, next>>

DriveReadsDiff(w) ==
  /\ up /\ at[w] = "read"
  /\ \/ DbOk /\ Takes(w, FullDiff(w))
     \/ DbError /\ \E d \in PoorDiffs(w) : Takes(w, d)
  /\ UNCHANGED <<created, row, steps, runs, asker, up, crashes>>

SetWalkthroughDiff(w, d) ==
  \/ diff' = [diff EXCEPT ![w] = d] /\ DbOk
  \/ DbError /\ UNCHANGED diff

DriveWritesDiff(w) ==
  /\ up /\ at[w] = "write"
  /\ SetWalkthroughDiff(w, held[w]) /\ Drop(w, "over")
  /\ UNCHANGED <<created, status, verdict, prev, runID, steps, runs, asker, up, crashes>>

----------------------------------------------------------------------------
(* The evaluation of a walkthrough: the request, then its goroutine.       *)

\* Requests are numbered as they arrive.
Arrives(r) == reqAt[r] = "new" /\ \A q \in Request : q < r => reqAt[q] # "new"

\* Mutant: a trace is evaluated while it is being stored.
HasSteps(w) == steps[w] # {}

Evaluable(w) == status[w] = "done" /\ steps[w] # {}

Evaluate(r, w) ==
  /\ up /\ Arrives(r) /\ w <= created /\ Evaluable(w)
  /\ of' = [of EXCEPT ![r] = w] /\ reqAt' = [reqAt EXCEPT ![r] = "observe"]
  /\ UNCHANGED <<created, row, steps, runs, driver, pages, job, reqHeld, env>>

\* The evaluation of a run asked for directly: its walkthrough is not diffed again.
EvaluateRun(r, s) ==
  /\ up /\ Arrives(r) /\ runOf[s] # None
  /\ ReqClaims(r, s)
  /\ UNCHANGED <<created, row, steps, runs, driver, env>>

\* Until the swap, job holds the run id as it was read.
ReqSwaps(r) ==
  /\ reqAt' = [reqAt EXCEPT ![r] = "swap"] /\ job' = [job EXCEPT ![r] = runID[of[r]]]
  /\ pages' = [pages EXCEPT ![r] = steps[of[r]]] /\ UNCHANGED <<of, reqHeld>>

\* MaterializeWalkthroughRun before its transaction: the run that exists is reused,
\* but one that cannot be read is taken for one that is gone.  If the walkthrough
\* or its steps cannot be read the request fails.
Observe(r) ==
  LET w == of[r]
  IN /\ up /\ reqAt[r] = "observe"
     /\ \/ runID[w] # None /\ DbOk /\ ReqClaims(r, runID[w])
        \/ runID[w] = None /\ DbOk /\ ReqSwaps(r)
        \/ runID[w] # None /\ DbError /\ ReqSwaps(r)
        \/ DbError /\ ReqDrop(r)
     /\ UNCHANGED <<created, row, steps, runs, driver, up, crashes>>

\* Mutant: the run is stamped whatever the row holds by now.
SwapAnyway(r) == TRUE

\* The compare of the compare-and-swap: the row names what was read.
Unchanged(r) == runID[of[r]] = job[r]

\* The transaction: the run id, the run and its pages, or the winner's run id.
SwapRunID(r) ==
  LET w == of[r]
  IN /\ up /\ reqAt[r] = "swap"
     /\ \/ /\ Unchanged(r) /\ DbOk
           /\ runID' = [runID EXCEPT ![w] = r] /\ runOf' = [runOf EXCEPT ![r] = w]
           /\ runPages' = [runPages EXCEPT ![r] = pages[r]]
           /\ ReqClaims(r, r)
        \/ ~Unchanged(r) /\ DbOk /\ ReqClaims(r, runID[w]) /\ UNCHANGED <<runID, runOf, runPages>>
        \/ DbError /\ ReqDrop(r) /\ UNCHANGED <<runID, runOf, runPages>>
     /\ UNCHANGED <<created, status, verdict, prev, diff, steps, evalStatus, keys, driver,
                    up, crashes>>

EvalClaimable(s) == evalStatus[s] # "generating"

ClaimEvalJob(r) ==
  /\ up /\ reqAt[r] = "claim"
  /\ \/ /\ EvalClaimable(job[r]) /\ DbOk
        /\ evalStatus' = [evalStatus EXCEPT ![job[r]] = "generating"]
        /\ ReqGoto(r, "eval")
     \/ ~EvalClaimable(job[r]) /\ DbOk /\ ReqDrop(r) /\ UNCHANGED evalStatus
     \/ DbError /\ ReqDrop(r) /\ UNCHANGED evalStatus
  /\ UNCHANGED <<created, row, steps, runOf, runPages, keys, driver, up, crashes>>

\* The whole pass (module LlmPass): it leaves some verified blockers, or fails; its
\* last UPDATE may fail.  A walkthrough is diffed again in each case.
Eval(r) ==
  /\ up /\ reqAt[r] = "eval"
  /\ \E ks \in SUBSET Key : keys' = [keys EXCEPT ![job[r]] = ks]
  /\ \/ \E s \in {"done", "failed"} : evalStatus' = [evalStatus EXCEPT ![job[r]] = s] /\ DbOk
     \/ DbError /\ UNCHANGED evalStatus
  /\ IF of[r] = None THEN ReqDrop(r) ELSE ReqGoto(r, "read")
  /\ UNCHANGED <<created, row, steps, runOf, runPages, driver, up, crashes>>

ReqTakes(r, d) ==
  IF d = {} THEN ReqDrop(r)
  ELSE /\ reqAt' = [reqAt EXCEPT ![r] = "write"] /\ reqHeld' = [reqHeld EXCEPT ![r] = d]
       /\ UNCHANGED <<of, pages, job>>

EvalReadsDiff(r) ==
  /\ up /\ reqAt[r] = "read"
  /\ \/ DbOk /\ ReqTakes(r, FullDiff(of[r]))
     \/ DbError /\ \E d \in PoorDiffs(of[r]) : ReqTakes(r, d)
  /\ UNCHANGED <<created, row, steps, runs, driver, up, crashes>>

EvalWritesDiff(r) ==
  /\ up /\ reqAt[r] = "write"
  /\ SetWalkthroughDiff(of[r], reqHeld[r]) /\ ReqDrop(r)
  /\ UNCHANGED <<created, status, verdict, prev, runID, steps, runs, driver, up, crashes>>

----------------------------------------------------------------------------
Crash ==
  /\ up /\ crashes < MaxCrashes
  /\ up' = FALSE /\ crashes' = crashes + 1
  /\ at' = [w \in Walk |-> IF at[w] \in {"none", "over"} THEN at[w] ELSE "gone"]
  /\ trace' = [w \in Walk |-> NoTrace] /\ next' = [w \in Walk |-> 1]
  /\ held' = [w \in Walk |-> {}]
  /\ reqAt' = [r \in Request |-> IF reqAt[r] \in {"new", "over"} THEN reqAt[r] ELSE "gone"]
  /\ of' = [r \in Request |-> None] /\ pages' = [r \in Request |-> {}]
  /\ job' = [r \in Request |-> None] /\ reqHeld' = [r \in Request |-> {}]
  /\ UNCHANGED <<created, row, steps, runs, dbErrors>>

\* Mutants: no sweep, a status of its own, and a sweep of the failed rows too.
SweptNone == UNCHANGED <<status, verdict>>
SweptAs(swept, s) ==
  /\ status' = [w \in Walk |-> IF status[w] \in swept THEN s ELSE status[w]]
  /\ verdict' = [w \in Walk |->
       IF status[w] \in swept
       THEN [outcome |-> "failed", stuckStep |-> verdict[w].stuckStep, infra |-> TRUE]
       ELSE verdict[w]]
SweptInterrupted == SweptAs({"driving"}, "interrupted")
SweptFailedToo   == SweptAs({"driving", "failed"}, "failed")

\* MarkDrivingWalkthroughsFailed
Swept == SweptAs({"driving"}, "failed")

\* MarkGeneratingEvalFailed
SweptEval ==
  evalStatus' = [s \in Request |-> IF evalStatus[s] = "generating" THEN "failed" ELSE evalStatus[s]]

\* The errors of the sweeps are only logged.
Boot ==
  /\ ~up /\ up' = TRUE
  /\ \/ Swept /\ SweptEval /\ DbOk
     \/ /\ DbError
        /\ Swept \/ UNCHANGED <<status, verdict>>
        /\ SweptEval \/ UNCHANGED evalStatus
  /\ UNCHANGED <<created, prev, runID, diff, steps, runOf, runPages, keys, driver, asker, crashes>>

----------------------------------------------------------------------------
DriveStep(w) ==
  \/ ClaimWalkthroughJob(w) \/ DriveBrowser(w) \/ GiveUp(w) \/ InsertWalkthroughStep(w)
  \/ FinishWalkthrough(w) \/ Fail(w) \/ DriveReadsDiff(w) \/ DriveWritesDiff(w)

ReqStep(r) ==
  \/ Observe(r) \/ SwapRunID(r) \/ ClaimEvalJob(r) \/ Eval(r)
  \/ EvalReadsDiff(r) \/ EvalWritesDiff(r)

Next ==
  \/ CreateWalkthrough \/ Crash \/ Boot
  \/ \E w \in Walk : DriveStep(w)
  \/ \E r \in Request : \/ ReqStep(r)
                        \/ \E w \in Walk : Evaluate(r, w)
                        \/ \E s \in Request : EvaluateRun(r, s)

Spec == Init /\ [][Next]_vars

\* Goroutines that can run do: the session watchdog bounds a drive and the LLM
\* client a call; a supervisor restarts the process.
Fairness ==
  /\ WF_vars(Boot)
  /\ \A w \in Walk : WF_vars(DriveStep(w))
  /\ \A r \in Request : WF_vars(ReqStep(r))

FairSpec == Spec /\ Fairness

----------------------------------------------------------------------------
(* Properties.                                                             *)

\* A baseline is an older walkthrough that ended and did observe the goal.
BaselineObserved ==
  \A w \in 1 .. created : LET p == prev[w]
                          IN p # None => p < w /\ Terminal(p) /\ ~verdict[p].infra

\* What a walkthrough is compared with never changes under it: no sweep, no late
\* goroutine and no other request rewrites the verdict of a linked baseline.
BaselineFrozen ==
  [][\A w \in 1 .. created : LET p == prev[w]
                             IN p # None => status'[p] = status[p] /\ verdict'[p] = verdict[p]]_vars

Made(w) == {r \in Request : runOf[r] = w}

\* Requests that race make one run of a walkthrough between them, and its row names
\* it: there is another only for a statement that was rejected, and the row names
\* one of them (MaterializeWalkthroughRun's compare-and-swap).
MaterializedOnce ==
  \A w \in 1 .. created :
    /\ runID[w] = None => Made(w) = {}
    /\ runID[w] # None => runID[w] \in Made(w)
    /\ Cardinality(Made(w)) <= 1 + dbErrors

\* The run holds a page for every step stored: never a trace that was still growing.
RunIsWholeTrace ==
  \A r \in Request : runOf[r] # None => runPages[r] = steps[runOf[r]] /\ runPages[r] # {}

\* One evaluation pass at a time per run, and the row admits to it.
OneEvalPass ==
  \A r \in Request : reqAt[r] = "eval" =>
    /\ evalStatus[job[r]] = "generating"
    /\ \A q \in Request : reqAt[q] = "eval" /\ job[q] = job[r] => q = r

\* How good a verdict is: a success, then the later a stuck pass got the better.
Score(w) == CASE verdict[w].outcome = "success" -> MaxSteps + 2
              [] verdict[w].outcome = "stuck"   -> 1 + verdict[w].stuckStep
              [] OTHER                       -> 0

\* A stored diff tells a CI gate the truth about the two rows it compares: it
\* scores only passes that observed the goal, and fails for the worse ones.
Truth(w, d) ==
  LET p == prev[w]
      seen == ~verdict[w].infra
  IN /\ p # None /\ Terminal(p) /\ Terminal(w)
     /\ d.outcomeCompared <=> seen
     /\ d.isRegression <=> seen /\ Score(w) < Score(p)
     /\ d.blockersCompared => seen /\ runID[w] # None /\ runID[p] # None
DiffIsOfSettledRows == \A w \in 1 .. created : \A d \in diff[w] : dbErrors = 0 => Truth(w, d)

\* What makes these inductive.  A request holds what its place needs; a process that
\* is down runs nothing; a row is unsettled as long as its goroutine has not settled
\* it; a goroutine stores the steps of its trace in order; a run has a settled trace,
\* as has a request about to make one.
Placed ==
  \A r \in Request :
    /\ reqAt[r] = "new" => of[r] = None
    /\ reqAt[r] \in {"observe", "swap", "read", "write"} => of[r] \in 1 .. created
    /\ reqAt[r] = "swap" /\ job[r] # None => runID[of[r]] # None
    /\ reqAt[r] \in {"claim", "eval"} => job[r] \in Request /\ of[r] \in 0 .. created
Stopped ==
  ~up => /\ \A w \in Walk : at[w] \in {"none", "over", "gone"}
         /\ \A r \in Request : reqAt[r] \in {"new", "over", "gone"}
Unsettled ==
  \A w \in Walk :
    /\ w > created => at[w] = "none" /\ status[w] = "idle" /\ runID[w] = None
    /\ at[w] = "created" => status[w] = "idle"
    /\ at[w] \in {"drive", "persist", "finish", "fail"} => status[w] = "driving"
Storing ==
  \A w \in Walk :
    /\ at[w] \in {"none", "created", "drive"} => next[w] = 1
    /\ at[w] = "persist" => next[w] \in 1 .. trace[w].n
SettledTrace ==
  \A r \in Request :
    /\ runOf[r] \in 0 .. created
    /\ runOf[r] # None => status[runOf[r]] = "done"
    /\ reqAt[r] \in {"new", "observe", "swap"} => runOf[r] = None
    /\ reqAt[r] \in {"observe", "swap"} =>
         status[of[r]] = "done" /\ steps[of[r]] # {}
    /\ reqAt[r] = "swap" => pages[r] = steps[of[r]]
    /\ reqAt[r] = "swap" /\ job[r] # None => runOf[job[r]] = of[r]
\* A request about to put another run in the place of the one its row names
\* could not read that one.
Renewing(w) == {r \in Request : reqAt[r] = "swap" /\ of[r] = w /\ job[r] = runID[w] /\ runID[w] # None}
Excused == \A w \in Walk : Renewing(w) # {} => Cardinality(Made(w)) <= dbErrors
WalkInv ==
  /\ Placed /\ Stopped /\ Unsettled /\ Storing /\ SettledTrace /\ Excused
  /\ BaselineObserved /\ MaterializedOnce /\ RunIsWholeTrace /\ OneEvalPass

\* The same of the diffs: a row that ended has an outcome, what is about to be diffed
\* has ended, and a diff on its way to the row is as true as one stored.
Ended == \A w \in Walk : Terminal(w) => verdict[w].outcome # "none"
Ripe  ==
  /\ \A w \in Walk : at[w] = "read" /\ dbErrors = 0 => Terminal(w)
  /\ \A r \in Request : of[r] # None => of[r] \in Walk /\ Terminal(of[r])
Underway ==
  dbErrors = 0 =>
    /\ \A w \in Walk : \A d \in diff[w] \cup held[w] : w <= created /\ Truth(w, d)
    /\ \A r \in Request : \A d \in reqHeld[r] :
         reqAt[r] = "write" /\ of[r] \in 1 .. created /\ Truth(of[r], d)
DiffInv == Ended /\ Ripe /\ Underway

\* No pass that observed nothing is scored as a regression ("it must not be scored
\* as a regression and must never become a baseline").
InfraNeverScored ==
  \A w \in 1 .. created : \A d \in diff[w] : verdict[w].infra => ~d.isRegression

\* Every drive and every evaluation settles, by its goroutine or by the restart
\* that killed it, unless the database refused a statement.
AllSettle ==
  /\ \A w \in Walk : status[w] = "driving" ~> (status[w] # "driving" \/ dbErrors > 0)
  /\ \A s \in Request : evalStatus[s] = "generating"
                          ~> (evalStatus[s] # "generating" \/ dbErrors > 0)
=============================================================================
