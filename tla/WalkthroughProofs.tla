-------------------------- MODULE WalkthroughProofs --------------------------
(* Proofs about WalkDiff and Walkthrough, for any number of walkthroughs,   *)
(* steps, requests, restarts and database errors.                           *)
EXTENDS Walkthrough, FiniteSetTheorems, TLAPS

Verdicts == [outcome : {"none", "failed", "stuck", "success"}, stuckStep : Nat, infra : BOOLEAN]

LEMMA Ranks ==
  /\ outcomeRank("success") = 3 /\ outcomeRank("stuck") = 2
  /\ outcomeRank("failed") = 1 /\ outcomeRank("none") = 0
BY DEF outcomeRank

\* What a scored diff calls a regression, and what it adds.
LEMMA Scored ==
  ASSUME NEW old \in Verdicts, NEW cur \in Verdicts, ~old.infra, ~cur.infra,
         NEW oldKeys, NEW curKeys
  PROVE  LET d == ComputeDiff(old, cur, oldKeys, curKeys, TRUE)
         IN /\ d.isRegression <=> \/ outcomeRank(cur.outcome) < outcomeRank(old.outcome)
                                  \/ StuckStepDelta(old, cur) < 0
            /\ d.added = curKeys \ oldKeys
BY DEF ComputeDiff, Infra

\* A diff never calls one pass both a regression and a resolution.
THEOREM NeverBoth ==
  ASSUME NEW old \in Verdicts, NEW cur \in Verdicts,
         NEW oldKeys, NEW curKeys, NEW hasKeys \in BOOLEAN
  PROVE  LET d == ComputeDiff(old, cur, oldKeys, curKeys, hasKeys)
         IN ~(d.isRegression /\ d.resolved)
<1> DEFINE pr == outcomeRank(old.outcome)
           cr == outcomeRank(cur.outcome)
<1>1. pr \in Int /\ cr \in Int
  BY Ranks DEF Verdicts
<1>2. StuckStepDelta(old, cur) < 0 => pr = cr
  BY DEF StuckStepDelta
<1>3. ~(cr > pr /\ (cr < pr \/ StuckStepDelta(old, cur) < 0))
  BY <1>1, <1>2
<1> HIDE DEF pr, cr
<1> QED BY <1>3 DEF ComputeDiff, pr, cr

\* Nothing can get worse unseen, a little at a time: if the gate passes from a to b
\* and from b to c, both compared in full, it passes from a to c.
THEOREM GateComposes ==
  ASSUME NEW a \in Verdicts, NEW b \in Verdicts, NEW c \in Verdicts,
         NEW A, NEW B, NEW C, ~a.infra, ~b.infra, ~c.infra,
         ~GateFails(ComputeDiff(a, b, A, B, TRUE)),
         ~GateFails(ComputeDiff(b, c, B, C, TRUE))
  PROVE  ~GateFails(ComputeDiff(a, c, A, C, TRUE))
<1>1. /\ ~(outcomeRank(b.outcome) < outcomeRank(a.outcome)) /\ ~(StuckStepDelta(a, b) < 0)
      /\ ~(outcomeRank(c.outcome) < outcomeRank(b.outcome)) /\ ~(StuckStepDelta(b, c) < 0)
      /\ B \ A = {} /\ C \ B = {}
  <2>1. ~ComputeDiff(a, b, A, B, TRUE).isRegression /\ ComputeDiff(a, b, A, B, TRUE).added = {}
    BY DEF GateFails
  <2>2. ~ComputeDiff(b, c, B, C, TRUE).isRegression /\ ComputeDiff(b, c, B, C, TRUE).added = {}
    BY DEF GateFails
  <2>3. ~(outcomeRank(b.outcome) < outcomeRank(a.outcome)) /\ ~(StuckStepDelta(a, b) < 0) /\ B \ A = {}
    BY <2>1, Scored
  <2>4. ~(outcomeRank(c.outcome) < outcomeRank(b.outcome)) /\ ~(StuckStepDelta(b, c) < 0) /\ C \ B = {}
    BY <2>2, Scored
  <2> QED BY <2>3, <2>4
<1>2. /\ ~(outcomeRank(c.outcome) < outcomeRank(a.outcome))
      /\ ~(StuckStepDelta(a, c) < 0)
  <2>1. /\ a.stuckStep \in Nat /\ b.stuckStep \in Nat /\ c.stuckStep \in Nat
        /\ a.outcome \in {"none", "failed", "stuck", "success"}
        /\ b.outcome \in {"none", "failed", "stuck", "success"}
        /\ c.outcome \in {"none", "failed", "stuck", "success"}
    BY DEF Verdicts
  <2> QED BY <1>1, <2>1, Ranks DEF StuckStepDelta
<1>3. C \ A = {}
  BY <1>1
<1>4. ~ComputeDiff(a, c, A, C, TRUE).isRegression /\ ComputeDiff(a, c, A, C, TRUE).added = {}
  BY <1>2, <1>3, Scored
<1> QED BY <1>4 DEF GateFails

\* A pass that could not run, on either side, trips no gate.
THEOREM InfraTripsNoGate ==
  ASSUME NEW old \in Verdicts, NEW cur \in Verdicts, old.infra \/ cur.infra,
         NEW oldKeys, NEW curKeys, NEW hasKeys \in BOOLEAN
  PROVE  ~GateFails(ComputeDiff(old, cur, oldKeys, curKeys, hasKeys))
<1> DEFINE d == ComputeDiff(old, cur, oldKeys, curKeys, hasKeys)
<1>1. Infra(old, cur)
  BY DEF Infra, Verdicts
<1>2. d.isRegression = FALSE /\ d.added = {}
  BY <1>1 DEF ComputeDiff
<1> QED BY <1>2 DEF GateFails

----------------------------------------------------------------------------
LEMMA VerdictsTyped == NoVerdict \in Verdict /\ Stalled \in Verdict
BY WalkthroughAssumption DEF NoVerdict, Stalled, Verdict

LEMMA TraceTyped ==
  /\ NoTrace \in Trace
  /\ \A t \in Trace : t.verdict \in Verdict /\ t.n \in 0 .. MaxSteps
BY WalkthroughAssumption, VerdictsTyped DEF Trace, Observed, NoTrace

LEMMA LatestTyped ==
  ASSUME TypeOK
  PROVE  latestTerminalWalkthroughID \subseteq Walk \cup {None}
BY WalkthroughAssumption DEF TypeOK, RowsTyped, latestTerminalWalkthroughID, Baselines, Walk

LEMMA RefreshTyped ==
  ASSUME TypeOK, NEW w \in Walk, NEW hasKeys \in BOOLEAN
  PROVE  RefreshedDiff(w, hasKeys) \in SUBSET Diff
<1> USE WalkthroughAssumption DEF TypeOK, RowsTyped, RunsTyped
<1> DEFINE p == prev[w]
<1>1. CASE p = None
  BY <1>1 DEF RefreshedDiff
<1>2. CASE p # None
  <2>1. p \in Walk
    BY <1>2
  <2>2. verdict[p] \in Verdict /\ verdict[w] \in Verdict
    BY <2>1
  <2> HIDE DEF p
  <2>3. StuckStepDelta(verdict[p], verdict[w]) \in -MaxSteps .. MaxSteps
    BY <2>2 DEF Verdict, StuckStepDelta
  <2>4. Keys(p) \in SUBSET Key /\ Keys(w) \in SUBSET Key
    BY <2>1 DEF Keys, HasKeys
  <2>5. Infra(verdict[p], verdict[w]) \in BOOLEAN
    BY <2>2 DEF Infra, Verdict
  <2>6. 0 \in -MaxSteps .. MaxSteps
    OBVIOUS
  <2>7. ComputeDiff(verdict[p], verdict[w], Keys(p), Keys(w), hasKeys) \in Diff
    BY <2>3, <2>4, <2>5, <2>6 DEF ComputeDiff, Diff
  <2> QED BY <2>7 DEF RefreshedDiff, p
<1> QED BY <1>1, <1>2

LEMMA DiffsTyped ==
  ASSUME TypeOK, NEW w \in Walk
  PROVE  FullDiff(w) \in SUBSET Diff /\ PoorDiffs(w) \subseteq SUBSET Diff
<1> DEFINE has == prev[w] # None /\ HasKeys(prev[w]) /\ HasKeys(w)
<1>1. has \in BOOLEAN
  BY DEF HasKeys
<1>2. RefreshedDiff(w, has) \in SUBSET Diff /\ RefreshedDiff(w, FALSE) \in SUBSET Diff
  BY <1>1, RefreshTyped
<1> QED BY <1>2 DEF FullDiff, PoorDiffs

LEMMA GotoTyped ==
  ASSUME DriversTyped, NEW w \in Walk, NEW place \in Place, Goto(w, place) \/ Drop(w, place)
  PROVE  DriversTyped'
BY TraceTyped DEF DriversTyped, Goto, Drop

LEMMA ReqGotoTyped ==
  ASSUME AskersTyped, NEW r \in Request, NEW place \in ReqPlace, NEW s \in Request,
         ReqGoto(r, place) \/ ReqDrop(r) \/ ReqClaims(r, s)
  PROVE  AskersTyped'
<1>1. {"over", "claim"} \subseteq ReqPlace
  BY DEF ReqPlace
<1> QED BY <1>1 DEF AskersTyped, ReqGoto, ReqDrop, ReqClaims

LEMMA DbTyped ==
  ASSUME EnvTyped, DbOk \/ DbError
  PROVE  dbErrors' \in 0 .. MaxDbErrors
BY WalkthroughAssumption DEF EnvTyped, DbOk, DbError

LEMMA TypeNext ==
  ASSUME TypeOK, Placed, Storing, [Next]_vars
  PROVE  TypeOK'
<1> USE DEF TypeOK, row, runs, driver, asker, env
<1>1. CASE CreateWalkthrough
  <2>1. created + 1 \in Walk /\ created' \in 0 .. MaxWalks /\ "created" \in Place
    BY <1>1, WalkthroughAssumption DEF CreateWalkthrough, Walk, Place, RowsTyped
  <2>2. RowsTyped'
    BY <1>1, <2>1, LatestTyped DEF CreateWalkthrough, RowsTyped
  <2>3. DriversTyped'
    BY <1>1, <2>1, GotoTyped DEF CreateWalkthrough
  <2> QED BY <1>1, <2>2, <2>3 DEF CreateWalkthrough, RunsTyped, AskersTyped, EnvTyped
<1>2. ASSUME NEW w \in Walk, DriveStep(w) PROVE TypeOK'
  <2>1. RowsTyped'
    <3>1. CASE ClaimWalkthroughJob(w)
      BY <3>1, VerdictsTyped DEF ClaimWalkthroughJob, SetStatus, RowsTyped
    <3>2. CASE DriveBrowser(w) \/ GiveUp(w) \/ DriveReadsDiff(w)
      BY <3>2 DEF DriveBrowser, GiveUp, DriveReadsDiff, RowsTyped
    <3>3. CASE InsertWalkthroughStep(w)
      <4>1. next[w] \in Idx
        <5>1. trace[w].n \in 0 .. MaxSteps
          BY TraceTyped DEF DriversTyped
        <5>2. next[w] \in 1 .. trace[w].n
          BY <3>3 DEF InsertWalkthroughStep, Storing
        <5>3. \A i \in 0 .. MaxSteps : 1 .. i \subseteq Idx
          BY WalkthroughAssumption DEF Idx
        <5> QED BY <5>1, <5>2, <5>3
      <4> QED BY <3>3, <4>1 DEF InsertWalkthroughStep, RowsTyped
    <3>4. CASE FinishWalkthrough(w) \/ Fail(w)
      <4>1. trace[w].verdict \in Verdict
        BY TraceTyped DEF DriversTyped
      <4> QED BY <3>4, <4>1, VerdictsTyped DEF FinishWalkthrough, Fail, Settle, SetStatus, RowsTyped
    <3>5. CASE DriveWritesDiff(w)
      BY <3>5 DEF DriveWritesDiff, SetWalkthroughDiff, RowsTyped, DriversTyped
    <3> QED BY <1>2, <3>1, <3>2, <3>3, <3>4, <3>5 DEF DriveStep
  <2>2. DriversTyped'
    <3>1. {"drive", "over", "fail", "read", "finish", "persist", "write"} \subseteq Place
      BY DEF Place
    <3>2. CASE ClaimWalkthroughJob(w) \/ GiveUp(w) \/ FinishWalkthrough(w) \/ Fail(w) \/ DriveWritesDiff(w)
      BY <3>1, <3>2, GotoTyped DEF ClaimWalkthroughJob, GiveUp, FinishWalkthrough, Fail, DriveWritesDiff
    <3>3. CASE DriveBrowser(w)
      BY <3>1, <3>3, GotoTyped DEF DriveBrowser, DriversTyped
    <3>4. CASE InsertWalkthroughStep(w)
      <4>1. trace[w].n \in 0 .. MaxSteps /\ next[w] \in Nat
        BY TraceTyped DEF DriversTyped, Idx
      <4>2. next[w] < trace[w].n => next[w] + 1 \in Idx
        BY <4>1, WalkthroughAssumption DEF Idx
      <4> QED BY <3>1, <3>4, <4>2 DEF InsertWalkthroughStep, DriversTyped
    <3>5. CASE DriveReadsDiff(w)
      <4>1. PICK d \in SUBSET Diff : Takes(w, d)
        BY <3>5, DiffsTyped DEF DriveReadsDiff
      <4>2. CASE d = {}
        BY <3>1, <4>1, <4>2, GotoTyped DEF Takes
      <4>3. CASE d # {}
        BY <3>1, <4>1, <4>3 DEF Takes, DriversTyped
      <4> QED BY <4>2, <4>3
    <3> QED BY <1>2, <3>2, <3>3, <3>4, <3>5 DEF DriveStep
  <2>3. EnvTyped'
    <3>1. UNCHANGED <<up, crashes>> /\ (DbOk \/ DbError)
      BY <1>2 DEF DriveStep, ClaimWalkthroughJob, DriveBrowser, GiveUp, InsertWalkthroughStep,
                  FinishWalkthrough, Fail, Settle, DriveReadsDiff, DriveWritesDiff,
                  SetWalkthroughDiff, DbOk
    <3> QED BY <3>1, DbTyped DEF EnvTyped
  <2>4. UNCHANGED <<runs, asker>>
    BY <1>2 DEF DriveStep, ClaimWalkthroughJob, DriveBrowser, GiveUp, InsertWalkthroughStep,
                FinishWalkthrough, Fail, DriveReadsDiff, DriveWritesDiff
  <2> QED BY <2>1, <2>2, <2>3, <2>4 DEF RunsTyped, AskersTyped
<1>3. ASSUME NEW r \in Request, ReqStep(r) PROVE TypeOK'
  <2>0. \A w \in 1 .. created : w \in Walk
    BY WalkthroughAssumption DEF RowsTyped, Walk
  <2>1. RowsTyped'
    BY <1>3 DEF ReqStep, Observe, SwapRunID, ClaimEvalJob, Eval, EvalReadsDiff, EvalWritesDiff,
                SetWalkthroughDiff, RowsTyped, AskersTyped
  <2>2. RunsTyped'
    <3>1. CASE SwapRunID(r)
      BY <3>1 DEF SwapRunID, RunsTyped, AskersTyped
    <3>2. CASE ClaimEvalJob(r)
      BY <3>2 DEF ClaimEvalJob, RunsTyped
    <3>3. CASE Eval(r)
      BY <3>3 DEF Eval, RunsTyped
    <3>4. CASE Observe(r) \/ EvalReadsDiff(r) \/ EvalWritesDiff(r)
      BY <3>4 DEF Observe, EvalReadsDiff, EvalWritesDiff, RunsTyped
    <3> QED BY <1>3, <3>1, <3>2, <3>3, <3>4 DEF ReqStep
  <2>3. AskersTyped'
    <3>1. {"swap", "eval", "read", "write", "over", "claim"} \subseteq ReqPlace
      BY DEF ReqPlace
    <3>2. CASE Observe(r)
      <4>1. of[r] \in Walk
        BY <2>0, <3>2 DEF Observe, Placed
      <4>2. CASE ReqSwaps(r)
        BY <3>1, <4>1, <4>2 DEF ReqSwaps, AskersTyped, RowsTyped
      <4>3. CASE runID[of[r]] # None /\ ReqClaims(r, runID[of[r]])
        <5>1. runID[of[r]] \in Request
          BY <4>1, <4>3 DEF RowsTyped
        <5> QED BY <3>1, <4>3, <5>1, ReqGotoTyped
      <4>4. CASE ReqDrop(r)
        BY <3>1, <3>2, <4>4, ReqGotoTyped DEF Observe
      <4> QED BY <3>2, <4>2, <4>3, <4>4 DEF Observe
    <3>3. CASE SwapRunID(r)
      <4>1. of[r] \in Walk
        BY <2>0, <3>3 DEF SwapRunID, Placed
      <4>2. ~Unchanged(r) => runID[of[r]] \in Request
        BY <3>3, <4>1 DEF SwapRunID, Unchanged, Placed, RowsTyped
      <4> QED BY <3>1, <3>3, <4>2, ReqGotoTyped DEF SwapRunID
    <3>4. CASE ClaimEvalJob(r) \/ Eval(r)
      BY <3>1, <3>4, ReqGotoTyped DEF ClaimEvalJob, Eval
    <3>5. CASE EvalReadsDiff(r)
      <4>1. of[r] \in Walk
        BY <2>0, <3>5 DEF EvalReadsDiff, Placed
      <4>2. PICK d \in SUBSET Diff : ReqTakes(r, d)
        BY <3>5, <4>1, DiffsTyped DEF EvalReadsDiff
      <4>3. CASE d = {}
        BY <3>1, <4>2, <4>3, ReqGotoTyped DEF ReqTakes
      <4>4. CASE d # {}
        BY <3>1, <4>2, <4>4 DEF ReqTakes, AskersTyped
      <4> QED BY <4>3, <4>4
    <3>6. CASE EvalWritesDiff(r)
      BY <3>1, <3>6, ReqGotoTyped DEF EvalWritesDiff
    <3> QED BY <1>3, <3>2, <3>3, <3>4, <3>5, <3>6 DEF ReqStep
  <2>4. EnvTyped'
    <3>1. UNCHANGED <<up, crashes>> /\ (DbOk \/ DbError)
      BY <1>3 DEF ReqStep, Observe, SwapRunID, ClaimEvalJob, Eval, EvalReadsDiff, EvalWritesDiff,
                  SetWalkthroughDiff, DbOk
    <3> QED BY <3>1, DbTyped DEF EnvTyped
  <2>5. UNCHANGED driver
    BY <1>3 DEF ReqStep, Observe, SwapRunID, ClaimEvalJob, Eval, EvalReadsDiff, EvalWritesDiff
  <2> QED BY <2>1, <2>2, <2>3, <2>4, <2>5 DEF DriversTyped
<1>4. ASSUME NEW r \in Request, NEW w \in Walk, Evaluate(r, w) PROVE TypeOK'
  <2>1. AskersTyped'
    BY <1>4 DEF Evaluate, AskersTyped, ReqPlace
  <2> QED BY <1>4, <2>1 DEF Evaluate, RowsTyped, RunsTyped, DriversTyped, EnvTyped
<1>5. ASSUME NEW r \in Request, NEW s \in Request, EvaluateRun(r, s) PROVE TypeOK'
  <2>1. AskersTyped'
    BY <1>5, ReqGotoTyped DEF EvaluateRun, ReqPlace
  <2> QED BY <1>5, <2>1 DEF EvaluateRun, RowsTyped, RunsTyped, DriversTyped, EnvTyped
<1>6. CASE Crash
  <2>1. DriversTyped'
    BY <1>6, TraceTyped DEF Crash, DriversTyped, Place
  <2>2. AskersTyped'
    BY <1>6 DEF Crash, AskersTyped, ReqPlace
  <2>3. EnvTyped'
    <3>1. up' = FALSE /\ crashes < MaxCrashes /\ crashes' = crashes + 1 /\ dbErrors' = dbErrors
      BY <1>6 DEF Crash
    <3>2. crashes' \in 0 .. MaxCrashes
      <4>1. crashes \in Nat
        BY DEF EnvTyped
      <4> QED BY <3>1, <4>1, WalkthroughAssumption
    <3>3. up' \in BOOLEAN
      BY <3>1
    <3> QED BY <3>1, <3>2, <3>3 DEF EnvTyped
  <2> QED BY <1>6, <2>1, <2>2, <2>3 DEF Crash, RowsTyped, RunsTyped
<1>7. CASE Boot
  <2>1. RowsTyped'
    <3>1. \A w \in Walk : [outcome |-> "failed", stuckStep |-> verdict[w].stuckStep, infra |-> TRUE] \in Verdict
      BY DEF RowsTyped, Verdict
    <3>2. CASE Swept
      <4>1. status' \in [Walk -> {"idle", "driving", "done", "failed"}]
        BY <3>2 DEF Swept, SweptAs, RowsTyped
      <4>2. verdict' \in [Walk -> Verdict]
        <5> DEFINE v(w) == [outcome |-> "failed", stuckStep |-> verdict[w].stuckStep, infra |-> TRUE]
        <5>1. \A w \in Walk : v(w) \in Verdict /\ verdict[w] \in Verdict
          BY <3>1 DEF RowsTyped
        <5>2. verdict' = [w \in Walk |-> IF status[w] \in {"driving"} THEN v(w) ELSE verdict[w]]
          BY <3>2 DEF Swept, SweptAs
        <5> HIDE DEF v
        <5> QED BY <5>1, <5>2
      <4> QED BY <1>7, <4>1, <4>2 DEF Boot, RowsTyped
    <3>3. CASE UNCHANGED <<status, verdict>>
      BY <1>7, <3>3 DEF Boot, RowsTyped
    <3> QED BY <1>7, <3>2, <3>3 DEF Boot
  <2>2. RunsTyped'
    BY <1>7 DEF Boot, SweptEval, RunsTyped
  <2>3. EnvTyped'
    BY <1>7, DbTyped DEF Boot, EnvTyped
  <2> QED BY <1>7, <2>1, <2>2, <2>3 DEF Boot, DriversTyped, AskersTyped
<1>8. CASE UNCHANGED vars
  BY <1>8 DEF vars, RowsTyped, RunsTyped, DriversTyped, AskersTyped, EnvTyped
<1> QED BY <1>1, <1>2, <1>3, <1>4, <1>5, <1>6, <1>7, <1>8 DEF Next

----------------------------------------------------------------------------
(* What a step of a goroutine of a walkthrough, and of a request, leaves    *)
(* alone.                                                                  *)

LEMMA DriveFrame ==
  ASSUME TypeOK, Unsettled, NEW w \in Walk, DriveStep(w)
  PROVE  /\ up /\ at[w] \notin {"none", "over", "gone"} /\ w \in 1 .. created
         /\ UNCHANGED <<created, prev, runID, runs, asker, up>>
         /\ \A v \in Walk \ {w} : /\ at'[v] = at[v] /\ next'[v] = next[v] /\ trace'[v] = trace[v]
                                  /\ status'[v] = status[v] /\ verdict'[v] = verdict[v]
                                  /\ steps'[v] = steps[v]
         /\ \/ status[w] \in {"idle", "driving"}
            \/ status'[w] = status[w] /\ verdict'[w] = verdict[w]
         /\ steps'[w] # steps[w] => status[w] = "driving"
<1> USE DEF row, runs, driver, asker, env
<1>1. up /\ at[w] \notin {"none", "over", "gone"} /\ UNCHANGED <<created, prev, runID, runs, asker, up>>
  BY DEF DriveStep, ClaimWalkthroughJob, DriveBrowser, GiveUp, InsertWalkthroughStep,
         FinishWalkthrough, Fail, DriveReadsDiff, DriveWritesDiff
<1>2. w \in 1 .. created
  BY <1>1 DEF Unsettled, TypeOK, RowsTyped, Walk
<1>3. \A v \in Walk \ {w} : at'[v] = at[v] /\ next'[v] = next[v] /\ trace'[v] = trace[v]
  BY DEF DriveStep, ClaimWalkthroughJob, DriveBrowser, GiveUp, InsertWalkthroughStep,
         FinishWalkthrough, Fail, DriveReadsDiff, Takes, DriveWritesDiff, Goto, Drop,
         TypeOK, DriversTyped
<1>4. \A v \in Walk \ {w} : /\ status'[v] = status[v] /\ verdict'[v] = verdict[v]
                           /\ steps'[v] = steps[v]
  BY DEF DriveStep, ClaimWalkthroughJob, DriveBrowser, GiveUp, InsertWalkthroughStep,
         FinishWalkthrough, Fail, Settle, SetStatus, DriveReadsDiff, DriveWritesDiff,
         TypeOK, RowsTyped
<1>5. /\ \/ status[w] \in {"idle", "driving"}
         \/ status'[w] = status[w] /\ verdict'[w] = verdict[w]
      /\ steps'[w] # steps[w] => status[w] = "driving"
  BY DEF DriveStep, ClaimWalkthroughJob, DriveBrowser, GiveUp, InsertWalkthroughStep,
         FinishWalkthrough, Fail, DriveReadsDiff, DriveWritesDiff, Unsettled
<1> QED BY <1>1, <1>2, <1>3, <1>4, <1>5

LEMMA ReqFrame ==
  ASSUME TypeOK, NEW r \in Request, ReqStep(r)
  PROVE  /\ up /\ reqAt[r] \notin {"new", "over", "gone"}
         /\ UNCHANGED <<created, status, verdict, prev, steps, driver, up>>
         /\ \A q \in Request \ {r} : /\ reqAt'[q] = reqAt[q] /\ of'[q] = of[q]
                                     /\ pages'[q] = pages[q] /\ job'[q] = job[q]
         /\ of'[r] \in {of[r], None}
<1> USE DEF row, runs, driver, asker, env
<1>1. /\ up /\ reqAt[r] \notin {"new", "over", "gone"}
      /\ UNCHANGED <<created, status, verdict, prev, steps, driver, up>>
  BY DEF ReqStep, Observe, SwapRunID, ClaimEvalJob, Eval, EvalReadsDiff, EvalWritesDiff
<1>2. /\ \A q \in Request \ {r} : /\ reqAt'[q] = reqAt[q] /\ of'[q] = of[q]
                                  /\ pages'[q] = pages[q] /\ job'[q] = job[q]
      /\ of'[r] \in {of[r], None}
  BY DEF ReqStep, Observe, SwapRunID, ClaimEvalJob, Eval, EvalReadsDiff, ReqTakes, EvalWritesDiff,
         ReqGoto, ReqDrop, ReqClaims, ReqSwaps, TypeOK, AskersTyped
<1> QED BY <1>1, <1>2

\* A row that names a run goes on naming one.
LEMMA RunStays ==
  ASSUME TypeOK, NEW r \in Request, ReqStep(r)
  PROVE  \A w \in Walk : runID[w] # None => runID'[w] # None
<1> USE DEF row, runs, driver, asker, env
<1>1. CASE SwapRunID(r)
  <2>1. runID' = runID \/ runID' = [runID EXCEPT ![of[r]] = r]
    BY <1>1 DEF SwapRunID
  <2>2. r # None
    BY DEF Request, None
  <2> QED BY <2>1, <2>2 DEF TypeOK, RowsTyped
<1>2. CASE ~SwapRunID(r)
  BY <1>2 DEF ReqStep, Observe, ClaimEvalJob, Eval, EvalReadsDiff, EvalWritesDiff
<1> QED BY <1>1, <1>2

\* The statements that were rejected stay rejected.
LEMMA Rejected ==
  ASSUME TypeOK, [Next]_vars
  PROVE  dbErrors \in Nat /\ dbErrors' \in {dbErrors, dbErrors + 1}
<1> USE DEF row, runs, driver, asker, env
<1>1. dbErrors \in Nat
  BY WalkthroughAssumption DEF TypeOK, EnvTyped
<1>2. ASSUME NEW w \in Walk, DriveStep(w) PROVE dbErrors' \in {dbErrors, dbErrors + 1}
  BY <1>2 DEF DriveStep, ClaimWalkthroughJob, DriveBrowser, GiveUp, InsertWalkthroughStep,
              FinishWalkthrough, Fail, Settle, DriveReadsDiff, DriveWritesDiff,
              SetWalkthroughDiff, DbOk, DbError
<1>3. ASSUME NEW r \in Request, ReqStep(r) PROVE dbErrors' \in {dbErrors, dbErrors + 1}
  BY <1>3 DEF ReqStep, Observe, SwapRunID, ClaimEvalJob, Eval, EvalReadsDiff, EvalWritesDiff,
              SetWalkthroughDiff, DbOk, DbError
<1>4. ASSUME \/ CreateWalkthrough \/ Crash \/ Boot \/ UNCHANGED vars
             \/ \E r \in Request : \/ \E w \in Walk : Evaluate(r, w)
                                   \/ \E s \in Request : EvaluateRun(r, s)
      PROVE  dbErrors' \in {dbErrors, dbErrors + 1}
  BY <1>4 DEF CreateWalkthrough, Crash, Boot, DbOk, DbError, Evaluate, EvaluateRun, vars
<1> QED BY <1>1, <1>2, <1>3, <1>4 DEF Next

----------------------------------------------------------------------------
(* Each part of the invariant is preserved.                                *)

LEMMA PlacedNext ==
  ASSUME TypeOK, Placed, [Next]_vars
  PROVE  Placed'
<1> USE DEF row, runs, driver, asker, env
<1>0. created \in Nat /\ created' \in Nat /\ created <= created'
  <2>1. created \in Nat
    BY WalkthroughAssumption DEF TypeOK, RowsTyped
  <2>2. created' \in {created, created + 1}
    <3>1. CASE CreateWalkthrough BY <3>1 DEF CreateWalkthrough
    <3>2. CASE Crash \/ Boot BY <3>2 DEF Crash, Boot
    <3>3. CASE \E w \in Walk : DriveStep(w)
      BY <3>3 DEF DriveStep, ClaimWalkthroughJob, DriveBrowser, GiveUp, InsertWalkthroughStep,
                  FinishWalkthrough, Fail, DriveReadsDiff, DriveWritesDiff
    <3>4. CASE \E r \in Request : ReqStep(r)
      BY <3>4, ReqFrame
    <3>5. CASE \E r \in Request : \/ \E w \in Walk : Evaluate(r, w)
                                  \/ \E s \in Request : EvaluateRun(r, s)
      BY <3>5 DEF Evaluate, EvaluateRun
    <3>6. CASE UNCHANGED vars BY <3>6 DEF vars
    <3> QED BY <3>1, <3>2, <3>3, <3>4, <3>5, <3>6 DEF Next
  <2> QED BY <2>1, <2>2
<1>1. ASSUME UNCHANGED <<asker, runID>> PROVE Placed'
  BY <1>0, <1>1 DEF Placed
<1>2. ASSUME NEW r \in Request, ReqStep(r) PROVE Placed'
  <2>1. created' = created /\ \A q \in Request \ {r} : reqAt'[q] = reqAt[q] /\ of'[q] = of[q] /\ job'[q] = job[q]
    BY <1>2, ReqFrame
  <2>2. of[r] \in 0 .. created /\ reqAt[r] # "new"
    BY <1>0, <1>2, ReqFrame DEF Placed, ReqStep, Observe, SwapRunID, ClaimEvalJob, Eval, EvalReadsDiff, EvalWritesDiff
  <2>3. /\ reqAt'[r] # "new"
        /\ reqAt'[r] \in {"observe", "swap", "read", "write"} => of'[r] \in 1 .. created
        /\ reqAt'[r] = "swap" /\ job'[r] # None => runID[of'[r]] # None
        /\ reqAt'[r] \in {"claim", "eval"} => job'[r] \in Request /\ of'[r] \in 0 .. created
    <3> USE <1>0, <2>2 DEF AskersTyped, TypeOK
    <3>1. CASE Observe(r)
      <4>1. of[r] \in Walk
        BY <3>1, WalkthroughAssumption DEF Observe, Placed, RowsTyped, Walk
      <4>2. runID[of[r]] # None => runID[of[r]] \in Request
        BY <4>1 DEF RowsTyped
      <4> QED BY <3>1, <4>2 DEF Observe, ReqClaims, ReqSwaps, ReqDrop, Placed
    <3>2. CASE SwapRunID(r)
      <4>1. of[r] \in Walk
        BY <3>2, WalkthroughAssumption DEF SwapRunID, Placed, RowsTyped, Walk
      <4>2. ~Unchanged(r) => runID[of[r]] \in Request
        BY <3>2, <4>1 DEF SwapRunID, RowsTyped, Unchanged, Placed
      <4> QED BY <3>2, <4>2 DEF SwapRunID, ReqClaims, ReqDrop, Placed
    <3>3. CASE ClaimEvalJob(r)
      BY <3>3 DEF ClaimEvalJob, ReqGoto, ReqDrop, Placed
    <3>4. CASE Eval(r)
      <4>1. of[r] # None => of[r] \in 1 .. created
        BY DEF None
      <4> QED BY <3>4, <4>1 DEF Eval, ReqGoto, ReqDrop
    <3>5. CASE EvalReadsDiff(r)
      BY <3>5 DEF EvalReadsDiff, ReqTakes, ReqDrop, Placed
    <3>6. CASE EvalWritesDiff(r)
      BY <3>6 DEF EvalWritesDiff, ReqDrop
    <3> QED BY <1>2, <3>1, <3>2, <3>3, <3>4, <3>5, <3>6 DEF ReqStep
  <2>4. \A w \in Walk : runID[w] # None => runID'[w] # None
    BY <1>2, RunStays
  <2>5. 1 .. created \subseteq Walk
    BY WalkthroughAssumption DEF TypeOK, RowsTyped, Walk
  <2>6. \A q \in Request : reqAt'[q] = "swap" /\ job'[q] # None => runID'[of'[q]] # None
    BY <2>1, <2>3, <2>4, <2>5 DEF Placed
  <2> QED BY <2>1, <2>3, <2>6 DEF Placed
<1>3. ASSUME NEW r \in Request, NEW w \in Walk, Evaluate(r, w) PROVE Placed'
  <2>1. w \in 1 .. created
    BY <1>0, <1>3 DEF Evaluate, Walk
  <2> QED BY <1>0, <1>3, <2>1 DEF Evaluate, Placed, TypeOK, AskersTyped
<1>4. ASSUME NEW r \in Request, NEW s \in Request, EvaluateRun(r, s) PROVE Placed'
  <2>1. of[r] \in 0 .. created
    BY <1>0, <1>4 DEF EvaluateRun, Arrives, Placed, None
  <2> QED BY <1>0, <1>4, <2>1 DEF EvaluateRun, ReqClaims, Placed, TypeOK, AskersTyped
<1>5. CASE Crash
  BY <1>5 DEF Crash, Placed
<1>6. CASE CreateWalkthrough \/ Boot \/ (\E w \in Walk : DriveStep(w)) \/ UNCHANGED vars
  <2>1. UNCHANGED <<asker, runID>>
    BY <1>6 DEF CreateWalkthrough, Boot, vars, DriveStep, ClaimWalkthroughJob, DriveBrowser, GiveUp,
                InsertWalkthroughStep, FinishWalkthrough, Fail, DriveReadsDiff, DriveWritesDiff
  <2> QED BY <1>1, <2>1
<1> QED BY <1>2, <1>3, <1>4, <1>5, <1>6 DEF Next

LEMMA StoppedNext ==
  ASSUME TypeOK, Unsettled, Stopped, [Next]_vars
  PROVE  Stopped'
<1> USE DEF row, runs, driver, asker, env
<1>1. CASE CreateWalkthrough
  BY <1>1 DEF CreateWalkthrough, Stopped
<1>2. CASE Crash
  BY <1>2 DEF Crash, Stopped
<1>3. CASE Boot
  BY <1>3 DEF Boot, Stopped
<1>4. CASE \E w \in Walk : DriveStep(w)
  BY <1>4, DriveFrame DEF Stopped
<1>5. CASE \E r \in Request : ReqStep(r)
  BY <1>5, ReqFrame DEF Stopped
<1>6. CASE \E r \in Request : \/ \E w \in Walk : Evaluate(r, w)
                              \/ \E s \in Request : EvaluateRun(r, s)
  BY <1>6 DEF Evaluate, EvaluateRun, Stopped
<1>7. CASE UNCHANGED vars
  BY <1>7 DEF vars, Stopped
<1> QED BY <1>1, <1>2, <1>3, <1>4, <1>5, <1>6, <1>7 DEF Next

\* A sweep touches the rows being driven, and those only.
LEMMA BootFrame ==
  ASSUME TypeOK, Boot
  PROVE  /\ UNCHANGED <<created, prev, runID, steps, runOf, runPages, driver, asker>>
         /\ \A w \in Walk : status[w] # "driving" => status'[w] = status[w] /\ verdict'[w] = verdict[w]
<1>1. Swept => \A w \in Walk : status[w] # "driving" => status'[w] = status[w] /\ verdict'[w] = verdict[w]
  BY DEF Swept, SweptAs
<1> QED BY <1>1 DEF Boot

LEMMA UnsettledNext ==
  ASSUME TypeOK, Placed, Stopped, Unsettled, [Next]_vars
  PROVE  Unsettled'
<1> USE DEF row, runs, driver, asker, env
<1>0. created \in Nat
  BY WalkthroughAssumption DEF TypeOK, RowsTyped
<1>1. CASE CreateWalkthrough
  <2>1. created + 1 \in Walk /\ created' = created + 1
    BY <1>0, <1>1, WalkthroughAssumption DEF CreateWalkthrough, Walk
  <2>2. /\ at' = [at EXCEPT ![created + 1] = "created"]
        /\ UNCHANGED <<status, runID>>
    BY <1>1 DEF CreateWalkthrough, Goto
  <2>3. status[created + 1] = "idle"
    BY <1>0, <2>1 DEF Unsettled
  <2>4. \A w \in Walk : w > created + 1 => w > created
    BY <1>0 DEF Walk
  <2>5. \A w \in Walk : w # created + 1 => at'[w] = at[w]
    BY <2>1, <2>2 DEF TypeOK, DriversTyped
  <2>6. at'[created + 1] = "created"
    BY <2>1, <2>2 DEF TypeOK, DriversTyped
  <2>7. \A w \in Walk : w > created + 1 => w # created + 1
    BY <1>0 DEF Walk
  <2> QED BY <2>1, <2>2, <2>3, <2>4, <2>5, <2>6, <2>7 DEF Unsettled
<1>2. CASE Crash
  BY <1>2 DEF Crash, Unsettled
<1>3. CASE Boot
  <2>1. \A w \in Walk : at[w] \in {"none", "over", "gone"}
    BY <1>3 DEF Boot, Stopped
  <2> QED BY <1>3, <2>1, BootFrame DEF Unsettled
<1>4. ASSUME NEW w \in Walk, DriveStep(w) PROVE Unsettled'
  <2>1. /\ at'[w] # "created" /\ at'[w] # "none"
        /\ at'[w] \in {"drive", "persist", "finish", "fail"} => status'[w] = "driving"
    BY <1>4 DEF DriveStep, ClaimWalkthroughJob, DriveBrowser, GiveUp, InsertWalkthroughStep,
         FinishWalkthrough, Fail, Settle, SetStatus, DriveReadsDiff, Takes, DriveWritesDiff, Goto, Drop,
         TypeOK, DriversTyped, RowsTyped, Unsettled
  <2>2. ~(w > created)
    BY <1>0, <1>4, DriveFrame
  <2> QED BY <1>4, <2>1, <2>2, DriveFrame DEF Unsettled
<1>5. ASSUME NEW r \in Request, ReqStep(r) PROVE Unsettled'
  <2>1. \A w \in Walk : w > created => runID'[w] = runID[w]
    <3>1. CASE SwapRunID(r)
      <4>1. \A w \in Walk : w > created => w # of[r]
        BY <1>0, <3>1 DEF SwapRunID, Placed
      <4> QED BY <3>1, <4>1 DEF SwapRunID, TypeOK, RowsTyped
    <3>2. CASE ~SwapRunID(r)
      BY <1>5, <3>2 DEF ReqStep, Observe, ClaimEvalJob, Eval, EvalReadsDiff, EvalWritesDiff
    <3> QED BY <3>1, <3>2
  <2> QED BY <1>5, <2>1, ReqFrame DEF Unsettled
<1>6. CASE \E r \in Request : \/ \E w \in Walk : Evaluate(r, w)
                              \/ \E s \in Request : EvaluateRun(r, s)
  BY <1>6 DEF Evaluate, EvaluateRun, Unsettled
<1>7. CASE UNCHANGED vars
  BY <1>7 DEF vars, Unsettled
<1> QED BY <1>1, <1>2, <1>3, <1>4, <1>5, <1>6, <1>7 DEF Next

LEMMA StoringNext ==
  ASSUME TypeOK, Unsettled, Storing, [Next]_vars
  PROVE  Storing'
<1> USE DEF row, runs, driver, asker, env
<1>1. CASE CreateWalkthrough
  <2>1. created + 1 \in Walk
    BY <1>1, WalkthroughAssumption DEF CreateWalkthrough, Walk, TypeOK, RowsTyped
  <2>2. created + 1 > created
    BY WalkthroughAssumption DEF TypeOK, RowsTyped
  <2>3. next[created + 1] = 1
    BY <2>1, <2>2 DEF Unsettled, Storing
  <2> QED BY <1>1, <2>1, <2>3 DEF CreateWalkthrough, Goto, Storing, TypeOK, DriversTyped
<1>2. CASE Crash
  BY <1>2 DEF Crash, Storing
<1>3. CASE Boot
  BY <1>3 DEF Boot, Storing
<1>4. ASSUME NEW w \in Walk, DriveStep(w) PROVE Storing'
  <2>1. /\ at'[w] \in {"none", "created", "drive"} => next'[w] = 1
        /\ at'[w] = "persist" => next'[w] \in 1 .. trace'[w].n
    <3> USE DEF Storing, TypeOK, DriversTyped
    <3>1. CASE DriveBrowser(w)
      <4>1. CASE Drop(w, "over")
        BY <4>1 DEF Drop
      <4>2. CASE ~Drop(w, "over")
        <5>1. PICK t \in Trace : /\ trace' = [trace EXCEPT ![w] = t]
                                 /\ at' = [at EXCEPT ![w] = IF t.n = 0 THEN "finish" ELSE "persist"]
          BY <3>1, <4>2 DEF DriveBrowser
        <5>2. next'[w] = 1 /\ t.n \in Nat
          BY <3>1, <4>2, TraceTyped DEF DriveBrowser
        <5>3. t.n # 0 => 1 \in 1 .. t.n
          BY <5>2
        <5> QED BY <5>1, <5>2, <5>3
      <4> QED BY <4>1, <4>2
    <3>2. CASE InsertWalkthroughStep(w)
      <4>1. trace[w].n \in 0 .. MaxSteps /\ next[w] \in 1 .. trace[w].n
        BY <3>2, TraceTyped DEF InsertWalkthroughStep
      <4>2. next[w] < trace[w].n => next[w] + 1 \in 1 .. trace[w].n
        BY <4>1
      <4> QED BY <3>2, <4>1, <4>2 DEF InsertWalkthroughStep
    <3>3. CASE ClaimWalkthroughJob(w)
      BY <3>3 DEF ClaimWalkthroughJob, Goto, Drop
    <3>4. CASE GiveUp(w) \/ FinishWalkthrough(w) \/ Fail(w) \/ DriveReadsDiff(w) \/ DriveWritesDiff(w)
      BY <3>4 DEF GiveUp, FinishWalkthrough, Fail, DriveReadsDiff, Takes, DriveWritesDiff, Drop
    <3> QED BY <1>4, <3>1, <3>2, <3>3, <3>4 DEF DriveStep
  <2> QED BY <1>4, <2>1, DriveFrame DEF Storing
<1>5. CASE \E r \in Request : ReqStep(r)
  BY <1>5, ReqFrame DEF Storing
<1>6. CASE \E r \in Request : \/ \E w \in Walk : Evaluate(r, w)
                              \/ \E s \in Request : EvaluateRun(r, s)
  BY <1>6 DEF Evaluate, EvaluateRun, Storing
<1>7. CASE UNCHANGED vars
  BY <1>7 DEF vars, Storing
<1> QED BY <1>1, <1>2, <1>3, <1>4, <1>5, <1>6, <1>7 DEF Next

\* What a request that moves a run or a walkthrough leaves of them.
LEMMA RunsFrame ==
  ASSUME TypeOK, NEW r \in Request, ReqStep(r), ~SwapRunID(r)
  PROVE  UNCHANGED <<runID, runOf, runPages>>
BY DEF ReqStep, Observe, ClaimEvalJob, Eval, EvalReadsDiff, EvalWritesDiff, row, runs

LEMMA SettledNext ==
  ASSUME TypeOK, Placed, Stopped, Unsettled, SettledTrace, MaterializedOnce, [Next]_vars
  PROVE  SettledTrace'
<1> USE DEF row, runs, driver, asker, env
<1>0. created \in Nat /\ 1 .. created \subseteq Walk
  BY WalkthroughAssumption DEF TypeOK, RowsTyped, Walk
<1>1. CASE CreateWalkthrough
  <2>1. \A i \in 0 .. created : i \in 0 .. created'
    BY <1>0, <1>1 DEF CreateWalkthrough
  <2> QED BY <1>1, <2>1 DEF CreateWalkthrough, SettledTrace
<1>2. CASE Crash
  BY <1>2 DEF Crash, SettledTrace
<1>3. CASE Boot
  <2>1. \A r \in Request : reqAt[r] \notin {"observe", "swap"}
    BY <1>3 DEF Boot, Stopped
  <2>2. \A w \in Walk : status[w] = "done" => status'[w] = "done"
    BY <1>3, BootFrame
  <2>3. \A r \in Request : runOf[r] # None => runOf[r] \in Walk
    BY DEF TypeOK, RunsTyped
  <2>4. UNCHANGED <<created, steps, runOf, reqAt, of, pages, job>>
    BY <1>3, BootFrame
  <2> QED BY <2>1, <2>2, <2>3, <2>4 DEF SettledTrace
<1>4. ASSUME NEW w \in Walk, DriveStep(w) PROVE SettledTrace'
  <2>1. \A v \in Walk : status[v] = "done" => status'[v] = "done" /\ steps'[v] = steps[v]
    BY <1>4, DriveFrame
  <2>2. \A r \in Request : /\ runOf[r] # None => runOf[r] \in Walk
                           /\ reqAt[r] \in {"observe", "swap"} => of[r] \in Walk
    BY <1>0 DEF TypeOK, RunsTyped, Placed
  <2>3. UNCHANGED <<created, runOf, reqAt, of, pages, job>>
    BY <1>4, DriveFrame
  <2> QED BY <2>1, <2>2, <2>3 DEF SettledTrace
<1>5. ASSUME NEW r \in Request, ReqStep(r) PROVE SettledTrace'
  <2>1. /\ UNCHANGED <<created, status, steps>>
        /\ \A q \in Request \ {r} : /\ reqAt'[q] = reqAt[q] /\ of'[q] = of[q]
                                    /\ pages'[q] = pages[q] /\ job'[q] = job[q]
    BY <1>5, ReqFrame
  <2>2. /\ \A q \in Request \ {r} : runOf'[q] = runOf[q]
        /\ runOf'[r] \in 0 .. created
        /\ runOf'[r] # None => status[runOf'[r]] = "done"
    <3>1. CASE SwapRunID(r)
      <4>1. of[r] \in 1 .. created /\ status[of[r]] = "done"
        BY <3>1 DEF SwapRunID, Placed, SettledTrace
      <4>2. runOf' \in {runOf, [runOf EXCEPT ![r] = of[r]]}
        BY <3>1 DEF SwapRunID
      <4>3. of[r] \in 0 .. created
        BY <1>0, <4>1
      <4> QED BY <4>1, <4>2, <4>3 DEF TypeOK, RunsTyped, SettledTrace
    <3>2. CASE ~SwapRunID(r)
      BY <1>5, <3>2, RunsFrame DEF SettledTrace
    <3> QED BY <3>1, <3>2
  <2>3. /\ reqAt'[r] \notin {"new", "observe"}
        /\ reqAt'[r] = "swap" => /\ reqAt[r] = "observe" /\ of'[r] = of[r]
                                 /\ job'[r] = runID[of[r]]
                                 /\ pages'[r] = steps[of[r]] /\ runOf' = runOf
    BY <1>5 DEF ReqStep, Observe, SwapRunID, ClaimEvalJob, Eval, EvalReadsDiff, ReqTakes,
                EvalWritesDiff, ReqGoto, ReqDrop, ReqClaims, ReqSwaps, TypeOK, AskersTyped
  <2>4. reqAt'[r] = "swap" => runOf[r] = None /\ status[of[r]] = "done" /\ steps[of[r]] # {}
    BY <2>3 DEF SettledTrace
  <2>5. reqAt'[r] = "swap" /\ job'[r] # None => runOf'[job'[r]] = of'[r]
    <3>1. reqAt'[r] = "swap" => of[r] \in 1 .. created
      BY <2>3 DEF Placed
    <3> QED BY <2>3, <3>1 DEF MaterializedOnce, Made
  <2>6. \A q \in Request \ {r} : reqAt'[q] = "swap" /\ job'[q] # None => runOf'[job'[q]] = of'[q]
    <3>1. ASSUME NEW q \in Request \ {r}, reqAt[q] = "swap", job[q] # None
          PROVE  runOf'[job[q]] = of[q]
      <4>1. runOf[job[q]] = of[q] /\ of[q] # None /\ job[q] \in Request
        BY <3>1 DEF SettledTrace, Placed, None, TypeOK, AskersTyped
      <4>2. CASE SwapRunID(r)
        <5>1. runOf[r] = None
          BY <4>2 DEF SwapRunID, SettledTrace
        <5>2. job[q] # r
          BY <4>1, <5>1
        <5> QED BY <2>2, <4>1, <5>2
      <4>3. CASE ~SwapRunID(r)
        BY <1>5, <4>1, <4>3, RunsFrame
      <4> QED BY <4>2, <4>3
    <3> QED BY <2>1, <3>1
  <2>7. /\ \A q \in Request : /\ runOf'[q] \in 0 .. created'
                              /\ runOf'[q] # None => status'[runOf'[q]] = "done"
        /\ \A q \in Request \ {r} : runOf'[q] = runOf[q]
    BY <2>1, <2>2 DEF SettledTrace
  <2>8. \A q \in Request :
          /\ reqAt'[q] \in {"new", "observe", "swap"} => runOf'[q] = None
          /\ reqAt'[q] \in {"observe", "swap"} => status'[of'[q]] = "done" /\ steps'[of'[q]] # {}
          /\ reqAt'[q] = "swap" => pages'[q] = steps'[of'[q]]
    BY <2>1, <2>2, <2>3, <2>4 DEF SettledTrace
  <2> QED BY <2>5, <2>6, <2>7, <2>8 DEF SettledTrace
<1>6. ASSUME NEW r \in Request, NEW w \in Walk, Evaluate(r, w) PROVE SettledTrace'
  <2>1. reqAt[r] = "new" /\ status[w] = "done" /\ steps[w] # {} /\ w \in Walk
    BY <1>6 DEF Evaluate, Arrives, Evaluable
  <2> QED BY <1>6, <2>1 DEF Evaluate, SettledTrace, TypeOK, AskersTyped
<1>7. ASSUME NEW r \in Request, NEW s \in Request, EvaluateRun(r, s) PROVE SettledTrace'
  BY <1>7 DEF EvaluateRun, ReqClaims, SettledTrace, TypeOK, AskersTyped
<1>8. CASE UNCHANGED vars
  BY <1>8 DEF vars, SettledTrace
<1> QED BY <1>1, <1>2, <1>3, <1>4, <1>5, <1>6, <1>7, <1>8 DEF Next

LEMMA BaselineNext ==
  ASSUME TypeOK, Placed, Stopped, Unsettled, BaselineObserved, [Next]_vars
  PROVE  /\ BaselineObserved'
         /\ \A w \in 1 .. created : LET p == prev[w]
                                   IN p # None => status'[p] = status[p] /\ verdict'[p] = verdict[p]
<1> USE DEF row, runs, driver, asker, env
<1>0. created \in Nat /\ 1 .. created \subseteq Walk /\ created <= MaxWalks
  BY WalkthroughAssumption DEF TypeOK, RowsTyped, Walk
<1>1. \A w \in 1 .. created : prev[w] # None => prev[w] \in Walk /\ status[prev[w]] \in {"done", "failed"}
  BY <1>0 DEF BaselineObserved, Terminal, TypeOK, RowsTyped
<1>2. ASSUME UNCHANGED <<created, prev>>,
             \A w \in Walk : status[w] \in {"done", "failed"} =>
               status'[w] = status[w] /\ verdict'[w] = verdict[w]
      PROVE  /\ BaselineObserved'
             /\ \A w \in 1 .. created : prev[w] # None =>
                  status'[prev[w]] = status[prev[w]] /\ verdict'[prev[w]] = verdict[prev[w]]
  <2>1. \A w \in 1 .. created : prev[w] # None =>
            status'[prev[w]] = status[prev[w]] /\ verdict'[prev[w]] = verdict[prev[w]]
    BY <1>1, <1>2
  <2>2. created' = created /\ prev' = prev
    BY <1>2
  <2>3. \A w \in 1 .. created : prev[w] # None =>
            prev[w] < w /\ Terminal(prev[w])' /\ ~verdict'[prev[w]].infra
    BY <2>1, <2>2 DEF BaselineObserved, Terminal
  <2>4. BaselineObserved'
    BY <2>2, <2>3 DEF BaselineObserved, Terminal
  <2> QED BY <2>1, <2>4
<1>3. CASE CreateWalkthrough
  <2>1. PICK p \in latestTerminalWalkthroughID : prev' = [prev EXCEPT ![created + 1] = p]
    BY <1>3 DEF CreateWalkthrough
  <2>2. created + 1 \in Walk /\ created' = created + 1 /\ UNCHANGED <<status, verdict>>
    <3>1. created < MaxWalks /\ created' = created + 1 /\ UNCHANGED <<status, verdict>>
      BY <1>3 DEF CreateWalkthrough
    <3>2. created + 1 \in Walk
      BY <1>0, <3>1, WalkthroughAssumption DEF Walk
    <3> QED BY <3>1, <3>2
  <2>3. p # None => p \in 1 .. created /\ Terminal(p) /\ ~verdict[p].infra
    BY DEF latestTerminalWalkthroughID, Baselines
  <2>4. prev'[created + 1] = p /\ \A w \in 1 .. created : prev'[w] = prev[w]
    BY <1>0, <2>1, <2>2 DEF TypeOK, RowsTyped
  <2>5. \A w \in 1 .. created' : w \in 1 .. created \/ w = created + 1
    BY <1>0, <2>2
  <2>6. p # None => p < created + 1
    BY <1>0, <2>3
  <2>7. BaselineObserved'
    BY <2>2, <2>3, <2>4, <2>5, <2>6 DEF BaselineObserved, Terminal
  <2> QED BY <2>2, <2>7
<1>4. CASE Boot
  BY <1>2, <1>4, BootFrame
<1>5. CASE \E w \in Walk : DriveStep(w)
  <2>1. PICK w \in Walk : DriveStep(w)
    BY <1>5
  <2> QED BY <1>2, <2>1, DriveFrame
<1>6. CASE \E r \in Request : ReqStep(r)
  BY <1>2, <1>6, ReqFrame
<1>7. CASE \E r \in Request : \/ \E w \in Walk : Evaluate(r, w)
                              \/ \E s \in Request : EvaluateRun(r, s)
  BY <1>2, <1>7 DEF Evaluate, EvaluateRun
<1>8. CASE Crash \/ UNCHANGED vars
  BY <1>2, <1>8 DEF Crash, vars
<1> QED BY <1>3, <1>4, <1>5, <1>6, <1>7, <1>8 DEF Next

LEMMA MadeFinite ==
  ASSUME NEW S \in SUBSET Request
  PROVE  IsFiniteSet(S) /\ Cardinality(S) \in Nat
<1>1. IsFiniteSet(Request)
  BY FS_Interval, WalkthroughAssumption DEF Request
<1> QED BY <1>1, FS_Subset, FS_CardinalityType

\* A row goes back for another run only with a statement rejected, and the swap
\* of one request makes those of the others fail.
LEMMA OnceNext ==
  ASSUME TypeOK, Placed, Unsettled, SettledTrace, MaterializedOnce, Excused, [Next]_vars
  PROVE  MaterializedOnce' /\ Excused'
<1> USE DEF row, runs, driver, asker, env
<1>0. created \in Nat /\ 1 .. created \subseteq Walk
  BY WalkthroughAssumption DEF TypeOK, RowsTyped, Walk
<1>a. \A w : Made(w) \in SUBSET Request /\ Cardinality(Made(w)) \in Nat
  BY MadeFinite DEF Made
<1>b. PICK e \in Nat, f \in Nat : e = dbErrors /\ f = dbErrors' /\ e <= f
  BY Rejected
<1>f. e <= f
  BY <1>b
<1>c. ASSUME UNCHANGED <<created, runID, runOf>> PROVE MaterializedOnce'
  <2>1. \A w : Made(w)' = Made(w)
    BY <1>c DEF Made
  <2>2. \A w \in 1 .. created : Cardinality(Made(w)) <= 1 + dbErrors'
    <3> SUFFICES ASSUME NEW w \in 1 .. created PROVE Cardinality(Made(w)) <= 1 + dbErrors'
      OBVIOUS
    <3>1. PICK n \in Nat : n = Cardinality(Made(w))
      BY <1>a
    <3>2. n <= 1 + e
      BY <1>b, <3>1 DEF MaterializedOnce
    <3>3. n <= 1 + f
      BY <1>f, <3>2
    <3> QED BY <1>b, <3>1, <3>3
  <2> QED BY <1>c, <2>1, <2>2 DEF MaterializedOnce
<1>d. ASSUME UNCHANGED <<runID, runOf>>, NEW r \in Request,
             \A q \in Request \ {r} : reqAt'[q] = reqAt[q] /\ of'[q] = of[q] /\ job'[q] = job[q],
             \/ reqAt'[r] # "swap" \/ job'[r] = None
             \/ reqAt[r] = "observe" /\ of'[r] = of[r] /\ dbErrors' = dbErrors + 1
      PROVE  Excused'
  <2>1. \A w : Made(w)' = Made(w)
    BY <1>d DEF Made
  <2> SUFFICES ASSUME NEW w \in Walk, NEW q \in Request, reqAt'[q] = "swap", of'[q] = w,
                      job'[q] = runID[w], runID[w] # None
               PROVE  Cardinality(Made(w)) <= dbErrors'
    BY <1>d, <2>1 DEF Excused, Renewing
  <2>2. PICK n \in Nat : n = Cardinality(Made(w))
    BY <1>a
  <2>3. CASE q = r
    <3>1. of[r] = w /\ w \in 1 .. created /\ f = e + 1
      BY <1>b, <1>d, <2>3 DEF Placed
    <3>2. n <= 1 + e
      BY <1>b, <2>2, <3>1 DEF MaterializedOnce
    <3>3. n <= f
      BY <3>1, <3>2
    <3> QED BY <1>b, <2>2, <3>3
  <2>4. CASE q # r
    <3>1. q \in Renewing(w)
      BY <1>d, <2>4 DEF Renewing
    <3>2. n <= e
      BY <1>b, <2>2, <3>1 DEF Excused
    <3>3. n <= f
      BY <1>f, <3>2
    <3> QED BY <1>b, <2>2, <3>3
  <2> QED BY <2>3, <2>4
<1>e. ASSUME UNCHANGED <<runID, runOf>>,
             \A q \in Request : reqAt'[q] = "swap" =>
                reqAt[q] = "swap" /\ of'[q] = of[q] /\ job'[q] = job[q]
      PROVE  Excused'
  <2>1. \A w : Made(w)' = Made(w) /\ (Renewing(w))' \subseteq Renewing(w)
    BY <1>e DEF Made, Renewing
  <2> SUFFICES ASSUME NEW w \in Walk, (Renewing(w))' # {}
               PROVE  Cardinality(Made(w)) <= dbErrors'
    BY <2>1 DEF Excused
  <2>2. PICK n \in Nat : n = Cardinality(Made(w))
    BY <1>a
  <2>3. Renewing(w) # {}
    BY <2>1
  <2>4. n <= e
    BY <1>b, <2>2, <2>3 DEF Excused
  <2>5. n <= f
    BY <1>f, <2>4
  <2> QED BY <1>b, <2>2, <2>5
<1>1. CASE CreateWalkthrough
  <2>1. /\ created' = created + 1 /\ UNCHANGED <<runID, runOf, asker, dbErrors>> /\ created + 1 \in Walk
        /\ created + 1 > created
    BY <1>0, <1>1, WalkthroughAssumption DEF CreateWalkthrough, Walk
  <2>2. runID[created + 1] = None /\ Made(created + 1) = {}
    <3>1. runID[created + 1] = None
      BY <2>1 DEF Unsettled
    <3>2. \A r \in Request : runOf[r] \in 0 .. created
      BY DEF SettledTrace
    <3>3. \A i \in 0 .. created : i # created + 1
      BY <1>0
    <3> QED BY <3>1, <3>2, <3>3 DEF Made
  <2>3. \A w \in 1 .. created' : w \in 1 .. created \/ w = created + 1
    BY <1>0, <2>1
  <2>4. \A w : Made(w)' = Made(w)
    BY <2>1 DEF Made
  <2>5. Cardinality(Made(created + 1)) <= 1 + dbErrors
    <3>1. Cardinality(Made(created + 1)) = 0
      BY <2>2, FS_EmptySet
    <3> QED BY <1>b, <3>1
  <2>6. MaterializedOnce'
    BY <2>1, <2>2, <2>3, <2>4, <2>5 DEF MaterializedOnce
  <2> QED BY <1>e, <2>1, <2>6
<1>2. ASSUME NEW r \in Request, SwapRunID(r) PROVE MaterializedOnce' /\ Excused'
  <2>1. /\ created' = created /\ of[r] \in 1 .. created /\ runOf[r] = None
        /\ reqAt[r] = "swap" /\ reqAt'[r] # "swap"
        /\ \A q \in Request \ {r} : reqAt'[q] = reqAt[q] /\ of'[q] = of[q] /\ job'[q] = job[q]
    BY <1>2 DEF SwapRunID, ReqClaims, ReqDrop, Placed, SettledTrace, TypeOK, AskersTyped
  <2>2. CASE UNCHANGED <<runID, runOf>>
    BY <1>c, <1>d, <2>1, <2>2
  <2>3. CASE /\ runID[of[r]] = job[r] /\ runID' = [runID EXCEPT ![of[r]] = r]
             /\ runOf' = [runOf EXCEPT ![r] = of[r]]
    <3>1. PICK v \in 1 .. created : v = of[r]
      BY <2>1
    <3>2. /\ \A w \in Walk : runID'[w] = IF w = v THEN r ELSE runID[w]
          /\ \A q \in Request : runOf'[q] = IF q = r THEN v ELSE runOf[q]
      BY <1>0, <2>3, <3>1 DEF TypeOK, RowsTyped, RunsTyped
    <3>3. r # None /\ v # None
      BY <1>0 DEF Request, None
    <3>4. r \notin Made(v) /\ Made(v)' = Made(v) \cup {r}
      BY <2>1, <3>2, <3>3 DEF Made
    <3>5. \A w \in Walk \ {v} : Made(w)' = Made(w)
      <4> SUFFICES ASSUME NEW w \in Walk \ {v}, NEW q \in Request
                   PROVE  runOf'[q] = w <=> runOf[q] = w
        BY DEF Made
      <4>1. w # None
        BY DEF Walk, None
      <4> QED BY <2>1, <3>2, <4>1
    <3>6. PICK n \in Nat : n = Cardinality(Made(v))
      BY <1>a
    <3>7. n <= e
      <4>1. CASE job[r] = None
        <5>1. Made(v) = {}
          BY <2>3, <3>1, <4>1 DEF MaterializedOnce
        <5>2. n = 0
          BY <3>6, <5>1, FS_EmptySet
        <5> QED BY <5>2
      <4>2. CASE job[r] # None
        <5>1. r \in Renewing(v)
          BY <2>1, <2>3, <3>1, <4>2 DEF Renewing
        <5>2. v \in Walk
          BY <1>0
        <5> QED BY <1>b, <3>6, <5>1, <5>2 DEF Excused
      <4> QED BY <4>1, <4>2
    <3>8. Cardinality(Made(v) \cup {r}) = n + 1
      BY <1>a, <3>4, <3>6, MadeFinite, FS_AddElement
    <3>9. n + 1 <= 1 + f
      BY <1>f, <3>7
    <3>10. \A w \in 1 .. created : w # v => Cardinality(Made(w)) <= 1 + dbErrors'
      <4> SUFFICES ASSUME NEW w \in 1 .. created PROVE Cardinality(Made(w)) <= 1 + dbErrors'
        OBVIOUS
      <4>1. PICK k \in Nat : k = Cardinality(Made(w))
        BY <1>a
      <4>2. k <= 1 + e
        BY <1>b, <4>1 DEF MaterializedOnce
      <4>3. k <= 1 + f
        BY <1>f, <4>2
      <4> QED BY <1>b, <4>1, <4>3
    <3>11. MaterializedOnce'
      <4> SUFFICES ASSUME NEW w \in 1 .. created
                   PROVE  /\ runID'[w] = None => Made(w)' = {}
                          /\ runID'[w] # None => runID'[w] \in Made(w)'
                          /\ Cardinality(Made(w)') <= 1 + dbErrors'
        BY <2>1 DEF MaterializedOnce
      <4>1. w \in Walk
        BY <1>0
      <4>2. CASE w = v
        BY <1>b, <3>2, <3>3, <3>4, <3>8, <3>9, <4>1, <4>2
      <4>3. CASE w # v
        BY <3>2, <3>5, <3>10, <4>1, <4>3 DEF MaterializedOnce
      <4> QED BY <4>2, <4>3
    <3>12. Excused'
      <4> SUFFICES ASSUME NEW w \in Walk, NEW q \in Request, reqAt'[q] = "swap", of'[q] = w,
                          job'[q] = runID'[w], runID'[w] # None
                   PROVE  Cardinality(Made(w)') <= dbErrors'
        BY DEF Excused, Renewing
      <4>1. q # r
        BY <2>1
      <4>2. reqAt[q] = "swap" /\ of[q] = w /\ job[q] = runID'[w] /\ w # None
        BY <2>1, <4>1 DEF Placed, None
      <4>3. runOf[job[q]] = w
        BY <4>2 DEF SettledTrace
      <4>4. w # v
        BY <2>1, <3>2, <4>2, <4>3
      <4>5. q \in Renewing(w) /\ Made(w)' = Made(w)
        BY <3>2, <3>5, <4>2, <4>4 DEF Renewing
      <4>6. PICK k \in Nat : k = Cardinality(Made(w))
        BY <1>a
      <4>7. k <= e
        BY <1>b, <4>5, <4>6 DEF Excused
      <4>8. k <= f
        BY <1>f, <4>7
      <4> QED BY <1>b, <4>5, <4>6, <4>8
    <3> QED BY <3>11, <3>12
  <2> QED BY <1>2, <2>2, <2>3 DEF SwapRunID, Unchanged
<1>3. CASE \E w \in Walk : DriveStep(w)
  <2>1. UNCHANGED <<created, runID, runOf, asker>>
    BY <1>3, DriveFrame
  <2> QED BY <1>c, <1>e, <2>1
<1>4. ASSUME NEW r \in Request, ReqStep(r), ~SwapRunID(r) PROVE MaterializedOnce' /\ Excused'
  <2>1. /\ UNCHANGED <<created, runID, runOf>>
        /\ \A q \in Request \ {r} : reqAt'[q] = reqAt[q] /\ of'[q] = of[q] /\ job'[q] = job[q]
    BY <1>4, ReqFrame, RunsFrame
  <2>2. \/ reqAt'[r] # "swap" \/ job'[r] = None
        \/ reqAt[r] = "observe" /\ of'[r] = of[r] /\ dbErrors' = dbErrors + 1
    BY <1>4 DEF ReqStep, Observe, DbError, ClaimEvalJob, Eval, EvalReadsDiff, ReqTakes, EvalWritesDiff,
                ReqGoto, ReqDrop, ReqClaims, ReqSwaps, TypeOK, AskersTyped
  <2> QED BY <1>c, <1>d, <2>1, <2>2
<1>5. CASE Crash
  <2>1. UNCHANGED <<created, runID, runOf>> /\ \A q \in Request : reqAt'[q] # "swap"
    BY <1>5 DEF Crash
  <2> QED BY <1>c, <1>e, <2>1
<1>6. CASE Boot \/ UNCHANGED vars
  BY <1>c, <1>e, <1>6 DEF Boot, vars
<1>7. ASSUME NEW r \in Request,
             \/ \E w \in Walk : Evaluate(r, w)
             \/ \E s \in Request : EvaluateRun(r, s)
      PROVE  MaterializedOnce' /\ Excused'
  <2>1. /\ UNCHANGED <<created, runID, runOf>> /\ reqAt'[r] # "swap"
        /\ \A q \in Request \ {r} : reqAt'[q] = reqAt[q] /\ of'[q] = of[q] /\ job'[q] = job[q]
    BY <1>7 DEF Evaluate, EvaluateRun, ReqClaims, TypeOK, AskersTyped
  <2> QED BY <1>c, <1>d, <2>1
<1> QED BY <1>1, <1>2, <1>3, <1>4, <1>5, <1>6, <1>7 DEF Next

LEMMA WholeNext ==
  ASSUME TypeOK, Placed, Unsettled, SettledTrace, RunIsWholeTrace, [Next]_vars
  PROVE  RunIsWholeTrace'
<1> USE DEF row, runs, driver, asker, env
<1>1. CASE UNCHANGED <<runOf, runPages, steps>>
  BY <1>1 DEF RunIsWholeTrace
<1>2. ASSUME NEW w \in Walk, DriveStep(w) PROVE RunIsWholeTrace'
  <2>1. \A v \in Walk : status[v] = "done" => steps'[v] = steps[v]
    BY <1>2, DriveFrame
  <2>2. \A r \in Request : runOf[r] # None => runOf[r] \in Walk /\ status[runOf[r]] = "done"
    BY DEF TypeOK, RunsTyped, SettledTrace
  <2>3. UNCHANGED <<runOf, runPages>>
    BY <1>2, DriveFrame
  <2> QED BY <2>1, <2>2, <2>3 DEF RunIsWholeTrace
<1>3. ASSUME NEW r \in Request, SwapRunID(r) PROVE RunIsWholeTrace'
  <2>1. steps' = steps /\ pages[r] = steps[of[r]] /\ steps[of[r]] # {}
    BY <1>3 DEF SwapRunID, SettledTrace
  <2>2. CASE UNCHANGED <<runOf, runPages>>
    BY <1>1, <2>1, <2>2
  <2>3. CASE /\ runOf' = [runOf EXCEPT ![r] = of[r]]
             /\ runPages' = [runPages EXCEPT ![r] = pages[r]]
    BY <2>1, <2>3 DEF TypeOK, RunsTyped, RunIsWholeTrace
  <2> QED BY <1>3, <2>2, <2>3 DEF SwapRunID
<1>4. ASSUME NEW r \in Request, ReqStep(r), ~SwapRunID(r) PROVE RunIsWholeTrace'
  BY <1>1, <1>4, ReqFrame, RunsFrame
<1>5. CASE CreateWalkthrough \/ Crash \/ Boot \/ UNCHANGED vars
  BY <1>1, <1>5 DEF CreateWalkthrough, Crash, Boot, vars
<1>6. CASE \E r \in Request : \/ \E w \in Walk : Evaluate(r, w)
                              \/ \E s \in Request : EvaluateRun(r, s)
  BY <1>1, <1>6 DEF Evaluate, EvaluateRun
<1> QED BY <1>2, <1>3, <1>4, <1>5, <1>6 DEF Next

LEMMA OnePassNext ==
  ASSUME TypeOK, Placed, Stopped, Unsettled, OneEvalPass, [Next]_vars
  PROVE  OneEvalPass'
<1> USE DEF row, runs, driver, asker, env
<1>1. CASE UNCHANGED <<evalStatus, reqAt, job>>
  BY <1>1 DEF OneEvalPass
<1>2. ASSUME NEW r \in Request, ReqStep(r) PROVE OneEvalPass'
  <2>1. \A q \in Request \ {r} : reqAt'[q] = reqAt[q] /\ job'[q] = job[q]
    BY <1>2, ReqFrame
  <2>2. CASE ClaimEvalJob(r)
    <3>1. CASE /\ evalStatus[job[r]] # "generating"
               /\ evalStatus' = [evalStatus EXCEPT ![job[r]] = "generating"]
               /\ job' = job
      <4>1. job[r] \in Request
        BY <2>2 DEF ClaimEvalJob, Placed
      <4> QED BY <2>1, <3>1, <4>1 DEF OneEvalPass, TypeOK, RunsTyped
    <3>2. CASE evalStatus' = evalStatus /\ reqAt'[r] = "over"
      BY <2>1, <3>2 DEF OneEvalPass
    <3> QED BY <2>2, <3>1, <3>2 DEF ClaimEvalJob, EvalClaimable, ReqGoto, ReqDrop, TypeOK, AskersTyped
  <2>3. CASE Eval(r)
    <3>1. reqAt[r] = "eval" /\ reqAt'[r] # "eval"
      BY <2>3 DEF Eval, ReqGoto, ReqDrop, TypeOK, AskersTyped
    <3>2. \A s \in Request : s # job[r] => evalStatus'[s] = evalStatus[s]
      BY <2>3 DEF Eval, TypeOK, RunsTyped
    <3>3. \A q \in Request \ {r} : reqAt[q] = "eval" => job[q] # job[r] /\ job[q] \in Request
      BY <3>1 DEF OneEvalPass, Placed
    <3> QED BY <2>1, <3>1, <3>2, <3>3 DEF OneEvalPass
  <2>4. CASE ~ClaimEvalJob(r) /\ ~Eval(r)
    <3>1. evalStatus' = evalStatus /\ reqAt'[r] # "eval"
      BY <1>2, <2>4 DEF ReqStep, Observe, SwapRunID, EvalReadsDiff, ReqTakes, EvalWritesDiff,
                        ReqDrop, ReqClaims, ReqSwaps, TypeOK, AskersTyped
    <3> QED BY <2>1, <3>1 DEF OneEvalPass
  <2> QED BY <2>2, <2>3, <2>4
<1>3. ASSUME NEW r \in Request, NEW w \in Walk, Evaluate(r, w) PROVE OneEvalPass'
  BY <1>3 DEF Evaluate, OneEvalPass, TypeOK, AskersTyped
<1>4. ASSUME NEW r \in Request, NEW s \in Request, EvaluateRun(r, s) PROVE OneEvalPass'
  BY <1>4 DEF EvaluateRun, ReqClaims, OneEvalPass, TypeOK, AskersTyped
<1>5. CASE Crash
  BY <1>5 DEF Crash, OneEvalPass
<1>6. CASE Boot
  <2>1. \A r \in Request : reqAt'[r] # "eval"
    BY <1>6, BootFrame DEF Boot, Stopped
  <2> QED BY <2>1 DEF OneEvalPass
<1>7. CASE CreateWalkthrough \/ UNCHANGED vars
  BY <1>1, <1>7 DEF CreateWalkthrough, vars
<1>8. CASE \E w \in Walk : DriveStep(w)
  <2>1. UNCHANGED <<evalStatus, reqAt, job>>
    BY <1>8, DriveFrame
  <2> QED BY <1>1, <2>1
<1> QED BY <1>2, <1>3, <1>4, <1>5, <1>6, <1>7, <1>8 DEF Next

----------------------------------------------------------------------------
(* The diffs.                                                              *)

\* What a step never undoes: rows that have ended, the baselines and runs they name.
LEMMA Onward ==
  ASSUME TypeOK, Stopped, Unsettled, [Next]_vars
  PROVE  /\ created \in Nat /\ created' \in Nat /\ created <= created'
         /\ 1 .. created \subseteq Walk
         /\ dbErrors' = 0 => dbErrors = 0
         /\ \A w \in 1 .. created : prev'[w] = prev[w]
         /\ \A w \in Walk : Terminal(w) => status'[w] = status[w] /\ verdict'[w] = verdict[w]
         /\ \A w \in Walk : runID[w] # None => runID'[w] # None
<1> USE DEF row, runs, driver, asker, env
<1>0. created \in Nat /\ 1 .. created \subseteq Walk /\ dbErrors \in Nat /\ dbErrors' \in {dbErrors, dbErrors + 1}
  <2>1. created \in Nat /\ 1 .. created \subseteq Walk /\ dbErrors \in Nat
    BY WalkthroughAssumption DEF TypeOK, RowsTyped, EnvTyped, Walk
  <2> QED BY <2>1, Rejected
<1>1. CASE CreateWalkthrough
  <2>1. /\ UNCHANGED <<status, verdict, runID>> /\ created' = created + 1
        /\ \E p \in latestTerminalWalkthroughID : prev' = [prev EXCEPT ![created + 1] = p]
    BY <1>1 DEF CreateWalkthrough
  <2>2. \A w \in 1 .. created : prev'[w] = prev[w]
    BY <1>0, <2>1 DEF TypeOK, RowsTyped
  <2> QED BY <1>0, <2>1, <2>2
<1>2. CASE \E w \in Walk : DriveStep(w)
  BY <1>0, <1>2, DriveFrame DEF Terminal
<1>3. ASSUME NEW r \in Request, ReqStep(r)
      PROVE  /\ UNCHANGED <<created, status, verdict, prev>>
             /\ \A w \in Walk : runID[w] # None => runID'[w] # None
  BY <1>3, ReqFrame, RunStays
<1>4. CASE Boot
  BY <1>0, <1>4, BootFrame DEF Terminal
<1>5. CASE \/ Crash \/ UNCHANGED vars
           \/ \E r \in Request : \/ \E w \in Walk : Evaluate(r, w)
                                 \/ \E s \in Request : EvaluateRun(r, s)
  BY <1>0, <1>5 DEF Crash, Evaluate, EvaluateRun, vars
<1> QED BY <1>0, <1>1, <1>2, <1>3, <1>4, <1>5 DEF Next

\* A true diff stays true.
LEMMA TruthStays ==
  ASSUME TypeOK, Stopped, Unsettled, [Next]_vars,
         NEW w \in Walk, NEW d, w <= created, Truth(w, d)
  PROVE  w <= created' /\ Truth(w, d)'
<1>1. w \in 1 .. created /\ prev[w] \in Walk /\ w <= created'
  BY Onward DEF Truth, TypeOK, RowsTyped, Walk
<1>2. /\ prev'[w] = prev[w] /\ status'[w] = status[w] /\ verdict'[w] = verdict[w]
      /\ status'[prev[w]] = status[prev[w]] /\ verdict'[prev[w]] = verdict[prev[w]]
      /\ runID[w] # None => runID'[w] # None
      /\ runID[prev[w]] # None => runID'[prev[w]] # None
  BY <1>1, Onward DEF Truth
<1> QED BY <1>1, <1>2 DEF Truth, Terminal, Score

\* The diff of a row that has ended is true: what ranks lower scores lower, and of two stuck
\* passes the one stuck earlier.
LEMMA FullDiffTrue ==
  ASSUME TypeOK, BaselineObserved, Ended, NEW w \in 1 .. created, Terminal(w), NEW d \in FullDiff(w)
  PROVE  Truth(w, d)
<1> DEFINE p   == prev[w]
           has == p # None /\ HasKeys(p) /\ HasKeys(w)
           a   == verdict[p]
           c   == verdict[w]
<1>1. created \in Nat /\ w \in Walk
  BY WalkthroughAssumption DEF TypeOK, RowsTyped, Walk
<1>2. p # None /\ d = ComputeDiff(a, c, Keys(p), Keys(w), has)
  BY DEF FullDiff, RefreshedDiff
<1>3. p \in Walk /\ Terminal(p) /\ ~a.infra
  BY <1>1, <1>2 DEF BaselineObserved, TypeOK, RowsTyped
<1>4. a \in Verdict /\ c \in Verdict /\ a.outcome # "none" /\ c.outcome # "none"
  BY <1>1, <1>3 DEF Ended, TypeOK, RowsTyped
<1> HIDE DEF p, a, c, has
<1>5. Infra(a, c) <=> c.infra
  BY <1>3 DEF Infra
<1>6. /\ d.outcomeCompared <=> ~c.infra
      /\ d.isRegression <=> ~c.infra /\ (outcomeRank(c.outcome) < outcomeRank(a.outcome)
                                          \/ StuckStepDelta(a, c) < 0)
      /\ d.blockersCompared <=> ~c.infra /\ has
  BY <1>2, <1>5 DEF ComputeDiff
<1>7. (outcomeRank(c.outcome) < outcomeRank(a.outcome) \/ StuckStepDelta(a, c) < 0)
        <=> Score(w) < Score(p)
  <2>1. /\ a.outcome \in {"failed", "stuck", "success"} /\ a.stuckStep \in Nat /\ a.stuckStep <= MaxSteps
        /\ c.outcome \in {"failed", "stuck", "success"} /\ c.stuckStep \in Nat /\ c.stuckStep <= MaxSteps
    BY <1>4, WalkthroughAssumption DEF Verdict
  <2>2. /\ a.outcome = "success" => Score(p) = MaxSteps + 2
        /\ a.outcome = "stuck" => Score(p) = 1 + a.stuckStep
        /\ a.outcome = "failed" => Score(p) = 0
    BY DEF Score, a
  <2>3. /\ c.outcome = "success" => Score(w) = MaxSteps + 2
        /\ c.outcome = "stuck" => Score(w) = 1 + c.stuckStep
        /\ c.outcome = "failed" => Score(w) = 0
    BY DEF Score, c
  <2> QED BY <2>1, <2>2, <2>3, Ranks, WalkthroughAssumption DEF StuckStepDelta
<1>8. has => runID[w] # None /\ runID[p] # None
  BY DEF has, HasKeys
<1> QED BY <1>2, <1>3, <1>6, <1>7, <1>8 DEF Truth, p, c

\* Where the diffs of the next state come from.
Source(w) == (IF at[w] = "read" THEN FullDiff(w) ELSE {}) \cup diff[w] \cup held[w]

LEMMA RowDiffsFrom ==
  ASSUME TypeOK, Placed, [Next]_vars, dbErrors' = 0
  PROVE  \A w \in Walk : \A d \in diff'[w] \cup held'[w] :
           d \in Source(w) \/ \E r \in Request : reqAt[r] = "write" /\ of[r] = w /\ d \in reqHeld[r]
<1> DEFINE Known(w) == \A d \in diff'[w] \cup held'[w] :
      d \in Source(w) \/ \E r \in Request : reqAt[r] = "write" /\ of[r] = w /\ d \in reqHeld[r]
<1> SUFFICES \A w \in Walk : Known(w)
  OBVIOUS
<1> USE DEF row, runs, driver, asker, env
<1>0. dbErrors \in Nat /\ ~DbError
  BY DEF TypeOK, EnvTyped, DbError
<1>1. ASSUME NEW w \in Walk, diff'[w] = diff[w], held'[w] \in {held[w], {}} PROVE Known(w)
  BY <1>1 DEF Source
<1>2. ASSUME NEW v \in Walk, DriveStep(v) PROVE \A w \in Walk : Known(w)
  <2>1. CASE DriveReadsDiff(v)
    <3>1. PICK f : f = FullDiff(v) /\ Takes(v, f) /\ diff' = diff /\ at[v] = "read"
      BY <1>0, <2>1 DEF DriveReadsDiff
    <3>2. held' \in {[held EXCEPT ![v] = {}], [held EXCEPT ![v] = f]}
      BY <3>1 DEF Takes, Drop
    <3>3. /\ \A w \in Walk \ {v} : held'[w] = held[w]
          /\ held'[v] \in {{}, f}
      BY <3>2 DEF TypeOK, DriversTyped
    <3>4. f \subseteq Source(v) /\ diff[v] \subseteq Source(v)
      BY <3>1 DEF Source
    <3>5. Known(v)
      BY <3>1, <3>3, <3>4
    <3> QED BY <1>1, <3>1, <3>3, <3>5
  <2>2. CASE DriveWritesDiff(v)
    <3>1. /\ diff' = [diff EXCEPT ![v] = held[v]] /\ held' = [held EXCEPT ![v] = {}]
      BY <1>0, <2>2 DEF DriveWritesDiff, SetWalkthroughDiff, Drop
    <3>2. /\ \A w \in Walk \ {v} : diff'[w] = diff[w] /\ held'[w] = held[w]
          /\ diff'[v] = held[v] /\ held'[v] = {}
      BY <3>1 DEF TypeOK, RowsTyped, DriversTyped
    <3>3. Known(v)
      BY <3>2 DEF Source
    <3> QED BY <1>1, <3>2, <3>3
  <2>3. CASE ~DriveReadsDiff(v) /\ ~DriveWritesDiff(v)
    <3>1. diff' = diff /\ held' \in {held, [held EXCEPT ![v] = {}]}
      BY <1>2, <2>3 DEF DriveStep, ClaimWalkthroughJob, DriveBrowser, GiveUp, InsertWalkthroughStep,
                        FinishWalkthrough, Fail, Goto, Drop
    <3> QED BY <1>1, <3>1 DEF TypeOK, DriversTyped
  <2> QED BY <2>1, <2>2, <2>3
<1>3. ASSUME NEW r \in Request, ReqStep(r) PROVE \A w \in Walk : Known(w)
  <2>1. held' = held
    BY <1>3, ReqFrame
  <2>2. CASE EvalWritesDiff(r)
    <3>1. diff' = [diff EXCEPT ![of[r]] = reqHeld[r]] /\ reqAt[r] = "write"
      BY <1>0, <2>2 DEF EvalWritesDiff, SetWalkthroughDiff
    <3>2. \A w \in Walk : IF w = of[r] THEN diff'[w] = reqHeld[r] ELSE diff'[w] = diff[w]
      BY <3>1 DEF TypeOK, RowsTyped
    <3> QED BY <1>1, <2>1, <3>1, <3>2 DEF Source
  <2>3. CASE ~EvalWritesDiff(r)
    <3>1. diff' = diff
      BY <1>3, <2>3 DEF ReqStep, Observe, SwapRunID, ClaimEvalJob, Eval, EvalReadsDiff
    <3> QED BY <1>1, <2>1, <3>1
  <2> QED BY <2>2, <2>3
<1>4. CASE CreateWalkthrough
  <2>1. UNCHANGED <<diff, held>>
    BY <1>4 DEF CreateWalkthrough, Goto
  <2> QED BY <1>1, <2>1
<1>5. CASE Crash
  <2>1. diff' = diff /\ \A w \in Walk : held'[w] = {}
    BY <1>5 DEF Crash
  <2> QED BY <1>1, <2>1
<1>6. CASE \/ Boot \/ UNCHANGED vars
           \/ \E r \in Request : \/ \E w \in Walk : Evaluate(r, w)
                                 \/ \E s \in Request : EvaluateRun(r, s)
  BY <1>1, <1>6 DEF Boot, Evaluate, EvaluateRun, vars
<1> HIDE DEF Known
<1> QED BY <1>2, <1>3, <1>4, <1>5, <1>6 DEF Next

LEMMA RequestDiffsFrom ==
  ASSUME TypeOK, Placed, [Next]_vars, dbErrors' = 0, dbErrors = 0, Underway
  PROVE  \A r \in Request : \A d \in reqHeld'[r] :
           /\ reqAt'[r] = "write" /\ of'[r] = of[r] /\ of[r] \in 1 .. created
           /\ d \in reqHeld[r] \/ d \in FullDiff(of[r])
<1> DEFINE Known(r) == \A d \in reqHeld'[r] :
           /\ reqAt'[r] = "write" /\ of'[r] = of[r] /\ of[r] \in 1 .. created
           /\ d \in reqHeld[r] \/ d \in FullDiff(of[r])
<1> SUFFICES \A r \in Request : Known(r)
  OBVIOUS
<1> USE DEF row, runs, driver, asker, env
<1>0. ~DbError
  BY DEF TypeOK, EnvTyped, DbError
<1>1. ASSUME NEW r \in Request,
             reqHeld'[r] = {} \/ (reqHeld'[r] = reqHeld[r] /\ reqAt'[r] = reqAt[r] /\ of'[r] = of[r])
      PROVE  Known(r)
  BY <1>1 DEF Underway
<1>2. ASSUME NEW q \in Request, ReqStep(q) PROVE \A r \in Request : Known(r)
  <2>1. \A r \in Request \ {q} : Known(r)
    <3>1. \A r \in Request \ {q} : reqHeld'[r] = reqHeld[r]
      BY <1>2 DEF ReqStep, Observe, SwapRunID, ClaimEvalJob, Eval, EvalReadsDiff, ReqTakes,
                  EvalWritesDiff, ReqGoto, ReqDrop, ReqClaims, ReqSwaps, TypeOK, AskersTyped
    <3> QED BY <1>1, <1>2, <3>1, ReqFrame
  <2>2. Known(q)
    <3>1. CASE EvalReadsDiff(q)
      <4>1. PICK f : f = FullDiff(of[q]) /\ ReqTakes(q, f) /\ reqAt[q] = "read"
        BY <1>0, <3>1 DEF EvalReadsDiff
      <4>2. of[q] \in 1 .. created
        BY <4>1 DEF Placed
      <4>3. CASE f = {}
        BY <1>1, <4>1, <4>3 DEF ReqTakes, ReqDrop, TypeOK, AskersTyped
      <4>4. CASE f # {}
        BY <4>1, <4>2, <4>4 DEF ReqTakes, TypeOK, AskersTyped
      <4> QED BY <4>3, <4>4
    <3>2. CASE ~EvalReadsDiff(q)
      <4>1. reqAt[q] # "write" => reqHeld[q] = {}
        BY DEF Underway
      <4>2. reqHeld'[q] = {}
        BY <1>2, <3>2, <4>1 DEF ReqStep, Observe, SwapRunID, ClaimEvalJob, Eval, EvalWritesDiff,
             ReqGoto, ReqDrop, ReqClaims, ReqSwaps, TypeOK, AskersTyped
      <4> QED BY <1>1, <4>2
    <3> QED BY <3>1, <3>2
  <2> QED BY <2>1, <2>2
<1>3. ASSUME NEW q \in Request, NEW w \in Walk, Evaluate(q, w) PROVE \A r \in Request : Known(r)
  <2>1. reqHeld[q] = {}
    BY <1>3 DEF Evaluate, Arrives, Underway
  <2>2. reqHeld' = reqHeld /\ \A r \in Request \ {q} : reqAt'[r] = reqAt[r] /\ of'[r] = of[r]
    BY <1>3 DEF Evaluate, TypeOK, AskersTyped
  <2> QED BY <1>1, <2>1, <2>2
<1>4. ASSUME NEW q \in Request, NEW s \in Request, EvaluateRun(q, s) PROVE \A r \in Request : Known(r)
  <2>1. reqHeld[q] = {}
    BY <1>4 DEF EvaluateRun, Arrives, Underway
  <2>2. reqHeld' = reqHeld /\ \A r \in Request \ {q} : reqAt'[r] = reqAt[r] /\ of'[r] = of[r]
    BY <1>4 DEF EvaluateRun, ReqClaims, TypeOK, AskersTyped
  <2> QED BY <1>1, <2>1, <2>2
<1>5. CASE Crash
  <2>1. \A r \in Request : reqHeld'[r] = {}
    BY <1>5 DEF Crash
  <2> QED BY <1>1, <2>1
<1>6. CASE CreateWalkthrough \/ Boot \/ (\E w \in Walk : DriveStep(w)) \/ UNCHANGED vars
  <2>1. UNCHANGED asker
    BY <1>6 DEF CreateWalkthrough, Boot, vars, DriveStep, ClaimWalkthroughJob, DriveBrowser, GiveUp,
                InsertWalkthroughStep, FinishWalkthrough, Fail, DriveReadsDiff, DriveWritesDiff
  <2> QED BY <1>1, <2>1
<1> HIDE DEF Known
<1> QED BY <1>2, <1>3, <1>4, <1>5, <1>6 DEF Next

LEMMA UnderwayNext ==
  ASSUME TypeOK, WalkInv, DiffInv, [Next]_vars
  PROVE  Underway'
<1> SUFFICES ASSUME dbErrors' = 0 PROVE
      /\ \A w \in Walk : \A d \in diff'[w] \cup held'[w] : w <= created' /\ Truth(w, d)'
      /\ \A r \in Request : \A d \in reqHeld'[r] :
           reqAt'[r] = "write" /\ of'[r] \in 1 .. created' /\ Truth(of[r], d)'
  BY DEF Underway
<1> USE DEF WalkInv, DiffInv
<1>0. /\ dbErrors = 0 /\ created \in Nat /\ created' \in Nat /\ created <= created'
      /\ 1 .. created \subseteq Walk
  BY Onward
<1>1. ASSUME NEW w \in 1 .. created, NEW d, Terminal(w), d \in FullDiff(w)
      PROVE  w <= created /\ Truth(w, d)
  BY <1>0, <1>1, FullDiffTrue
<1>2. ASSUME NEW w \in Walk, NEW d \in diff'[w] \cup held'[w]
      PROVE  w <= created' /\ Truth(w, d)'
  <2>1. w <= created /\ Truth(w, d)
    <3>1. CASE d \in diff[w] \cup held[w]
      BY <1>0, <3>1 DEF Underway
    <3>2. CASE at[w] = "read" /\ d \in FullDiff(w)
      <4>1. Terminal(w) /\ w \in 1 .. created
        BY <1>0, <3>2 DEF Ripe, Unsettled, Walk
      <4> QED BY <1>1, <3>2, <4>1
    <3>3. CASE \E r \in Request : reqAt[r] = "write" /\ of[r] = w /\ d \in reqHeld[r]
      BY <1>0, <3>3 DEF Underway
    <3> QED BY <1>2, <3>1, <3>2, <3>3, RowDiffsFrom DEF Source
  <2> QED BY <2>1, TruthStays
<1>3. ASSUME NEW r \in Request, NEW d \in reqHeld'[r]
      PROVE  reqAt'[r] = "write" /\ of'[r] \in 1 .. created' /\ Truth(of[r], d)'
  <2>1. /\ reqAt'[r] = "write" /\ of'[r] = of[r] /\ of[r] \in 1 .. created
        /\ d \in reqHeld[r] \/ d \in FullDiff(of[r])
    BY <1>0, RequestDiffsFrom
  <2>2. PICK w \in 1 .. created : w = of[r]
    BY <2>1
  <2>3. Truth(w, d)
    <3>1. CASE d \in reqHeld[r]
      BY <1>0, <2>2, <3>1 DEF Underway
    <3>2. CASE d \in FullDiff(of[r])
      <4>1. Terminal(w)
        BY <2>2 DEF Ripe, None
      <4> QED BY <1>1, <2>2, <3>2, <4>1
    <3> QED BY <2>1, <3>1, <3>2
  <2>4. Truth(w, d)'
    BY <1>0, <2>3, TruthStays
  <2>5. Truth(of[r], d)'
    BY <2>1, <2>2, <2>4 DEF Truth, Terminal, Score
  <2> QED BY <1>0, <2>1, <2>5
<1> QED BY <1>2, <1>3

LEMMA EndedNext ==
  ASSUME TypeOK, WalkInv, Ended, [Next]_vars
  PROVE  Ended'
<1> USE DEF WalkInv, row, runs, driver, asker, env
<1>1. ASSUME NEW w \in Walk,
             \/ status'[w] = status[w] /\ verdict'[w] = verdict[w]
             \/ status'[w] \in {"idle", "driving"} \/ verdict'[w].outcome # "none"
      PROVE  Terminal(w)' => verdict'[w].outcome # "none"
  BY <1>1 DEF Ended, Terminal
<1>2. ASSUME NEW v \in Walk, DriveStep(v) PROVE Ended'
  <2>1. \A w \in Walk \ {v} : status'[w] = status[w] /\ verdict'[w] = verdict[w]
    BY <1>2, DriveFrame
  <2>2. \/ status'[v] = status[v] /\ verdict'[v] = verdict[v]
        \/ status'[v] \in {"idle", "driving"} \/ verdict'[v].outcome # "none"
    <3>1. trace[v].verdict.outcome # "none" /\ Stalled.outcome # "none"
      BY DEF TypeOK, DriversTyped, Trace, Observed, NoTrace, Stalled
    <3>2. CASE FinishWalkthrough(v) \/ Fail(v)
      BY <3>1, <3>2 DEF FinishWalkthrough, Fail, Settle, TypeOK, RowsTyped
    <3>3. CASE ClaimWalkthroughJob(v)
      BY <3>3 DEF ClaimWalkthroughJob, SetStatus, TypeOK, RowsTyped
    <3>4. CASE DriveBrowser(v) \/ GiveUp(v) \/ InsertWalkthroughStep(v) \/ DriveReadsDiff(v) \/ DriveWritesDiff(v)
      BY <3>4 DEF DriveBrowser, GiveUp, InsertWalkthroughStep, DriveReadsDiff, DriveWritesDiff
    <3> QED BY <1>2, <3>2, <3>3, <3>4 DEF DriveStep
  <2> QED BY <1>1, <2>1, <2>2 DEF Ended
<1>3. CASE Boot
  <2>1. \A w \in Walk : \/ status'[w] = status[w] /\ verdict'[w] = verdict[w]
                        \/ verdict'[w].outcome # "none"
    BY <1>3 DEF Boot, Swept, SweptAs, TypeOK, RowsTyped
  <2> QED BY <1>1, <2>1 DEF Ended
<1>4. CASE UNCHANGED <<status, verdict>>
  BY <1>1, <1>4 DEF Ended
<1>5. CASE \E r \in Request : ReqStep(r)
  BY <1>4, <1>5, ReqFrame
<1>6. CASE \/ CreateWalkthrough \/ Crash \/ UNCHANGED vars
           \/ \E r \in Request : \/ \E w \in Walk : Evaluate(r, w)
                                 \/ \E s \in Request : EvaluateRun(r, s)
  BY <1>4, <1>6 DEF CreateWalkthrough, Crash, Evaluate, EvaluateRun, vars
<1> QED BY <1>2, <1>3, <1>5, <1>6 DEF Next

LEMMA RipeNext ==
  ASSUME TypeOK, WalkInv, Ripe, [Next]_vars
  PROVE  Ripe'
<1> USE DEF WalkInv, row, runs, driver, asker, env
<1>0. /\ \A w \in Walk : Terminal(w) => Terminal(w)'
      /\ dbErrors' = 0 => dbErrors = 0
  BY Onward DEF Terminal
<1>1. \A w \in Walk : at'[w] = "read" /\ dbErrors' = 0 => Terminal(w)'
  <2>1. ASSUME NEW w \in Walk, at'[w] = at[w] \/ at'[w] # "read"
        PROVE  at'[w] = "read" /\ dbErrors' = 0 => Terminal(w)'
    BY <1>0, <2>1 DEF Ripe
  <2>2. ASSUME NEW v \in Walk, DriveStep(v)
        PROVE  \A w \in Walk : at'[w] = "read" /\ dbErrors' = 0 => Terminal(w)'
    <3>1. \A w \in Walk \ {v} : at'[w] = at[w]
      BY <2>2, DriveFrame
    <3>2. at'[v] = "read" /\ dbErrors' = 0 => Terminal(v)'
      <4>1. CASE FinishWalkthrough(v)
        <5>1. dbErrors' = 0 => ~DbError
          BY DEF TypeOK, EnvTyped, DbError
        <5>2. dbErrors' = 0 => status'[v] \in {"done", "failed"}
          BY <4>1, <5>1 DEF FinishWalkthrough, Settle, SetStatus, TypeOK, RowsTyped
        <5> QED BY <5>2 DEF Terminal
      <4>2. CASE ~FinishWalkthrough(v)
        <5>1. at'[v] # "read"
          <6> USE <2>2 DEF TypeOK, DriversTyped
          <6>1. CASE ClaimWalkthroughJob(v) \/ GiveUp(v) \/ Fail(v) \/ DriveWritesDiff(v)
            BY <6>1 DEF ClaimWalkthroughJob, GiveUp, Fail, DriveWritesDiff, Goto, Drop
          <6>2. CASE DriveBrowser(v) \/ InsertWalkthroughStep(v)
            BY <6>2 DEF DriveBrowser, InsertWalkthroughStep, Drop
          <6>3. CASE DriveReadsDiff(v)
            BY <6>3 DEF DriveReadsDiff, Takes, Drop
          <6> QED BY <4>2, <6>1, <6>2, <6>3 DEF DriveStep
        <5> QED BY <5>1
      <4> QED BY <4>1, <4>2
    <3> QED BY <2>1, <3>1, <3>2
  <2>3. CASE CreateWalkthrough
    BY <2>1, <2>3 DEF CreateWalkthrough, Goto, TypeOK, DriversTyped
  <2>4. CASE Crash
    BY <2>1, <2>4 DEF Crash
  <2>5. CASE \E r \in Request : ReqStep(r)
    BY <2>1, <2>5, ReqFrame
  <2>6. CASE \/ Boot \/ UNCHANGED vars
             \/ \E r \in Request : \/ \E w \in Walk : Evaluate(r, w)
                                   \/ \E s \in Request : EvaluateRun(r, s)
    BY <2>1, <2>6 DEF Boot, Evaluate, EvaluateRun, vars
  <2> QED BY <2>2, <2>3, <2>4, <2>5, <2>6 DEF Next
<1>2. \A r \in Request : of'[r] # None => of'[r] \in Walk /\ status'[of'[r]] \in {"done", "failed"}
  <2>1. ASSUME NEW r \in Request, of'[r] = of[r] \/ of'[r] = None
        PROVE  of'[r] # None => of'[r] \in Walk /\ status'[of'[r]] \in {"done", "failed"}
    BY <1>0, <2>1 DEF Ripe, Terminal
  <2>2. CASE \E r \in Request : ReqStep(r)
    BY <2>1, <2>2, ReqFrame
  <2>3. ASSUME NEW q \in Request, NEW w \in Walk, Evaluate(q, w)
        PROVE  \A r \in Request : of'[r] # None => of'[r] \in Walk /\ status'[of'[r]] \in {"done", "failed"}
    <3>1. status[w] = "done" /\ status' = status /\ of'[q] = w /\ \A r \in Request \ {q} : of'[r] = of[r]
      BY <2>3 DEF Evaluate, Evaluable, TypeOK, AskersTyped
    <3> QED BY <2>1, <3>1
  <2>4. CASE \E q \in Request, s \in Request : EvaluateRun(q, s)
    BY <2>1, <2>4 DEF EvaluateRun, ReqClaims
  <2>5. CASE Crash
    BY <2>1, <2>5 DEF Crash
  <2>6. CASE \E w \in Walk : DriveStep(w)
    BY <2>1, <2>6, DriveFrame
  <2>7. CASE CreateWalkthrough \/ Boot \/ UNCHANGED vars
    BY <2>1, <2>7 DEF CreateWalkthrough, Boot, vars
  <2> QED BY <2>2, <2>3, <2>4, <2>5, <2>6, <2>7 DEF Next
<1> QED BY <1>1, <1>2 DEF Ripe, Terminal

----------------------------------------------------------------------------
LEMMA InitHolds ==
  ASSUME Init
  PROVE  TypeOK /\ WalkInv
<1> USE WalkthroughAssumption DEF Init
<1>1. RowsTyped
  BY VerdictsTyped DEF RowsTyped
<1>2. RunsTyped
  BY DEF RunsTyped
<1>3. DriversTyped
  BY TraceTyped DEF DriversTyped, Place
<1>4. AskersTyped
  BY DEF AskersTyped, ReqPlace
<1>5. EnvTyped
  BY DEF EnvTyped
<1>6. Placed /\ Stopped /\ Storing /\ OneEvalPass /\ RunIsWholeTrace
  BY DEF Placed, Stopped, Storing, OneEvalPass, RunIsWholeTrace
<1>7. Unsettled /\ SettledTrace
  BY DEF Unsettled, SettledTrace, None
<1>8. BaselineObserved /\ MaterializedOnce /\ Excused
  BY DEF BaselineObserved, MaterializedOnce, Excused, Renewing
<1> QED BY <1>1, <1>2, <1>3, <1>4, <1>5, <1>6, <1>7, <1>8 DEF TypeOK, WalkInv

LEMMA Invariants == Spec => [](TypeOK /\ WalkInv)
<1>1. TypeOK /\ WalkInv /\ [Next]_vars => (TypeOK /\ WalkInv)'
  BY TypeNext, PlacedNext, StoppedNext, UnsettledNext, StoringNext, SettledNext, BaselineNext,
     OnceNext, WholeNext, OnePassNext DEF WalkInv
<1> QED BY <1>1, InitHolds, PTL DEF Spec

\* Every variable stays in its type.
THEOREM WalkTypeCorrect == Spec => []TypeOK
BY Invariants, PTL

\* What a walkthrough is diffed against is an older one that ended and observed the goal.
THEOREM BaselinesObserved == Spec => []BaselineObserved
<1>1. WalkInv => BaselineObserved BY DEF WalkInv
<1> QED BY <1>1, Invariants, PTL

\* And its verdict never changes, whatever sweeps, settles late or fails.
THEOREM BaselinesFrozen == Spec => BaselineFrozen
<1>1. TypeOK /\ WalkInv /\ [Next]_vars =>
        [\A w \in 1 .. created : LET p == prev[w]
                                IN p # None => status'[p] = status[p] /\ verdict'[p] = verdict[p]]_vars
  BY BaselineNext DEF WalkInv
<1> QED BY <1>1, Invariants, PTL DEF Spec, BaselineFrozen

\* Racing requests make one run of a walkthrough, and one more at most for each statement the
\* database rejected; as soon as there is a run the row names one of its own.
THEOREM OneRunPerWalkthrough == Spec => []MaterializedOnce
<1>1. WalkInv => MaterializedOnce BY DEF WalkInv
<1> QED BY <1>1, Invariants, PTL

\* A materialized run holds the whole trace.
THEOREM RunsAreWholeTraces == Spec => []RunIsWholeTrace
<1>1. WalkInv => RunIsWholeTrace BY DEF WalkInv
<1> QED BY <1>1, Invariants, PTL

\* A run is evaluated by one pass at a time.
THEOREM OneEvaluationPass == Spec => []OneEvalPass
<1>1. WalkInv => OneEvalPass BY DEF WalkInv
<1> QED BY <1>1, Invariants, PTL

LEMMA Diffs == Spec => []DiffInv
<1>1. Init => DiffInv
  BY DEF Init, DiffInv, Ended, Ripe, Underway, Terminal
<1>2. TypeOK /\ WalkInv /\ DiffInv /\ [Next]_vars => DiffInv'
  BY EndedNext, RipeNext, UnderwayNext DEF DiffInv
<1> QED BY <1>1, <1>2, Invariants, PTL DEF Spec

\* A stored diff tells the truth about two rows that ended, however the two goroutines that write
\* it, the sweeps and the evaluations interleave.
THEOREM DiffsAreTrue == Spec => []DiffIsOfSettledRows
<1>1. TypeOK /\ DiffInv => DiffIsOfSettledRows
  <2>1. TypeOK => 1 .. created \subseteq Walk
    BY WalkthroughAssumption DEF TypeOK, RowsTyped, Walk
  <2> QED BY <2>1 DEF DiffInv, Underway, DiffIsOfSettledRows
<1> QED BY <1>1, Invariants, Diffs, PTL
=============================================================================
