------------------------------ MODULE WalkDiff ------------------------------
(***************************************************************************)
(* The regression summary of one walkthrough against its baseline, as a CI *)
(* gate reads it (internal/walkthrough/diff.go).  A walkthrough is a record*)
(* with the fields outcome, stuckStep and infra; the task-blockers of its  *)
(* persona evaluation are a set of keys.                                   *)
(***************************************************************************)
EXTENDS Integers

outcomeRank(outcome) ==
  CASE outcome = "success" -> 3
    [] outcome = "stuck"   -> 2
    [] outcome = "failed"  -> 1
    [] OTHER               -> 0

\* Mutant: a pass the driver could not run is scored like any other.
InfraIgnored(prev, cur) == FALSE

\* A pass that never ran, on either side, observed nothing to compare.
Infra(prev, cur) == cur.infra \/ prev.infra

\* How much later the pass got stuck; 0 unless both are stuck.
StuckStepDelta(prev, cur) ==
  IF prev.outcome = "stuck" /\ cur.outcome = "stuck"
  THEN cur.stuckStep - prev.stuckStep ELSE 0

ComputeDiff(prev, cur, prevKeys, curKeys, hasKeys) ==
  LET scored   == ~Infra(prev, cur)
      compared == scored /\ hasKeys
      pr == outcomeRank(prev.outcome)
      cr == outcomeRank(cur.outcome)
  IN [outcomeCompared  |-> scored,
      isRegression     |-> scored /\ (cr < pr \/ StuckStepDelta(prev, cur) < 0),
      resolved         |-> scored /\ cr > pr,
      stuckStepDelta   |-> IF scored THEN StuckStepDelta(prev, cur) ELSE 0,
      blockersCompared |-> compared,
      added            |-> IF compared THEN curKeys \ prevKeys ELSE {},
      removed          |-> IF compared THEN prevKeys \ curKeys ELSE {}]

\* A CI gate fails on either signal.
GateFails(diff) == diff.isRegression \/ diff.added # {}
=============================================================================
