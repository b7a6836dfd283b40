---------------------------- MODULE DriveOutcome ----------------------------
(***************************************************************************)
(* What a drive of the browser reports to the walkthrough that asked for   *)
(* it: a verdict and how many steps it took.  Module Driver shows that     *)
(* these are the reports of the drive loop; module Walkthrough stores them.*)
(***************************************************************************)
EXTENDS Integers

CONSTANT MaxSteps    \* bound: steps of a trace, the action budget of a drive

\* The columns outcome (empty: "none"), stuck_step and infra_failed.
Verdict   == [outcome : {"none", "failed", "stuck", "success"}, stuckStep : 0 .. MaxSteps,
              infra : BOOLEAN]
NoVerdict == [outcome |-> "none", stuckStep |-> 0, infra |-> FALSE]
Stalled   == [outcome |-> "failed", stuckStep |-> 0, infra |-> TRUE]

\* What a drive reports: a verdict and n steps.
Observed == {t \in [verdict : Verdict, n : 0 .. MaxSteps] :
  /\ t.verdict.outcome # "none" /\ ~t.verdict.infra
  /\ t.verdict.outcome = "success" => t.verdict.stuckStep = 0 /\ t.n > 0
  /\ t.verdict.outcome # "success" => t.verdict.stuckStep = t.n}
NoTrace == [verdict |-> Stalled, n |-> 0]
Trace   == Observed \cup {NoTrace}
=============================================================================
