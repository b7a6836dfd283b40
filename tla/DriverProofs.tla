---------------------------- MODULE DriverProofs ----------------------------
(* Proofs about Driver, for any budget, page, planner and number of requests. *)
EXTENDS Driver, FiniteSetTheorems, TLAPS

Bringing == {"start", "probe", "intercept", "login", "arm", "base"}
Driving  == {"base", "top", "plan", "settle", "finish", "last"}

\* What the session has done so far, by place.
Placed ==
  /\ place \notin {"over", "gone"} =>
       verdict = NoVerdict /\ err = "none" /\ noProgress < repeatLimit
  /\ place \in Bringing => steps = <<>>
  /\ place \in {"plan", "settle", "finish"} => Len(steps) < MaxSteps
  /\ place = "last" => expired \/ Len(steps) = MaxSteps
  /\ place = "settle" => before <= blocked
  /\ place = "over" /\ err = "none" => OwnTrace \in Trace
  /\ place = "over" /\ err # "none" => steps = <<>>

\* What the guards have let through: the submit guard is armed before the drive begins, so a write
\* that is decided unarmed was issued before.
Guarded ==
  /\ dryRun /\ ~armed => place \notin Driving
  /\ place \in Bringing \ {"base"} => \A r \in paused : r.phase = "login"
  /\ DryRunWritesNothing

\* A block the session has yet to judge, or has judged.
Blocks ==
  caught => \/ place = "settle" /\ before < blocked
            \/ place = "over" /\ verdict.outcome = "failed"
            \/ place = "gone"

Reports ==
  /\ report # {} => place \in {"over", "gone"}
  /\ ReportsObserved

\* The counter of the loop counts executed steps, each a repetition.
Spins ==
  /\ place = "settle" => key \in Key
  /\ place \notin {"over", "gone"} \/ noProgress = repeatLimit => Spinning(noProgress)

DriverInv == TypeOK /\ Placed /\ Guarded /\ Blocks /\ Reports /\ Spins

LEMMA Verdicts ==
  /\ NoVerdict \in Verdict /\ Stalled \in Verdict /\ NoTrace \in Trace
  /\ \A o \in {"failed", "stuck", "success"}, n \in 0 .. MaxSteps :
       [outcome |-> o, stuckStep |-> n, infra |-> FALSE] \in Verdict
  /\ \A o \in {"failed", "stuck"}, n \in 0 .. MaxSteps :
       [verdict |-> [outcome |-> o, stuckStep |-> n, infra |-> FALSE], n |-> n] \in Observed
  /\ \A n \in 1 .. MaxSteps :
       [verdict |-> [outcome |-> "success", stuckStep |-> 0, infra |-> FALSE], n |-> n] \in Observed
BY DriverAssumption DEF Verdict, NoVerdict, Stalled, NoTrace, Trace, Observed

\* Recording a step.
LEMMA Recorded ==
  ASSUME TypeOK, Len(steps) < MaxSteps, NEW k \in Key \cup {NoKey}, Record(k)
  PROVE  /\ steps' \in Seq(Key \cup {NoKey}) /\ Len(steps') = Len(steps) + 1
         /\ Len(steps') \in 1 .. MaxSteps
<1>1. steps \in Seq(Key \cup {NoKey}) /\ Len(steps) \in Nat
  BY DEF TypeOK
<1>2. steps' = Append(steps, k)
  BY DEF Record
<1> HIDE DEF Key, NoKey
<1> QED BY <1>1, <1>2, DriverAssumption

LEMMA PlacedStep == TypeOK /\ Placed /\ [Next]_vars => TypeOK' /\ Placed'
<1> SUFFICES ASSUME TypeOK, Placed, [Next]_vars PROVE TypeOK' /\ Placed'
  OBVIOUS
<1> USE DriverAssumption
<1> USE DEF Locals, Turn, Elsewhere, session, options, page, traffic, outside, Place, Bringing
<1>1. CASE BringUp
  <2>1. place \in {"start", "probe", "intercept"} /\ NextUp[place] \in {"probe", "intercept", "login"}
    BY <1>1 DEF BringUp, NextUp
  <2>2. CASE Go(NextUp[place])
    BY <1>1, <2>1, <2>2 DEF BringUp, Go, TypeOK, Placed
  <2>3. CASE Fails("error")
    BY <1>1, <2>1, <2>3 DEF BringUp, Fails, TypeOK, Placed
  <2> QED BY <1>1, <2>2, <2>3 DEF BringUp
<1>2. CASE Login
  <2>1. CASE Go("arm")
    BY <1>2, <2>1 DEF Login, At, Go, TypeOK, Placed
  <2>2. CASE Ends("failed", 0) /\ UNCHANGED <<steps, Locals>>
    BY <1>2, <2>2, Verdicts DEF Login, At, Ends, TypeOK, Placed, OwnTrace, Trace
  <2> QED BY <1>2, <2>1, <2>2 DEF Login
<1>3. CASE InnerStall
  <2>1. CASE Fails("stalled") /\ place \in {"start", "intercept"}
    BY <1>3, <2>1 DEF InnerStall, Fails, TypeOK, Placed
  <2>2. CASE Fails("error") /\ place = "probe"
    BY <1>3, <2>2 DEF InnerStall, Fails, TypeOK, Placed
  <2>3. CASE place = "login"
    <3>1. /\ place' = "over" /\ parked' = FALSE /\ verdict' = Stalled /\ UNCHANGED <<steps, err, Locals>>
          /\ Elsewhere /\ steps = <<>>
      BY <1>3, <2>3 DEF InnerStall, Placed
    <3>2. OwnTrace' \in Trace
      BY <3>1, Verdicts DEF OwnTrace, NoTrace
    <3> QED BY <2>3, <3>1, <3>2, Verdicts DEF TypeOK, Placed
  <2> QED BY <1>3, <2>1, <2>2, <2>3 DEF InnerStall
<1>4. CASE Arm
  BY <1>4 DEF Arm, Armed, At, Go, TypeOK, Placed
<1>5. CASE Base
  <2>1. CASE Go("top") /\ url' \in Url /\ goal' \in BOOLEAN
    BY <1>5, <2>1 DEF Base, At, Go, TypeOK, Placed
  <2>2. CASE Ends("failed", 0) /\ UNCHANGED <<steps, Locals, page>>
    BY <1>5, <2>2, Verdicts DEF Base, At, Ends, TypeOK, Placed, OwnTrace, Trace
  <2> QED BY <1>5, <2>1, <2>2 DEF Base
<1>6. CASE GoalSeen
  <2>1. steps' \in Seq(Key \cup {NoKey}) /\ Len(steps') \in 1 .. MaxSteps
    BY <1>6, Recorded DEF GoalSeen, Looping
  <2> QED BY <1>6, <2>1, Verdicts DEF GoalSeen, Looping, At, Ends, TypeOK, Placed, OwnTrace, Trace
<1>7. CASE Look
  BY <1>7 DEF Look, Looping, At, TypeOK, Placed, Seen
<1>8. CASE LoopEnds
  BY <1>8 DEF LoopEnds, At, Go, TypeOK, Placed
<1>9. CASE PlannerError
  BY <1>9, Verdicts DEF PlannerError, Forget, Ends, TypeOK, Placed, OwnTrace, Trace, Seen
<1>10. CASE Reject
  <2>1. steps' \in Seq(Key \cup {NoKey}) /\ Len(steps') \in 1 .. MaxSteps
    BY <1>10, Recorded DEF Reject, Placed
  <2> QED BY <1>10, <2>1 DEF Reject, Forget, TypeOK, Placed, Seen
<1>11. CASE ChooseFinish
  BY <1>11 DEF ChooseFinish, Forget, TypeOK, Placed, Seen
<1>12. ASSUME NEW a \in Act, Execute(a) PROVE TypeOK' /\ Placed'
  BY <1>12 DEF Execute, TypeOK, Placed, Key
<1>13. CASE JudgeRefused
  <2>1. steps' \in Seq(Key \cup {NoKey}) /\ Len(steps') = Len(steps) + 1 /\ Len(steps') \in 1 .. MaxSteps
    <3>1. key \in Key \cup {NoKey} /\ Record(key) /\ Len(steps) < MaxSteps
      BY <1>13 DEF JudgeRefused, At, Placed, TypeOK
    <3> QED BY <3>1, Recorded
  <2> QED BY <1>13, <2>1, Verdicts DEF JudgeRefused, At, Ends, Forget, TypeOK, Placed, OwnTrace, Trace, Seen
<1>14. CASE JudgeProgress
  <2>1. steps' \in Seq(Key \cup {NoKey}) /\ Len(steps') = Len(steps) + 1 /\ Len(steps') \in 1 .. MaxSteps
    <3>1. key \in Key \cup {NoKey} /\ Record(key) /\ Len(steps) < MaxSteps
      BY <1>14 DEF JudgeProgress, At, Placed, TypeOK
    <3> QED BY <3>1, Recorded
  <2>2. noProgress' \in 0 .. repeatLimit
    BY <1>14 DEF JudgeProgress, At, Progress, Placed, TypeOK, repeatLimit
  <2>3. CASE noProgress' >= repeatLimit
    BY <1>14, <2>1, <2>2, <2>3, Verdicts DEF JudgeProgress, At, Ends, Forget, TypeOK, Placed, OwnTrace, Trace, Seen
  <2>4. CASE ~(noProgress' >= repeatLimit)
    BY <1>14, <2>1, <2>2, <2>4 DEF JudgeProgress, At, Forget, TypeOK, Placed, Seen, repeatLimit
  <2> QED BY <2>3, <2>4
<1>15. CASE Finish
  <2>1. steps' \in Seq(Key \cup {NoKey}) /\ Len(steps') = Len(steps) + 1 /\ Len(steps') \in 1 .. MaxSteps
    BY <1>15, Recorded DEF Finish, At, Placed
  <2> QED BY <1>15, <2>1, Verdicts DEF Finish, At, Ends, TypeOK, Placed, OwnTrace, Trace
<1>16. CASE Last
  BY <1>16, Verdicts DEF Last, At, Ends, TypeOK, Placed, OwnTrace, Trace
<1>17. CASE Move
  BY <1>17 DEF Move, TypeOK, Placed, OwnTrace
<1>18. ASSUME NEW kind \in {"offsite", "write"}, Issue(kind) PROVE TypeOK' /\ Placed'
  BY <1>18 DEF Issue, TypeOK, Placed, OwnTrace, Request
<1>19. ASSUME NEW r \in paused, Decide(r) PROVE TypeOK' /\ Placed'
  <2>1. blocked' \in Nat /\ blocked <= blocked' /\ caught' \in BOOLEAN
    BY <1>19 DEF Decide, TypeOK
  <2> QED BY <1>19, <2>1 DEF Decide, TypeOK, Placed, OwnTrace
<1>20. CASE Park
  BY <1>20 DEF Park, TypeOK, Placed, OwnTrace
<1>21. CASE Expire
  BY <1>21 DEF Expire, TypeOK, Placed, OwnTrace
<1>22. CASE Fire
  BY <1>22, Verdicts DEF Fire, StalledReport, TypeOK, Placed
<1>23. CASE Deliver
  BY <1>23, Verdicts DEF Deliver, Errored, TypeOK, Placed, OwnTrace
<1>24. CASE UNCHANGED vars
  BY <1>24 DEF vars, TypeOK, Placed, OwnTrace
<1> QED
  BY <1>1, <1>2, <1>3, <1>4, <1>5, <1>6, <1>7, <1>8, <1>9, <1>10, <1>11, <1>12, <1>13, <1>14,
     <1>15, <1>16, <1>17, <1>18, <1>19, <1>20, <1>21, <1>22, <1>23, <1>24 DEF Next, Session, World

\* A step of the session other than arming leaves the traffic and the report alone, moves forward,
\* and fails the drive on a block it finds after the settle delay.
Passage ==
  /\ UNCHANGED <<options, traffic, outside>>
  /\ place \notin {"over", "gone"}
  /\ place' \in Driving => place \in Driving
  /\ place' \in Bringing \ {"base"} => place \in Bringing \ {"base"}
  /\ place = "settle" /\ before < blocked => place' = "over" /\ verdict'.outcome = "failed"

LEMMA SessionPasses == Session /\ ~Arm => Passage
<1> SUFFICES ASSUME Session, ~Arm PROVE Passage
  OBVIOUS
<1> USE DEF Passage, Elsewhere, Bringing, Driving
<1>1. CASE BringUp
  <2>1. place \in {"start", "probe", "intercept"} /\ NextUp[place] \in {"probe", "intercept", "login"}
    BY <1>1 DEF BringUp, NextUp
  <2> QED BY <1>1, <2>1 DEF BringUp, Fails, Go
<1>2. CASE Login
  BY <1>2 DEF Login, At, Go, Ends
<1>3. CASE InnerStall
  BY <1>3 DEF InnerStall, Fails
<1>4. CASE Base
  BY <1>4 DEF Base, At, Go, Ends
<1>5. CASE GoalSeen
  BY <1>5 DEF GoalSeen, Looping, At, Ends
<1>6. CASE Look
  BY <1>6 DEF Look, Looping, At
<1>7. CASE LoopEnds
  BY <1>7 DEF LoopEnds, At, Go
<1>8. CASE PlannerError
  BY <1>8 DEF PlannerError, Ends
<1>9. CASE Reject
  BY <1>9 DEF Reject
<1>10. CASE ChooseFinish
  BY <1>10 DEF ChooseFinish
<1>11. ASSUME NEW a \in Act, Execute(a) PROVE Passage
  BY <1>11 DEF Execute
<1>12. CASE JudgeRefused
  BY <1>12 DEF JudgeRefused, At, Ends
<1>13. CASE JudgeProgress
  BY <1>13 DEF JudgeProgress, At, Ends, WasBlocked
<1>14. CASE Finish
  BY <1>14 DEF Finish, At, Ends
<1>15. CASE Last
  BY <1>15 DEF Last, At, Ends
<1> QED
  BY <1>1, <1>2, <1>3, <1>4, <1>5, <1>6, <1>7, <1>8, <1>9, <1>10, <1>11, <1>12, <1>13, <1>14,
     <1>15 DEF Session

LEMMA GuardedStep == TypeOK /\ Placed /\ Guarded /\ [Next]_vars => Guarded'
<1> SUFFICES ASSUME TypeOK, Placed, Guarded, [Next]_vars PROVE Guarded'
  OBVIOUS
<1> USE DEF Guarded, DryRunWritesNothing
<1>1. CASE Arm
  BY <1>1 DEF Arm, Armed, At, Go, options, Bringing, Driving, TypeOK
<1>2. CASE Session /\ ~Arm
  BY <1>2, SessionPasses DEF Passage, options, traffic
<1>3. CASE Move
  BY <1>3 DEF Move, session, options, traffic
<1>4. ASSUME NEW kind \in {"offsite", "write"}, Issue(kind) PROVE Guarded'
  BY <1>4 DEF Issue, HasPage, session, options, Bringing, Driving
<1>5. ASSUME NEW r \in paused, Decide(r) PROVE Guarded'
  <2>1. place \in Driving \/ place \in Bringing \ {"base"}
    BY <1>5 DEF Decide, HasPage, Driving, Bringing
  <2>2. sent' \subseteq sent \cup {r} /\ (armed => sent' = sent)
    BY <1>5 DEF Decide
  <2>3. dryRun /\ ~armed => r.phase = "login"
    BY <2>1
  <2>4. DryRunWritesNothing'
    BY <1>5, <2>2, <2>3 DEF Decide, options, TypeOK
  <2>5. UNCHANGED <<place, dryRun, armed>> /\ paused' \subseteq paused
    BY <1>5 DEF Decide, session, options
  <2> QED BY <2>4, <2>5
<1>6. CASE Park
  BY <1>6 DEF Park, options, traffic
<1>7. CASE Expire
  BY <1>7 DEF Expire, session, options, traffic
<1>8. CASE Fire
  BY <1>8 DEF Fire, options, traffic, Bringing, Driving
<1>9. CASE Deliver
  BY <1>9 DEF Deliver, session, options, traffic
<1>10. CASE UNCHANGED vars
  BY <1>10 DEF vars, session, options, traffic
<1> QED
  BY <1>1, <1>2, <1>3, <1>4, <1>5, <1>6, <1>7, <1>8, <1>9, <1>10 DEF Next, World

LEMMA BlocksStep == TypeOK /\ Placed /\ Blocks /\ [Next]_vars => Blocks'
<1> SUFFICES ASSUME TypeOK, Placed, Blocks, [Next]_vars PROVE Blocks'
  OBVIOUS
<1> USE DEF Blocks
<1>1. CASE Arm
  BY <1>1 DEF Arm, At
<1>2. CASE Session /\ ~Arm
  BY <1>2, SessionPasses DEF Passage, traffic
<1>3. CASE Move
  BY <1>3 DEF Move, session, traffic
<1>4. ASSUME NEW kind \in {"offsite", "write"}, Issue(kind) PROVE Blocks'
  BY <1>4 DEF Issue, session
<1>5. ASSUME NEW r \in paused, Decide(r) PROVE Blocks'
  <2>1. before \in Nat /\ blocked \in Nat /\ UNCHANGED <<place, verdict, before>>
    BY <1>5 DEF Decide, session, TypeOK
  <2>2. blocked' \in {blocked, blocked + 1}
    BY <1>5 DEF Decide
  <2>3. CASE caught
    BY <2>1, <2>2, <2>3
  <2>4. CASE ~caught /\ caught'
    <3>1. place = "settle" /\ blocked' = blocked + 1
      BY <1>5, <2>4 DEF Decide
    <3>2. before <= blocked
      BY <3>1 DEF Placed
    <3> QED BY <2>1, <3>1, <3>2
  <2> QED BY <2>3, <2>4
<1>6. CASE Park
  BY <1>6 DEF Park, Locals, Turn, traffic
<1>7. CASE Expire
  BY <1>7 DEF Expire, session, traffic
<1>8. CASE Fire
  BY <1>8 DEF Fire
<1>9. CASE Deliver
  BY <1>9 DEF Deliver, session, traffic
<1>10. CASE UNCHANGED vars
  BY <1>10 DEF vars, session, traffic
<1> QED
  BY <1>1, <1>2, <1>3, <1>4, <1>5, <1>6, <1>7, <1>8, <1>9, <1>10 DEF Next, World

LEMMA ReportsStep == TypeOK /\ Placed /\ Reports /\ [Next]_vars => Reports'
<1> SUFFICES ASSUME TypeOK, Placed, Reports, [Next]_vars PROVE Reports'
  OBVIOUS
<1> USE DEF Reports, ReportsObserved
<1>1. CASE Session
  <2>1. report' = report /\ place \notin {"over", "gone"}
    <3>1. CASE Arm
      BY <3>1 DEF Arm, At, outside
    <3>2. CASE ~Arm
      BY <1>1, <3>2, SessionPasses DEF Passage, outside
    <3> QED BY <3>1, <3>2
  <2> QED BY <2>1
<1>2. CASE Move \/ (\E kind \in {"offsite", "write"} : Issue(kind)) \/ (\E r \in paused : Decide(r))
  BY <1>2 DEF Move, Issue, Decide, session, outside, OwnTrace
<1>3. CASE Park
  BY <1>3 DEF Park, outside, OwnTrace
<1>4. CASE Expire
  BY <1>4 DEF Expire, session, OwnTrace
<1>5. CASE Fire
  BY <1>5 DEF Fire, StalledReport
<1>6. CASE Deliver
  <2>1. UNCHANGED <<place, verdict, steps, err>> /\ place = "over"
    BY <1>6 DEF Deliver, session
  <2>2. CASE err = "none"
    <3>1. report' = {OwnTrace} /\ OwnTrace' = OwnTrace /\ OwnTrace \in Trace
      BY <1>6, <2>1, <2>2 DEF Deliver, Placed, OwnTrace
    <3> QED BY <2>1, <3>1 DEF Trace
  <2>3. CASE err # "none"
    <3>1. report' \in {{NoTrace}, {Errored}} /\ steps = <<>>
      BY <1>6, <2>1, <2>3 DEF Deliver, Placed, TypeOK
    <3> QED BY <2>1, <3>1
  <2> QED BY <2>2, <2>3
<1>7. CASE UNCHANGED vars
  BY <1>7 DEF vars, session, outside, OwnTrace
<1> QED
  BY <1>1, <1>2, <1>3, <1>4, <1>5, <1>6, <1>7 DEF Next, World

-----------------------------------------------------------------------------
(* Spinning.                                                               *)

LEMMA KeysExecute == NoKey \notin Key
BY DEF Key, NoKey

LEMMA ExecutedFinite ==
  ASSUME TypeOK, NEW from \in Nat
  PROVE  IsFiniteSet(Executed(from)) /\ Cardinality(Executed(from)) \in Nat
<1>1. IsFiniteSet(from .. Len(steps))
  BY FS_Interval DEF TypeOK
<1>2. Executed(from) \subseteq from .. Len(steps)
  BY DEF Executed
<1> QED BY <1>1, <1>2, FS_Subset, FS_CardinalityType

\* From here on nothing was executed yet.
LEMMA SpinningNone == TypeOK => Spinning(0)
<1> SUFFICES ASSUME TypeOK PROVE Spinning(0)
  OBVIOUS
<1> DEFINE from == Len(steps) + 1
<1>1. Len(steps) \in Nat /\ from \in 1 .. Len(steps) + 1 /\ Executed(from) = {}
  BY DriverAssumption DEF TypeOK, Executed
<1>2. Cardinality(Executed(from)) = 0
  BY <1>1, FS_EmptySet
<1> HIDE DEF from
<1> QED BY <1>1, <1>2 DEF Spinning

\* A step that executes nothing is no progress and no repetition.
LEMMA SpinningIdle ==
  ASSUME TypeOK, Record(NoKey), NEW n \in Nat, Spinning(n)
  PROVE  Spinning(n)'
<1> HIDE DEF NoKey, Key
<1>1. PICK from \in 1 .. Len(steps) + 1 :
        /\ Cardinality(Executed(from)) >= n
        /\ \A i \in Executed(from) : \E j \in 1 .. i - 1 : steps[j] = steps[i]
  BY DEF Spinning
<1>2. /\ steps \in Seq(Key \cup {NoKey}) /\ steps' = Append(steps, NoKey) /\ Len(steps) \in Nat
      /\ Len(steps') = Len(steps) + 1 /\ steps'[Len(steps) + 1] = NoKey
      /\ \A i \in 1 .. Len(steps) : steps'[i] = steps[i]
  BY DEF TypeOK, Record
<1>3. {i \in from .. Len(steps') : steps'[i] # NoKey} = Executed(from)
  BY <1>2 DEF Executed
<1>4. from \in 1 .. Len(steps') + 1
  BY <1>2
<1>5. \A i \in Executed(from) : \E j \in 1 .. i - 1 : steps'[j] = steps'[i]
  <2> SUFFICES ASSUME NEW i \in Executed(from) PROVE \E j \in 1 .. i - 1 : steps'[j] = steps'[i]
    OBVIOUS
  <2>1. i \in 1 .. Len(steps)
    BY <1>2 DEF Executed
  <2>2. PICK j \in 1 .. i - 1 : steps[j] = steps[i]
    BY <1>1
  <2> QED BY <1>2, <2>1, <2>2
<1> QED BY <1>1, <1>3, <1>4, <1>5 DEF Spinning, Executed

\* One more repetition.
LEMMA SpinningOn ==
  ASSUME TypeOK, Record(key), key \in Key, Repeated, NEW n \in Nat, Spinning(n)
  PROVE  Spinning(n + 1)'
<1> HIDE DEF NoKey, Key
<1>1. PICK from \in 1 .. Len(steps) + 1 :
        /\ Cardinality(Executed(from)) >= n
        /\ \A i \in Executed(from) : \E j \in 1 .. i - 1 : steps[j] = steps[i]
  BY DEF Spinning
<1> DEFINE last == Len(steps) + 1
<1>2. /\ steps \in Seq(Key \cup {NoKey}) /\ steps' = Append(steps, key) /\ Len(steps) \in Nat
      /\ Len(steps') = last /\ steps'[last] = key
      /\ \A i \in 1 .. Len(steps) : steps'[i] = steps[i]
  BY DEF TypeOK, Record
<1>3. {i \in from .. Len(steps') : steps'[i] # NoKey} = Executed(from) \cup {last}
  BY <1>2, KeysExecute DEF Executed
<1>4. Cardinality(Executed(from) \cup {last}) >= n + 1
  <2>1. last \notin Executed(from)
    BY <1>2 DEF Executed
  <2>2. IsFiniteSet(Executed(from)) /\ Cardinality(Executed(from)) \in Nat
    BY ExecutedFinite
  <2>3. Cardinality(Executed(from) \cup {last}) = Cardinality(Executed(from)) + 1
    BY <2>1, <2>2, FS_AddElement
  <2> QED BY <1>1, <2>2, <2>3
<1>5. \A i \in Executed(from) \cup {last} : \E j \in 1 .. i - 1 : steps'[j] = steps'[i]
  <2>1. \E j \in 1 .. last - 1 : steps'[j] = steps'[last]
    BY <1>2 DEF Repeated
  <2>2. ASSUME NEW i \in Executed(from) PROVE \E j \in 1 .. i - 1 : steps'[j] = steps'[i]
    <3>1. i \in 1 .. Len(steps)
      BY <1>2 DEF Executed
    <3>2. PICK j \in 1 .. i - 1 : steps[j] = steps[i]
      BY <1>1
    <3> QED BY <1>2, <3>1, <3>2
  <2> QED BY <2>1, <2>2
<1>6. from \in 1 .. Len(steps') + 1
  BY <1>2
<1> HIDE DEF last
<1> QED BY <1>3, <1>4, <1>5, <1>6 DEF Spinning, Executed

\* Nothing but these changes the trace or the counter while the session runs.
LEMMA SpinsKept ==
  ASSUME Spins, UNCHANGED <<steps, noProgress>>,
         place' = "settle" => key' \in Key,
         place \in {"over", "gone"} => place' \in {"over", "gone"}
  PROVE  Spins'
BY DEF Spins, Spinning, Executed, repeatLimit

LEMMA SpinsStep == TypeOK /\ TypeOK' /\ Placed /\ Spins /\ [Next]_vars => Spins'
<1> SUFFICES ASSUME TypeOK, TypeOK', Placed, Spins, [Next]_vars PROVE Spins'
  OBVIOUS
<1> USE DEF Locals, Turn
<1>0. noProgress \in Nat
  BY DEF TypeOK, repeatLimit
<1>1. CASE BringUp \/ Login \/ InnerStall \/ Arm \/ Base
  <2>1. /\ UNCHANGED <<steps, noProgress>> /\ place' # "settle"
        /\ place \notin {"over", "gone"}
    BY <1>1 DEF BringUp, Login, InnerStall, Arm, Base, At, Go, Fails, Ends, NextUp
  <2> QED BY <2>1, SpinsKept
<1>2. CASE GoalSeen \/ Finish
  <2>1. Record(NoKey) /\ noProgress' = noProgress /\ place' = "over" /\ place \notin {"over", "gone"}
    BY <1>2 DEF GoalSeen, Finish, Looping, At, Ends
  <2>2. Spinning(noProgress)
    BY <2>1 DEF Spins
  <2>3. Spinning(noProgress)'
    <3> PICK n \in Nat : n = noProgress
      BY <1>0
    <3>1. Spinning(n)'
      BY <2>1, <2>2, SpinningIdle
    <3> QED BY <2>1, <3>1 DEF Spinning
  <2> QED BY <2>1, <2>3 DEF Spins
<1>3. CASE Look \/ LoopEnds \/ PlannerError \/ ChooseFinish \/ Last
  <2>1. /\ UNCHANGED <<steps, noProgress>> /\ place' # "settle"
        /\ place \notin {"over", "gone"}
    BY <1>3 DEF Look, Looping, LoopEnds, PlannerError, ChooseFinish, Last, At, Go, Ends
  <2> QED BY <2>1, SpinsKept
<1>4. CASE Reject
  <2>1. Record(NoKey) /\ noProgress' = noProgress /\ place = "plan" /\ place' = "top"
    BY <1>4 DEF Reject
  <2>2. Spinning(noProgress)
    BY <2>1 DEF Spins
  <2>3. Spinning(noProgress)'
    <3> PICK n \in Nat : n = noProgress
      BY <1>0
    <3>1. Spinning(n)'
      BY <2>1, <2>2, SpinningIdle
    <3> QED BY <2>1, <3>1 DEF Spinning
  <2> QED BY <2>1, <2>3 DEF Spins
<1>5. ASSUME NEW a \in Act, Execute(a) PROVE Spins'
  <2>1. key' \in Key /\ UNCHANGED <<steps, noProgress>> /\ place = "plan"
    BY <1>5 DEF Execute, Key, TypeOK
  <2> QED BY <2>1, SpinsKept
<1>6. CASE JudgeRefused
  <2>1. place' = "over" /\ noProgress' = noProgress /\ place = "settle"
    BY <1>6 DEF JudgeRefused, At, Ends
  <2>2. noProgress' # repeatLimit
    BY <1>0, <2>1 DEF Placed, repeatLimit
  <2> QED BY <2>1, <2>2 DEF Spins
<1>7. CASE JudgeProgress
  <2>1. /\ Record(key) /\ key \in Key /\ place = "settle" /\ place' # "settle"
        /\ noProgress' \in {0, noProgress + 1}
        /\ noProgress' # 0 => Repeated
    BY <1>7 DEF JudgeProgress, At, Ends, Progress, Spins
  <2>2. Spinning(noProgress)
    BY <2>1 DEF Spins
  <2>3. Spinning(noProgress)'
    <3>1. CASE noProgress' = 0
      <4>1. Spinning(0)'
        BY SpinningNone, PTL
      <4> QED BY <3>1, <4>1 DEF Spinning
    <3>2. CASE noProgress' = noProgress + 1
      <4> PICK n \in Nat : n = noProgress
        BY <1>0
      <4>1. Repeated
        BY <1>0, <2>1, <3>2
      <4>2. Spinning(n + 1)'
        BY <2>1, <2>2, <4>1, SpinningOn
      <4> QED BY <3>2, <4>2 DEF Spinning
    <3> QED BY <2>1, <3>1, <3>2
  <2> QED BY <2>1, <2>3 DEF Spins
<1>8. CASE Move \/ (\E kind \in {"offsite", "write"} : Issue(kind)) \/ (\E r \in paused : Decide(r))
           \/ Expire \/ Deliver
  BY <1>8, SpinsKept DEF Move, Issue, Decide, Expire, Deliver, session, Spins
<1>9. CASE Park \/ Fire
  BY <1>9, SpinsKept DEF Park, Fire, Spins
<1>10. CASE UNCHANGED vars
  BY <1>10, SpinsKept DEF vars, session, Spins
<1> QED
  BY <1>1, <1>2, <1>3, <1>4, <1>5, <1>6, <1>7, <1>8, <1>9, <1>10 DEF Next, Session, World

LEMMA Initially == Init => DriverInv
<1> SUFFICES ASSUME Init PROVE DriverInv
  OBVIOUS
<1> USE DriverAssumption
<1>1. TypeOK
  <2>1. verdict \in Verdict
    BY DEF Init, Verdict, NoVerdict
  <2>2. steps \in Seq(Key \cup {NoKey}) /\ Len(steps) \in 0 .. MaxSteps
    <3> HIDE DEF Key, NoKey
    <3> QED BY DEF Init
  <2>3. key \in Key \cup {NoKey} /\ cur \in Seen
    BY DEF Init, Seen
  <2>4. paused \in SUBSET Request /\ sent \in SUBSET Request
        /\ report \in SUBSET (Trace \cup {Errored})
    BY DEF Init
  <2>5. /\ place \in Place /\ parked \in BOOLEAN /\ noProgress \in 0 .. repeatLimit
        /\ aerr \in {"none", "refused", "error"} /\ before \in Nat
        /\ err \in {"none", "error", "stalled"} /\ issued \in 0 .. MaxRequests /\ blocked \in Nat
    <3>1. MaxRequests \in Nat /\ place = "start" /\ parked = FALSE /\ noProgress = 0 /\ before = 0
          /\ aerr = "none" /\ err = "none" /\ issued = 0 /\ blocked = 0
      BY DEF Init
    <3>2. 0 \in 0 .. repeatLimit /\ 0 \in 0 .. MaxRequests
      BY <3>1 DEF repeatLimit
    <3> QED BY <3>1, <3>2 DEF Place
  <2>6. /\ dryRun \in BOOLEAN /\ hasLogin \in BOOLEAN /\ url \in Url /\ goal \in BOOLEAN
        /\ armed \in BOOLEAN /\ caught \in BOOLEAN /\ expired \in BOOLEAN
    BY DEF Init
  <2> QED BY <2>1, <2>2, <2>3, <2>4, <2>5, <2>6 DEF TypeOK
<1>2. Placed /\ Guarded /\ Blocks /\ Reports
  BY DEF Init, Placed, Guarded, Blocks, Reports, Bringing, Driving, repeatLimit,
     DryRunWritesNothing, ReportsObserved
<1>3. Spins
  BY <1>1, SpinningNone DEF Init, Spins
<1> QED BY <1>1, <1>2, <1>3 DEF DriverInv

\* The state of a drive is well formed, and its parts fit together as DriverInv says.
THEOREM Invariance == Spec => []DriverInv
<1>1. Init => DriverInv
  BY Initially
<1>2. DriverInv /\ [Next]_vars => DriverInv'
  BY PlacedStep, GuardedStep, BlocksStep, ReportsStep, SpinsStep DEF DriverInv
<1> QED BY <1>1, <1>2, PTL DEF Spec

THEOREM Typing == Spec => []TypeOK
<1>1. DriverInv => TypeOK
  BY DEF DriverInv
<1> QED BY <1>1, Invariance, PTL

\* Drive reports what its session observed, an error that kept it from starting, or that the
\* browser stalled; in the last case nothing the abandoned session did is in the report.
THEOREM Reporting == Spec => []ReportsObserved
<1>1. DriverInv => ReportsObserved
  BY DEF DriverInv, Reports
<1> QED BY <1>1, Invariance, PTL

\* A drive given up for want of progress had repeated itself three times.
THEOREM StuckSpun == Spec => []StuckWasSpinning
<1>1. DriverInv => StuckWasSpinning
  BY DEF DriverInv, Spins, StuckWasSpinning
<1> QED BY <1>1, Invariance, PTL

\* In a dry run no write issued after the login phase reaches the site.
THEOREM DryRun == Spec => []DryRunWritesNothing
<1>1. DriverInv => DryRunWritesNothing
  BY DEF DriverInv, Guarded
<1> QED BY <1>1, Invariance, PTL

\* A block recorded in time for the judgement of the action fails the drive.
THEOREM BlockFails == Spec => []InTimeBlockFails
<1>1. DriverInv => InTimeBlockFails
  BY DEF DriverInv, Blocks, InTimeBlockFails
<1> QED BY <1>1, Invariance, PTL

\* A drive succeeds only on an observation of the goal, before its deadline.
THEOREM Success == Spec => SuccessIsSeen
<1> DEFINE Turning == verdict.outcome # "success" /\ verdict'.outcome = "success"
<1>1. DriverInv /\ [Next]_vars => [Turning => goal /\ ~expired]_vars
  <2> SUFFICES ASSUME DriverInv, Next, Turning PROVE goal /\ ~expired
    BY DEF vars
  <2>1. ~(verdict' = verdict) /\ verdict' # Stalled
    BY DEF Stalled
  <2>2. \A n : ~Ends("failed", n) /\ ~Ends("stuck", n)
    BY DEF Ends
  <2>3. GoalSeen \/ Finish \/ Last
    <3>1. CASE Session
      BY <2>1, <2>2, <3>1 DEF Session, BringUp, Login, InnerStall, Arm, Base, Look, LoopEnds,
         PlannerError, Reject, ChooseFinish, Execute, JudgeRefused, JudgeProgress, Fails, Go
    <3>2. CASE World \/ Expire \/ Fire \/ Deliver
      BY <2>1, <3>2 DEF World, Move, Issue, Decide, Park, Expire, Fire, Deliver, session
    <3> QED BY <3>1, <3>2 DEF Next
  <2> QED BY <2>2, <2>3 DEF GoalSeen, Looping, Finish, FinishSeen, Last
<1> QED BY <1>1, Invariance, PTL DEF Spec, SuccessIsSeen
=============================================================================
