--------------------------- MODULE RunQueueProofs ---------------------------
(* Proofs about RunQueue for any number of processes, workers, requests,    *)
(* targets, pages and runs, and any bound on crashes and database errors.   *)
EXTENDS RunQueue, TLAPS

LEMMA LatestDoneType ==
  ASSUME NEW t
  PROVE  LatestDone(t) \subseteq RunId \cup {NoRun}
BY DEF LatestDone, DoneAudits

(***************************************************************************)
(* Most steps move one busy actor to a new place and at most the status of  *)
(* its own run.  What such a move needs to keep OwnerInv, said once.        *)
(***************************************************************************)
LegalMove(a, place, s) ==
  /\ pc[a] # "idle"
  /\ place \in Creating => pc[a] \in Creating /\ s = "absent"
  /\ place = "picked" => s # "absent"
  /\ place \in Owning => s \in {"running", "failed"}
  /\ place = "setdiff" => s = "done"
  /\ place \in Holding =>
       pc[a] \in Holding \cup Creating \/ status[job[a]] = "queued"
  /\ s # status[job[a]] => pc[a] \in Owning \/ status[job[a]] \in {"absent", "queued"}
  /\ s # status[job[a]] /\ status[job[a]] = "absent" => pc[a] \in Creating
  /\ s = "absent" => status[job[a]] = "absent"

LEMMA MoveKeepsOwnerInv ==
  ASSUME TypeOK, OwnerInv,
         NEW a \in Actor, NEW place \in PC, NEW s \in Status,
         LegalMove(a, place, s),
         pc' = [pc EXCEPT ![a] = place],
         status' = [status EXCEPT ![job[a]] = s],
         created' = created,
         \/ job' = job
         \/ job' = [job EXCEPT ![a] = NoRun] /\ place = "idle"
  PROVE  OwnerInv'
<1> USE BoundAssumption DEF OwnerInv, RunId, NoRun, TypeOK
<1>1. job[a] \in 1 .. created /\ job[a] \in RunId
  BY DEF LegalMove, JobCreated
<1>2. /\ \A b \in Actor : pc'[b] = IF b = a THEN place ELSE pc[b]
      /\ \A b \in Actor : pc'[b] # "idle" => job'[b] = job[b] /\ pc'[b] = IF b = a THEN place ELSE pc[b]
      /\ \A r \in RunId : status'[r] = IF r = job[a] THEN s ELSE status[r]
  BY <1>1
<1>3. \A b \in Actor : pc'[b] # "idle" => pc[b] # "idle" /\ job[b] \in 1 .. created /\ job[b] \in RunId
  BY <1>1, <1>2 DEF LegalMove, JobCreated
<1>4. FutureAbsent'
  BY <1>1, <1>2 DEF FutureAbsent
<1>5. JobCreated'
  BY <1>2, <1>3 DEF JobCreated
<1>6. CreatingAlone'
  BY <1>2, <1>3 DEF CreatingAlone, LegalMove, Creating
<1>7. CreatingAbsent'
  <2> SUFFICES ASSUME NEW b \in Actor, pc'[b] \in Creating
               PROVE  status'[job'[b]] = "absent"
    BY DEF CreatingAbsent
  <2>1. CASE b = a
    BY <1>2, <1>3, <2>1 DEF LegalMove, Creating
  <2>2. CASE b # a
    <3>1. job[b] # job[a]
      BY <1>2, <2>2 DEF CreatingAlone, LegalMove, Creating
    <3> QED BY <1>2, <1>3, <2>2, <3>1 DEF CreatingAbsent, Creating
  <2> QED BY <2>1, <2>2
<1>8. PickedExists'
  BY <1>2, <1>3 DEF PickedExists, LegalMove
<1>9. \A b \in Actor : b # a /\ pc[b] \in Holding => job[b] # job[a] \/ s = status[job[a]]
  BY DEF HoldersDiffer, LegalMove, OwnedUnsettled, DiffingDone, Holding, Owning
<1>10. OwnedUnsettled'
  <2> SUFFICES ASSUME NEW b \in Actor, pc'[b] \in Owning
               PROVE  status'[job'[b]] \in {"running", "failed"}
    BY DEF OwnedUnsettled
  <2>1. CASE b = a
    BY <1>2, <1>3, <2>1 DEF LegalMove, Owning
  <2>2. CASE b # a
    BY <1>2, <1>3, <1>9, <2>2 DEF OwnedUnsettled, Holding, Owning
  <2> QED BY <2>1, <2>2
<1>11. DiffingDone'
  BY <1>2, <1>3, <1>9 DEF DiffingDone, LegalMove, Holding
<1>12. HoldersDiffer'
  <2>1. \A b \in Actor : b # a /\ pc[b] \in Holding /\ place \in Holding => job[b] # job[a]
    BY <1>1 DEF HoldersDiffer, CreatingAlone, OwnedUnsettled, DiffingDone, LegalMove,
                Holding, Owning, Creating
  <2> QED BY <1>2, <1>3, <2>1 DEF HoldersDiffer, Holding, Owning
<1> QED BY <1>4, <1>5, <1>6, <1>7, <1>8, <1>10, <1>11, <1>12

\* The type invariant and OwnerInv are inductive together.
THEOREM TypeCorrect == Spec => [](TypeOK /\ OwnerInv)
<1> USE HostAssumption, ActorAssumption, TargetAssumption, BoundAssumption
<1> USE DEF NoRun, Actor
<1>1. Init => TypeOK /\ OwnerInv
  <2>1. Init => TypeOK
    BY DEF Init, TypeOK, RunId, Status, Trigger, PC
  <2>2. Init => OwnerInv
    BY DEF Init, OwnerInv, Creating, Owning, Holding, RunId, FutureAbsent, JobCreated,
           CreatingAbsent, CreatingAlone, PickedExists, OwnedUnsettled, DiffingDone,
           HoldersDiffer
  <2> QED BY <2>1, <2>2
<1>2. TypeOK /\ OwnerInv /\ [Next]_vars => TypeOK'
  <2> SUFFICES ASSUME TypeOK, OwnerInv, [Next]_vars PROVE TypeOK'
    OBVIOUS
  <2> USE DEF TypeOK, Goto, SetStatus, Rest, DbError
  <2>1. ASSUME NEW h \in Handler, Request(h) PROVE TypeOK'
    BY <2>1 DEF Request, Stamp, RunId, Trigger, PC
  <2>2. ASSUME NEW h \in Handler, ReadBaseline(h) PROVE TypeOK'
    BY <2>2, LatestDoneType DEF ReadBaseline, PC
  <2>3. ASSUME NEW h \in Handler, InsertQueued(h) PROVE TypeOK'
    BY <2>3 DEF InsertQueued, PC, Status
  <2>4. ASSUME NEW h \in Handler, InsertPushed(h) PROVE TypeOK'
    BY <2>4 DEF InsertPushed, PC, Status
  <2>5. ASSUME NEW w \in Worker, Pick(w) PROVE TypeOK'
    BY <2>5 DEF Pick, OldestQueued, PC, table, env
  <2>6. ASSUME NEW w \in Worker, Claim(w) PROVE TypeOK'
    BY <2>6 DEF Claim, PC, Status, env
  <2>7. ASSUME NEW w \in Worker, Load(w) PROVE TypeOK'
    BY <2>7 DEF Load, PC, table
  <2>8. ASSUME NEW w \in Worker, CrawlOk(w) PROVE TypeOK'
    BY <2>8 DEF CrawlOk, PC, table, env
  <2>9. ASSUME NEW w \in Worker, CrawlFail(w) PROVE TypeOK'
    BY <2>9 DEF CrawlFail, PC, Status
  <2>10. ASSUME NEW a \in Actor, NEW page \in Page, PersistPage(a, page) PROVE TypeOK'
    BY <2>10 DEF PersistPage
  <2>11. ASSUME NEW a \in Actor, ComputeDiff(a) PROVE TypeOK'
    <3>1. job[a] \in RunId
      BY <2>11 DEF ComputeDiff, OwnerInv, JobCreated, RunId
    <3>2. prev[job[a]] # NoRun => Compare(job[a], prev[job[a]]) \in Delta
      BY <3>1 DEF Compare, Delta
    <3> QED BY <2>11, <3>2 DEF ComputeDiff, PC, table
  <2>12. ASSUME NEW a \in Actor, FinishRun(a) PROVE TypeOK'
    BY <2>12 DEF FinishRun, PC, Status
  <2>13. ASSUME NEW a \in Actor, SetRunDiff(a) PROVE TypeOK'
    BY <2>13 DEF SetRunDiff, PC
  <2>14. ASSUME NEW p \in Proc, Boot(p) PROVE TypeOK'
    BY <2>14 DEF Boot, Swept, Status, actors
  <2>15. ASSUME NEW p \in Proc, Crash(p) PROVE TypeOK'
    BY <2>15 DEF Crash, table, PC
  <2>16. ASSUME NEW p \in Proc, NEW t \in Target, Synthesize(p, t) PROVE TypeOK'
    BY <2>16 DEF Synthesize, RunId, Trigger, Status, actors
  <2>17. CASE UNCHANGED vars
    BY <2>17 DEF vars, table, actors, env
  <2> QED
    BY <2>1, <2>2, <2>3, <2>4, <2>5, <2>6, <2>7, <2>8, <2>9, <2>10, <2>11, <2>12,
       <2>13, <2>14, <2>15, <2>16, <2>17
       DEF Next, HandlerStep, WorkerStep, TailStep
<1>3. TypeOK /\ OwnerInv /\ [Next]_vars => OwnerInv'
  <2> SUFFICES ASSUME TypeOK, OwnerInv, [Next]_vars PROVE OwnerInv'
    OBVIOUS
  <2> USE DEF TypeOK, OwnerInv, RunId
  <2>a. ASSUME NEW a \in Actor, pc[a] # "idle"
        PROVE  /\ job[a] \in RunId
               /\ status[job[a]] \in Status
               /\ status = [status EXCEPT ![job[a]] = status[job[a]]]
    <3>1. job[a] \in RunId
      BY <2>a DEF JobCreated
    <3> QED BY <3>1
  <2>b. /\ \A a \in Actor : pc[a] \in Creating => status[job[a]] = "absent"
        /\ \A a \in Actor : pc[a] \in Owning => status[job[a]] \in {"running", "failed"}
    BY DEF CreatingAbsent, OwnedUnsettled
  <2>1. ASSUME NEW h \in Handler, Request(h) PROVE OwnerInv'
    <3>1. /\ created' = created + 1 /\ created + 1 \in RunId
          /\ status' = status /\ status[created + 1] = "absent"
          /\ \A a \in Actor : pc'[a] = IF a = h THEN "stamped" ELSE pc[a]
          /\ \A a \in Actor : job'[a] = IF a = h THEN created + 1 ELSE job[a]
      BY <2>1 DEF Request, Stamp, Goto, FutureAbsent
    <3>2. \A a \in Actor : pc[a] # "idle" => job[a] \in 1 .. created /\ job[a] # created + 1
      BY DEF JobCreated
    <3>3. FutureAbsent' /\ JobCreated'
      <4>1. FutureAbsent'
        BY <3>1 DEF FutureAbsent
      <4>2. ASSUME NEW a \in Actor, pc'[a] # "idle" PROVE job'[a] \in 1 .. created'
        BY <3>1, <3>2, <4>2
      <4> QED BY <4>1, <4>2 DEF JobCreated
    <3>4. CreatingAbsent'
      <4> SUFFICES ASSUME NEW a \in Actor, pc'[a] \in Creating
                   PROVE  status'[job'[a]] = "absent"
        BY DEF CreatingAbsent
      <4>1. CASE a = h
        BY <3>1, <4>1
      <4>2. CASE a # h
        BY <3>1, <4>2 DEF CreatingAbsent
      <4> QED BY <4>1, <4>2
    <3>5. CreatingAlone'
      BY <3>1, <3>2 DEF CreatingAlone, Creating
    <3>6. PickedExists'
      BY <3>1 DEF PickedExists
    <3>7. OwnedUnsettled'
      BY <3>1 DEF OwnedUnsettled, Owning
    <3>8. DiffingDone'
      BY <3>1 DEF DiffingDone
    <3>9. HoldersDiffer'
      BY <3>1 DEF HoldersDiffer, Holding, Owning
    <3> QED BY <3>3, <3>4, <3>5, <3>6, <3>7, <3>8, <3>9
  <2>2. ASSUME NEW h \in Handler, ReadBaseline(h) PROVE OwnerInv'
    <3> DEFINE s == status[job[h]]
    <3>1. LegalMove(h, "insert", s)
      BY <2>2, <2>b DEF ReadBaseline, LegalMove, Creating, Owning, Holding
    <3> QED BY <2>2, <2>a, <3>1, MoveKeepsOwnerInv DEF ReadBaseline, Goto, PC
  <2>3. ASSUME NEW h \in Handler, InsertQueued(h) PROVE OwnerInv'
    <3>1. LegalMove(h, "idle", "queued") /\ LegalMove(h, "idle", status[job[h]])
      BY <2>3, <2>b DEF InsertQueued, LegalMove, Creating, Owning, Holding
    <3> QED BY <2>3, <2>a, <3>1, MoveKeepsOwnerInv DEF InsertQueued, Rest, SetStatus, PC, Status
  <2>4. ASSUME NEW h \in Handler, InsertPushed(h) PROVE OwnerInv'
    <3>1. LegalMove(h, "persist", "running") /\ LegalMove(h, "idle", status[job[h]])
      BY <2>4, <2>b DEF InsertPushed, LegalMove, Creating, Owning, Holding
    <3>2. pc[h] # "idle" /\ created' = created
      BY <2>4 DEF InsertPushed
    <3>3. CASE UNCHANGED status /\ Rest(h)
      BY <2>a, <3>1, <3>2, <3>3, MoveKeepsOwnerInv DEF Rest, PC
    <3>4. CASE SetStatus(job[h], "running") /\ Goto(h, "persist") /\ UNCHANGED job
      BY <2>a, <3>1, <3>2, <3>4, MoveKeepsOwnerInv DEF Goto, SetStatus, PC, Status
    <3> QED BY <2>4, <3>3, <3>4 DEF InsertPushed
  <2>5. ASSUME NEW w \in Worker, Pick(w) PROVE OwnerInv'
    BY <2>5 DEF Pick, OldestQueued, table, env, Goto, FutureAbsent, JobCreated, CreatingAbsent,
                CreatingAlone, PickedExists, OwnedUnsettled, DiffingDone, HoldersDiffer,
                Creating, Owning, Holding
  <2>6. ASSUME NEW w \in Worker, Claim(w) PROVE OwnerInv'
    <3>1. /\ status[job[w]] = "queued" => LegalMove(w, "claimed", "running")
          /\ status[job[w]] # "queued" => LegalMove(w, "idle", status[job[w]])
      BY <2>6 DEF Claim, LegalMove, Creating, Owning, Holding
    <3>2. pc[w] # "idle" /\ created' = created
      BY <2>6 DEF Claim, env
    <3>3. CASE status[job[w]] # "queued" /\ Rest(w) /\ UNCHANGED status
      BY <2>a, <3>1, <3>2, <3>3, MoveKeepsOwnerInv DEF Rest, PC
    <3>4. CASE status[job[w]] = "queued" /\ SetStatus(job[w], "running")
               /\ Goto(w, "claimed") /\ UNCHANGED job
      BY <2>a, <3>1, <3>2, <3>4, MoveKeepsOwnerInv DEF Goto, SetStatus, PC, Status
    <3> QED BY <2>6, <3>3, <3>4 DEF Claim
  <2>7. ASSUME NEW w \in Worker, Load(w) PROVE OwnerInv'
    <3>1. LegalMove(w, "crawl", status[job[w]]) /\ LegalMove(w, "idle", status[job[w]])
      BY <2>7, <2>b DEF Load, LegalMove, Creating, Owning, Holding
    <3> QED BY <2>7, <2>a, <3>1, MoveKeepsOwnerInv DEF Load, Rest, Goto, PC, table
  <2>8. ASSUME NEW w \in Worker, CrawlOk(w) PROVE OwnerInv'
    <3>1. LegalMove(w, "persist", status[job[w]])
      BY <2>8, <2>b DEF CrawlOk, LegalMove, Creating, Owning, Holding
    <3> QED BY <2>8, <2>a, <3>1, MoveKeepsOwnerInv DEF CrawlOk, Goto, PC, table, env
  <2>9. ASSUME NEW w \in Worker, CrawlFail(w) PROVE OwnerInv'
    <3>1. LegalMove(w, "idle", "failed") /\ LegalMove(w, "idle", status[job[w]])
      BY <2>9, <2>b DEF CrawlFail, LegalMove, Creating, Owning, Holding
    <3> QED BY <2>9, <2>a, <3>1, MoveKeepsOwnerInv DEF CrawlFail, Rest, SetStatus, PC, Status
  <2>10. ASSUME NEW a \in Actor, NEW page \in Page, PersistPage(a, page) PROVE OwnerInv'
    BY <2>10 DEF PersistPage, FutureAbsent, JobCreated, CreatingAbsent, CreatingAlone,
                 PickedExists, OwnedUnsettled, DiffingDone, HoldersDiffer
  <2>11. ASSUME NEW a \in Actor, ComputeDiff(a) PROVE OwnerInv'
    <3>1. LegalMove(a, "finish", status[job[a]])
      BY <2>11, <2>b DEF ComputeDiff, LegalMove, Creating, Owning, Holding
    <3> QED BY <2>11, <2>a, <3>1, MoveKeepsOwnerInv DEF ComputeDiff, Goto, PC, table
  <2>12. ASSUME NEW a \in Actor, FinishRun(a) PROVE OwnerInv'
    <3>1. /\ LegalMove(a, "setdiff", "done") /\ LegalMove(a, "idle", "done")
          /\ LegalMove(a, "idle", status[job[a]])
      BY <2>12, <2>b DEF FinishRun, LegalMove, Creating, Owning, Holding
    <3>2. pc[a] # "idle" /\ created' = created
      BY <2>12 DEF FinishRun
    <3>3. CASE UNCHANGED status /\ Rest(a)
      BY <2>a, <3>1, <3>2, <3>3, MoveKeepsOwnerInv DEF Rest, PC
    <3>4. CASE SetStatus(job[a], "done") /\ Goto(a, "setdiff") /\ UNCHANGED job
      BY <2>a, <3>1, <3>2, <3>4, MoveKeepsOwnerInv DEF Goto, SetStatus, PC, Status
    <3>5. CASE SetStatus(job[a], "done") /\ Rest(a)
      BY <2>a, <3>1, <3>2, <3>5, MoveKeepsOwnerInv DEF Rest, SetStatus, PC, Status
    <3> QED BY <2>12, <3>3, <3>4, <3>5 DEF FinishRun
  <2>13. ASSUME NEW a \in Actor, SetRunDiff(a) PROVE OwnerInv'
    <3>1. LegalMove(a, "idle", status[job[a]])
      BY <2>13, <2>b DEF SetRunDiff, LegalMove, Creating, Owning, Holding
    <3> QED BY <2>13, <2>a, <3>1, MoveKeepsOwnerInv DEF SetRunDiff, Rest, PC
  <2>14. ASSUME NEW p \in Proc, Boot(p) PROVE OwnerInv'
    <3>1. \A r \in RunId : status'[r] = status[r] \/ (status[r] = "running" /\ status'[r] = "failed")
      <4>1. CASE status' = Swept
        BY <4>1 DEF Swept
      <4>2. CASE UNCHANGED status
        BY <4>2
      <4> QED BY <2>14, <4>1, <4>2 DEF Boot
    <3> QED BY <2>14, <2>a, <3>1
            DEF Boot, actors, FutureAbsent, JobCreated, CreatingAbsent, CreatingAlone,
                PickedExists, OwnedUnsettled, DiffingDone, HoldersDiffer, Creating, Owning, Holding
  <2>15. ASSUME NEW p \in Proc, Crash(p) PROVE OwnerInv'
    <3>1. \A a \in Actor : pc'[a] # "idle" => pc'[a] = pc[a] /\ job'[a] = job[a]
      BY <2>15 DEF Crash
    <3> QED BY <2>15, <3>1
            DEF Crash, table, FutureAbsent, JobCreated, CreatingAbsent, CreatingAlone,
                PickedExists, OwnedUnsettled, DiffingDone, HoldersDiffer, Creating, Owning, Holding
  <2>16. ASSUME NEW p \in Proc, NEW t \in Target, Synthesize(p, t) PROVE OwnerInv'
    <3>1. \A a \in Actor : pc[a] # "idle" => job[a] # created + 1
      BY DEF JobCreated
    <3> QED BY <2>16, <2>a, <3>1
            DEF Synthesize, SetStatus, actors, FutureAbsent, JobCreated, CreatingAbsent,
                CreatingAlone, PickedExists, OwnedUnsettled, DiffingDone, HoldersDiffer,
                Creating, Owning, Holding
  <2>17. CASE UNCHANGED vars
    BY <2>17 DEF vars, table, actors, env, FutureAbsent, JobCreated, CreatingAbsent,
                 CreatingAlone, PickedExists, OwnedUnsettled, DiffingDone, HoldersDiffer
  <2> QED
    BY <2>1, <2>2, <2>3, <2>4, <2>5, <2>6, <2>7, <2>8, <2>9, <2>10, <2>11, <2>12,
       <2>13, <2>14, <2>15, <2>16, <2>17
       DEF Next, HandlerStep, WorkerStep, TailStep
<1> QED BY <1>1, <1>2, <1>3, PTL DEF Spec

\* Every variable of the queue stays in its type.
THEOREM TypeSafe == Spec => []TypeOK
BY TypeCorrect, PTL

\* Every actor stays in step with the status of its run.
THEOREM OwnerSafe == Spec => []OwnerInv
BY TypeCorrect, PTL

\* ClaimNextQueuedRun never hands one run to two actors, for any number of
\* workers and processes, crashes and sweeps included.
THEOREM ClaimIsExclusive == Spec => []ClaimExclusive
<1>1. OwnerInv => ClaimExclusive
  BY DEF OwnerInv, HoldersDiffer, Holding, ClaimExclusive, Owns
<1> QED BY <1>1, TypeCorrect, PTL

----------------------------------------------------------------------------
(* A run that is done, or whose owner has taken its diff, is frozen: nobody *)
(* inserts its pages, moves its baseline or relabels it.                    *)

Fixed(r) ==
  /\ rows'[r] = rows[r] /\ prev'[r] = prev[r]
  /\ target'[r] = target[r] /\ trigger'[r] = trigger[r]

LEMMA NextFixes ==
  ASSUME TypeOK, OwnerInv, [Next]_vars, NEW r \in RunId,
         status[r] = "done" \/ \E a \in Actor : pc[a] = "finish" /\ job[a] = r
  PROVE  Fixed(r)
<1> USE BoundAssumption DEF TypeOK, Fixed, NoRun, RunId
<1>1. status[r] # "absent"
  BY DEF OwnerInv, OwnedUnsettled, Owning
<1>2. r # created + 1
  BY <1>1 DEF OwnerInv, FutureAbsent
<1>3. \A a \in Actor : pc[a] \in Creating => job[a] # r
  BY <1>1 DEF OwnerInv, CreatingAbsent
<1>4. \A a \in Actor : pc[a] = "persist" => job[a] # r
  <2>1. CASE status[r] = "done"
    BY <2>1 DEF OwnerInv, OwnedUnsettled, Owning
  <2>2. CASE \E a \in Actor : pc[a] = "finish" /\ job[a] = r
    BY <2>2 DEF OwnerInv, HoldersDiffer, Holding, Owning
  <2> QED BY <2>1, <2>2
<1>5. ASSUME NEW h \in Handler, Request(h) PROVE Fixed(r)
  BY <1>2, <1>5 DEF Request, Stamp
<1>6. ASSUME NEW h \in Handler, HandlerStep(h) PROVE Fixed(r)
  <2>1. CASE ReadBaseline(h)
    <3>1. job[h] # r
      BY <2>1, <1>3 DEF ReadBaseline, Creating, Actor
    <3> QED BY <2>1, <3>1 DEF ReadBaseline
  <2>2. CASE InsertQueued(h)
    BY <2>2 DEF InsertQueued
  <2>3. CASE InsertPushed(h)
    BY <2>3 DEF InsertPushed
  <2> QED BY <1>6, <2>1, <2>2, <2>3 DEF HandlerStep
<1>7. ASSUME NEW w \in Worker, WorkerStep(w) PROVE Fixed(r)
  BY <1>7 DEF WorkerStep, Pick, Claim, Load, CrawlOk, CrawlFail, table
<1>8. ASSUME NEW a \in Actor, TailStep(a) PROVE Fixed(r)
  <2>1. ASSUME NEW page \in Page, PersistPage(a, page) PROVE Fixed(r)
    <3>1. job[a] # r
      BY <2>1, <1>4 DEF PersistPage
    <3> QED BY <2>1, <3>1 DEF PersistPage
  <2> QED BY <1>8, <2>1 DEF TailStep, ComputeDiff, FinishRun, SetRunDiff, table
<1>9. ASSUME NEW p \in Proc, Boot(p) \/ Crash(p) PROVE Fixed(r)
  BY <1>9 DEF Boot, Crash, table
<1>10. ASSUME NEW p \in Proc, NEW t \in Target, Synthesize(p, t) PROVE Fixed(r)
  BY <1>2, <1>10 DEF Synthesize
<1>11. CASE UNCHANGED vars
  BY <1>11 DEF vars, table
<1> QED BY <1>5, <1>6, <1>7, <1>8, <1>9, <1>10, <1>11 DEF Next

LEMMA NextKeepsDone ==
  ASSUME TypeOK, OwnerInv, [Next]_vars, NEW r \in RunId, status[r] = "done"
  PROVE  status'[r] = "done"
<1> USE BoundAssumption DEF TypeOK, NoRun, RunId, SetStatus
<1>1. r # created + 1
  BY DEF OwnerInv, FutureAbsent
<1>2. \A a \in Actor : pc[a] \in Creating \cup Owning => job[a] # r
  BY DEF OwnerInv, CreatingAbsent, OwnedUnsettled
<1>3. ASSUME NEW h \in Handler, Request(h) PROVE status'[r] = "done"
  BY <1>3 DEF Request, Stamp
<1>4. ASSUME NEW h \in Handler, HandlerStep(h) PROVE status'[r] = "done"
  <2>1. pc[h] = "insert" => job[h] # r
    BY <1>2 DEF Creating, Actor
  <2> QED BY <1>4, <2>1 DEF HandlerStep, ReadBaseline, InsertQueued, InsertPushed
<1>5. ASSUME NEW w \in Worker, WorkerStep(w) PROVE status'[r] = "done"
  <2>1. pc[w] = "crawl" => job[w] # r
    BY <1>2 DEF Owning, Actor
  <2> QED BY <1>5, <2>1 DEF WorkerStep, Pick, Claim, Load, CrawlOk, CrawlFail, table
<1>6. ASSUME NEW a \in Actor, TailStep(a) PROVE status'[r] = "done"
  <2>1. pc[a] = "finish" => job[a] # r
    BY <1>2 DEF Owning
  <2> QED BY <1>6, <2>1 DEF TailStep, PersistPage, ComputeDiff, FinishRun, SetRunDiff, table
<1>7. ASSUME NEW p \in Proc, Boot(p) \/ Crash(p) PROVE status'[r] = "done"
  BY <1>7 DEF Boot, Crash, Swept, table
<1>8. ASSUME NEW p \in Proc, NEW t \in Target, Synthesize(p, t) PROVE status'[r] = "done"
  BY <1>1, <1>8 DEF Synthesize
<1>9. CASE UNCHANGED vars
  BY <1>9 DEF vars, table
<1> QED BY <1>3, <1>4, <1>5, <1>6, <1>7, <1>8, <1>9 DEF Next

\* A completed run is a baseline for ever: its status, page rows and own
\* baseline never change again, in any deployment.
THEOREM CompletedRunsAreFrozen == Spec => DoneIsFrozen
<1>1. TypeOK /\ OwnerInv /\ [Next]_vars =>
        [\A r \in RunId : status[r] = "done" =>
           status'[r] = "done" /\ rows'[r] = rows[r] /\ prev'[r] = prev[r]]_vars
  <2> SUFFICES ASSUME TypeOK, OwnerInv, [Next]_vars, NEW r \in RunId, status[r] = "done"
               PROVE  status'[r] = "done" /\ rows'[r] = rows[r] /\ prev'[r] = prev[r]
    OBVIOUS
  <2> QED BY NextFixes, NextKeepsDone DEF Fixed
<1> QED BY <1>1, TypeCorrect, PTL DEF Spec, DoneIsFrozen

----------------------------------------------------------------------------
(* Baselines and diffs.                                                     *)

\* Compare in the next state.
CompareNext(r, b) ==
  [prev |-> b, added |-> rows'[r] \ rows'[b], removed |-> rows'[b] \ rows'[r]]

LEMMA CompareFixed ==
  ASSUME NEW r, NEW b, rows'[r] = rows[r], rows'[b] = rows[b]
  PROVE  CompareNext(r, b) = Compare(r, b)
BY DEF Compare, CompareNext

\* How one step may change the baselines and the stored and pending diffs.
LEMMA NextBaseline ==
  ASSUME TypeOK, OwnerInv, FutureBare, [Next]_vars, NEW r \in RunId, prev'[r] # NoRun
  PROVE  /\ target'[r] = target[r] /\ trigger'[r] = trigger[r]
         /\ prev'[r] = prev[r] \/ prev'[r] \in DoneAudits(target[r])
<1> USE BoundAssumption DEF TypeOK, NoRun, RunId, Actor
<1> DEFINE Goal == /\ target'[r] = target[r] /\ trigger'[r] = trigger[r]
                   /\ prev'[r] = prev[r] \/ prev'[r] \in DoneAudits(target[r])
<1>1. ASSUME NEW h \in Handler, Request(h) PROVE Goal
  <2>1. prev' = prev /\ r # created + 1
    BY <1>1 DEF Request, Stamp, FutureBare
  <2> QED BY <1>1, <2>1 DEF Request, Stamp
<1>2. ASSUME NEW h \in Handler, ReadBaseline(h) PROVE Goal
  <2>1. target' = target /\ trigger' = trigger
    BY <1>2 DEF ReadBaseline
  <2>2. CASE r = job[h] /\ prev' # prev
    <3>1. PICK b \in LatestDone(target[r]) : prev' = [prev EXCEPT ![r] = b]
      BY <1>2, <2>2 DEF ReadBaseline
    <3>2. prev'[r] = b
      BY <3>1
    <3> QED BY <2>1, <3>1, <3>2 DEF LatestDone
  <2>3. CASE r # job[h] \/ prev' = prev
    <3>1. prev'[r] = prev[r]
      BY <1>2, <2>3 DEF ReadBaseline
    <3> QED BY <2>1, <3>1
  <2> QED BY <2>2, <2>3
<1>3. ASSUME NEW h \in Handler, InsertQueued(h) \/ InsertPushed(h) PROVE Goal
  BY <1>3 DEF InsertQueued, InsertPushed
<1>4. ASSUME NEW w \in Worker, WorkerStep(w) PROVE Goal
  BY <1>4 DEF WorkerStep, Pick, Claim, Load, CrawlOk, CrawlFail, table
<1>5. ASSUME NEW a \in Actor, TailStep(a) PROVE Goal
  BY <1>5 DEF TailStep, PersistPage, ComputeDiff, FinishRun, SetRunDiff, table
<1>6. ASSUME NEW p \in Proc, Boot(p) \/ Crash(p) PROVE Goal
  BY <1>6 DEF Boot, Crash, table
<1>7. ASSUME NEW p \in Proc, NEW t \in Target, Synthesize(p, t) PROVE Goal
  <2>1. prev' = prev /\ r # created + 1
    BY <1>7 DEF Synthesize, FutureBare
  <2> QED BY <1>7, <2>1 DEF Synthesize
<1>8. CASE UNCHANGED vars
  BY <1>8 DEF vars, table
<1> QED BY <1>1, <1>2, <1>3, <1>4, <1>5, <1>6, <1>7, <1>8 DEF Next, HandlerStep

LEMMA NextDelta ==
  ASSUME TypeOK, OwnerInv, DeltaCurrent, [Next]_vars,
         NEW a \in Actor, delta'[a] # NoDelta
  PROVE  /\ pc'[a] \in {"finish", "setdiff"} /\ job'[a] = job[a]
         /\ \/ delta'[a] = delta[a] /\ pc[a] \in {"finish", "setdiff"}
            \/ /\ pc[a] = "persist" /\ prev' = prev /\ rows' = rows /\ prev[job[a]] # NoRun
               /\ delta'[a] = Compare(job[a], prev[job[a]])
<1> USE DEF TypeOK, Goto, Rest
<1> DEFINE Goal ==
      /\ pc'[a] \in {"finish", "setdiff"} /\ job'[a] = job[a]
      /\ \/ delta'[a] = delta[a] /\ pc[a] \in {"finish", "setdiff"}
         \/ /\ pc[a] = "persist" /\ prev' = prev /\ rows' = rows /\ prev[job[a]] # NoRun
            /\ delta'[a] = Compare(job[a], prev[job[a]])
<1>0. delta[a] # NoDelta => pc[a] \in {"finish", "setdiff"}
  BY DEF DeltaCurrent
<1>1. ASSUME NEW h \in Handler, Request(h) \/ HandlerStep(h) PROVE Goal
  <2>1. pc[h] \in {"idle", "stamped", "insert"}
    BY <1>1 DEF Request, HandlerStep, Stamp, ReadBaseline, InsertQueued, InsertPushed
  <2>2. a # h => pc'[a] = pc[a] /\ job'[a] = job[a] /\ delta'[a] = delta[a]
    BY <1>1 DEF Request, HandlerStep, Stamp, ReadBaseline, InsertQueued, InsertPushed
  <2>3. a = h => delta'[a] = NoDelta
    BY <1>0, <1>1, <2>1
       DEF Request, HandlerStep, Stamp, ReadBaseline, InsertQueued, InsertPushed
  <2> QED BY <1>0, <2>2, <2>3
<1>2. ASSUME NEW w \in Worker, WorkerStep(w) PROVE Goal
  <2>1. pc[w] \in {"idle", "picked", "claimed", "crawl"}
    BY <1>2 DEF WorkerStep, Pick, Claim, Load, CrawlOk, CrawlFail
  <2>2. a # w => pc'[a] = pc[a] /\ job'[a] = job[a] /\ delta'[a] = delta[a]
    BY <1>2 DEF WorkerStep, Pick, Claim, Load, CrawlOk, CrawlFail
  <2>3. a = w => delta'[a] = NoDelta
    BY <1>0, <1>2, <2>1 DEF WorkerStep, Pick, Claim, Load, CrawlOk, CrawlFail
  <2> QED BY <1>0, <2>2, <2>3
<1>3. ASSUME NEW b \in Actor, NEW page \in Page, PersistPage(b, page) PROVE Goal
  BY <1>0, <1>3 DEF PersistPage
<1>4. ASSUME NEW b \in Actor, ComputeDiff(b) PROVE Goal
  <2>1. CASE a = b
    BY <1>0, <1>4, <2>1 DEF ComputeDiff, table
  <2>2. CASE a # b
    BY <1>0, <1>4, <2>2 DEF ComputeDiff, table
  <2> QED BY <2>1, <2>2
<1>5. ASSUME NEW b \in Actor, FinishRun(b) \/ SetRunDiff(b) PROVE Goal
  <2>1. CASE a = b
    BY <1>0, <1>5, <2>1 DEF FinishRun, SetRunDiff
  <2>2. CASE a # b
    BY <1>0, <1>5, <2>2 DEF FinishRun, SetRunDiff
  <2> QED BY <2>1, <2>2
<1>6. ASSUME NEW p \in Proc, Boot(p) PROVE Goal
  BY <1>0, <1>6 DEF Boot, actors
<1>7. ASSUME NEW p \in Proc, Crash(p) PROVE Goal
  BY <1>0, <1>7 DEF Crash
<1>8. ASSUME NEW p \in Proc, NEW t \in Target, Synthesize(p, t) PROVE Goal
  BY <1>0, <1>8 DEF Synthesize, actors
<1>9. CASE UNCHANGED vars
  BY <1>0, <1>9 DEF vars, actors
<1> QED BY <1>1, <1>2, <1>3, <1>4, <1>5, <1>6, <1>7, <1>8, <1>9 DEF Next, TailStep

LEMMA NextDiff ==
  ASSUME TypeOK, [Next]_vars, NEW r \in RunId
  PROVE  \/ diff'[r] = diff[r]
         \/ \E a \in Actor : pc[a] = "setdiff" /\ job[a] = r /\ diff'[r] = delta[a]
<1> USE DEF TypeOK
<1>1. ASSUME NEW a \in Actor, SetRunDiff(a)
      PROVE  \/ diff'[r] = diff[r]
             \/ pc[a] = "setdiff" /\ job[a] = r /\ diff'[r] = delta[a]
  BY <1>1 DEF SetRunDiff
<1>2. CASE ~ \E a \in Actor : SetRunDiff(a)
  BY <1>2 DEF Next, Request, HandlerStep, WorkerStep, TailStep, Stamp, ReadBaseline,
      InsertQueued, InsertPushed, Pick, Claim, Load, CrawlOk, CrawlFail, PersistPage,
      ComputeDiff, FinishRun, Boot, Crash, Synthesize, table, vars
<1> QED BY <1>1, <1>2

LEMMA NextKeepsDataInv ==
  ASSUME TypeOK, OwnerInv, TypeOK', OwnerInv', DataInv, [Next]_vars
  PROVE  DataInv'
<1> USE BoundAssumption DEF TypeOK, NoRun, RunId
<1>1. FutureBare'
  <2> SUFFICES ASSUME NEW r \in RunId, created' < r PROVE prev'[r] = NoRun
    BY DEF FutureBare
  <2>1. created <= created'
    BY DEF Next, Request, HandlerStep, WorkerStep, TailStep, Stamp, ReadBaseline,
        InsertQueued, InsertPushed, Pick, Claim, Load, CrawlOk, CrawlFail, PersistPage,
        ComputeDiff, FinishRun, SetRunDiff, Boot, Crash, Synthesize, env, vars
  <2>2. prev[r] = NoRun
    BY <2>1 DEF DataInv, FutureBare
  <2>3. \A a \in Actor : pc[a] = "stamped" => job[a] # r
    <3>1. created \in Int /\ created' \in Int /\ created < r
      BY <2>1
    <3>2. \A a \in Actor : pc[a] = "stamped" => job[a] \in 1 .. created
      BY DEF OwnerInv, JobCreated
    <3> QED BY <3>1, <3>2
  <2>4. ASSUME NEW h \in Handler, ReadBaseline(h) PROVE prev'[r] = NoRun
    BY <2>2, <2>3, <2>4 DEF ReadBaseline, Actor
  <2>5. CASE ~ \E h \in Handler : ReadBaseline(h)
    BY <2>2, <2>5 DEF Next, Request, HandlerStep, WorkerStep, TailStep, Stamp,
        InsertQueued, InsertPushed, Pick, Claim, Load, CrawlOk, CrawlFail, PersistPage,
        ComputeDiff, FinishRun, SetRunDiff, Boot, Crash, Synthesize, table, vars
  <2> QED BY <2>4, <2>5
<1>2. BaselineIsDoneAudit'
  <2> SUFFICES ASSUME NEW r \in RunId, prev'[r] # NoRun
               PROVE  /\ status'[prev'[r]] = "done"
                      /\ target'[prev'[r]] = target'[r]
                      /\ trigger'[prev'[r]] # "walkthrough"
    BY DEF BaselineIsDoneAudit
  <2>1. /\ prev'[r] \in RunId /\ status[prev'[r]] = "done" /\ target[prev'[r]] = target[r]
        /\ trigger[prev'[r]] # "walkthrough" /\ target'[r] = target[r]
    BY NextBaseline DEF DataInv, BaselineIsDoneAudit, DoneAudits
  <2>2. Fixed(prev'[r]) /\ status'[prev'[r]] = "done"
    BY <2>1, NextFixes, NextKeepsDone
  <2> QED BY <2>1, <2>2 DEF Fixed
<1>3. DeltaCurrent'
  <2> SUFFICES ASSUME NEW a \in Actor, delta'[a] # NoDelta
               PROVE  /\ pc'[a] \in {"finish", "setdiff"}
                      /\ prev'[job'[a]] # NoRun
                      /\ delta'[a] = CompareNext(job'[a], prev'[job'[a]])
    BY DEF DeltaCurrent, Compare, CompareNext
  <2>1. /\ pc'[a] \in {"finish", "setdiff"} /\ job'[a] = job[a]
        /\ \/ delta'[a] = delta[a] /\ pc[a] \in {"finish", "setdiff"}
           \/ /\ pc[a] = "persist" /\ prev' = prev /\ rows' = rows /\ prev[job[a]] # NoRun
              /\ delta'[a] = Compare(job[a], prev[job[a]])
    BY NextDelta DEF DataInv
  <2>2. job[a] \in RunId
    BY <2>1 DEF OwnerInv, JobCreated
  <2>3. CASE pc[a] = "persist" /\ prev' = prev /\ rows' = rows /\ prev[job[a]] # NoRun
             /\ delta'[a] = Compare(job[a], prev[job[a]])
    <3>1. CompareNext(job[a], prev[job[a]]) = Compare(job[a], prev[job[a]])
      BY <2>3, CompareFixed
    <3> QED BY <2>1, <2>3, <3>1
  <2>4. CASE delta'[a] = delta[a] /\ pc[a] \in {"finish", "setdiff"}
    <3>1. /\ prev[job[a]] \in RunId /\ prev[job[a]] # NoRun
          /\ delta[a] = Compare(job[a], prev[job[a]])
          /\ status[prev[job[a]]] = "done"
      BY <2>2, <2>4 DEF DataInv, DeltaCurrent, BaselineIsDoneAudit
    <3>2. Fixed(job[a]) /\ Fixed(prev[job[a]])
      <4>1. status[job[a]] = "done" \/ pc[a] = "finish"
        BY <2>4 DEF OwnerInv, DiffingDone
      <4> QED BY <2>2, <3>1, <4>1, NextFixes
    <3>3. CompareNext(job[a], prev[job[a]]) = Compare(job[a], prev[job[a]])
      BY <3>2, CompareFixed DEF Fixed
    <3>4. prev'[job[a]] = prev[job[a]]
      BY <3>2 DEF Fixed
    <3> QED BY <2>1, <2>4, <3>1, <3>3, <3>4
  <2> QED BY <2>1, <2>3, <2>4
<1>4. ASSUME NEW r \in RunId, diff'[r] # NoDelta
      PROVE  status'[r] = "done" /\ prev'[r] # NoRun /\ diff'[r] = CompareNext(r, prev'[r])
  <2>1. status[r] = "done" /\ prev[r] # NoRun /\ diff'[r] = Compare(r, prev[r])
    <3>1. CASE diff'[r] = diff[r]
      <4>1. diff[r] # NoDelta
        BY <1>4, <3>1
      <4> QED BY <3>1, <4>1 DEF DataInv, DiffOnlyDone, DiffMatchesRows
    <3>2. CASE \E a \in Actor : pc[a] = "setdiff" /\ job[a] = r /\ diff'[r] = delta[a]
      <4>1. PICK a \in Actor : pc[a] = "setdiff" /\ job[a] = r /\ diff'[r] = delta[a]
        BY <3>2
      <4>2. delta[a] # NoDelta
        BY <1>4, <4>1
      <4>3. prev[r] # NoRun /\ delta[a] = Compare(r, prev[r])
        BY <4>1, <4>2 DEF DataInv, DeltaCurrent
      <4> QED BY <4>1, <4>3 DEF OwnerInv, DiffingDone
    <3> QED BY <3>1, <3>2, NextDiff
  <2>2. prev[r] \in RunId /\ status[prev[r]] = "done"
    BY <2>1 DEF DataInv, BaselineIsDoneAudit
  <2>3. Fixed(r) /\ Fixed(prev[r]) /\ status'[r] = "done"
    BY <2>1, <2>2, NextFixes, NextKeepsDone
  <2>4. CompareNext(r, prev[r]) = Compare(r, prev[r])
    BY <2>3, CompareFixed DEF Fixed
  <2> QED BY <2>1, <2>3, <2>4 DEF Fixed
<1>5. DiffOnlyDone' /\ DiffMatchesRows'
  BY <1>4 DEF DiffOnlyDone, DiffMatchesRows, Compare, CompareNext
<1> QED BY <1>1, <1>2, <1>3, <1>5 DEF DataInv

\* In every deployment a run's baseline is a completed audit of its own target,
\* and a stored diff is what the two runs' page rows say, then and later.
THEOREM BaselinesAndDiffs == Spec => [](BaselineIsDoneAudit /\ DiffMatchesRows)
<1>1. Init => DataInv
  BY DEF Init, DataInv, FutureBare, BaselineIsDoneAudit, DeltaCurrent, DiffOnlyDone,
         DiffMatchesRows, NoRun
<1>2. TypeOK /\ OwnerInv /\ TypeOK' /\ OwnerInv' /\ DataInv /\ [Next]_vars => DataInv'
  BY NextKeepsDataInv
<1>3. DataInv => BaselineIsDoneAudit /\ DiffMatchesRows
  BY DEF DataInv
<1> QED BY <1>1, <1>2, <1>3, TypeCorrect, PTL DEF Spec

\* The baseline of a run is a completed audit of its target, in every deployment.
THEOREM BaselinesAreDoneAudits == Spec => []BaselineIsDoneAudit
BY BaselinesAndDiffs, PTL

----------------------------------------------------------------------------
(* One process.  Its actors die with it, so that the sweep of its next boot *)
(* finds no owner alive; what an owner works on is then still running.      *)

OneProcess == \A p, q \in Proc : p = q

LEMMA AloneInit == Init => AloneInv
BY DEF Init, AloneInv, BusyIsUp, OwnedRunning, Owning

\* The boot of the only process finds every actor idle.
LEMMA BootFindsNobody ==
  ASSUME OneProcess, BusyIsUp, NEW p \in Proc, Boot(p), NEW a \in Actor
  PROVE  pc[a] = "idle" /\ pc'[a] = "idle"
<1>1. Host[a] \in Proc
  BY HostAssumption
<1>2. Host[a] \notin up
  BY <1>1 DEF OneProcess, Boot
<1> QED BY <1>2 DEF BusyIsUp, Live, Boot, actors

LEMMA BusyNext ==
  ASSUME TypeOK, BusyIsUp, [Next]_vars
  PROVE  BusyIsUp'
<1> USE DEF TypeOK, BusyIsUp, Live
<1>1. ASSUME NEW a \in Actor, Live(a), up' = up,
             \A b \in Actor : b # a => pc'[b] = pc[b]
      PROVE  BusyIsUp'
  BY <1>1
<1>2. ASSUME NEW h \in Handler, Request(h) PROVE BusyIsUp'
  BY <1>2, <1>1 DEF Request, Stamp, Goto, Actor
<1>3. ASSUME NEW h \in Handler, HandlerStep(h) PROVE BusyIsUp'
  BY <1>3, <1>1 DEF HandlerStep, ReadBaseline, InsertQueued, InsertPushed, Goto, Rest, Actor
<1>4. ASSUME NEW w \in Worker, WorkerStep(w) PROVE BusyIsUp'
  BY <1>4, <1>1 DEF WorkerStep, Pick, Claim, Load, CrawlOk, CrawlFail, Goto, Rest, env, Actor
<1>5. ASSUME NEW a \in Actor, TailStep(a) PROVE BusyIsUp'
  BY <1>5, <1>1 DEF TailStep, PersistPage, ComputeDiff, FinishRun, SetRunDiff, Goto, Rest
<1>6. ASSUME NEW p \in Proc, Boot(p) PROVE BusyIsUp'
  BY <1>6 DEF Boot, actors
<1>7. ASSUME NEW p \in Proc, Crash(p) PROVE BusyIsUp'
  BY <1>7 DEF Crash
<1>8. ASSUME NEW p \in Proc, NEW t \in Target, Synthesize(p, t) PROVE BusyIsUp'
  BY <1>8 DEF Synthesize, actors
<1>9. CASE UNCHANGED vars
  BY <1>9 DEF vars, actors, env
<1> QED BY <1>2, <1>3, <1>4, <1>5, <1>6, <1>7, <1>8, <1>9 DEF Next

\* Only an owner moves its run; the others hold other runs, or none yet.
LEMMA OwnedNext ==
  ASSUME OneProcess, TypeOK, OwnerInv, AloneInv, [Next]_vars
  PROVE  OwnedRunning'
<1> USE BoundAssumption DEF TypeOK, RunId, NoRun
<1> SUFFICES ASSUME NEW b \in Actor, pc'[b] \in Owning
             PROVE  status'[job'[b]] = "running"
  BY DEF OwnedRunning
<1>1. \A a \in Actor : pc[a] # "idle" => job[a] \in 1 .. created /\ job[a] \in RunId
  BY DEF OwnerInv, JobCreated
<1>2. pc[b] \in Owning => status[job[b]] = "running" /\ job[b] \in RunId
  BY <1>1 DEF AloneInv, OwnedRunning, Owning
<1>3. \A a \in Actor : a # b /\ pc[a] \in Creating \cup Holding /\ pc[b] \in Owning => job[a] # job[b]
  BY DEF OwnerInv, HoldersDiffer, CreatingAlone, Owning, Holding, Creating
<1>4. ASSUME NEW h \in Handler, Request(h) PROVE status'[job'[b]] = "running"
  BY <1>1, <1>2, <1>4 DEF Request, Stamp, Goto, Owning, Actor
<1>5. ASSUME NEW h \in Handler, HandlerStep(h) PROVE status'[job'[b]] = "running"
  <2>1. pc[h] \in Creating => job[h] \in RunId
    BY <1>1 DEF Creating, Actor
  <2>2. CASE b = h
    BY <1>5, <2>1, <2>2
       DEF HandlerStep, ReadBaseline, InsertQueued, InsertPushed, Goto, Rest, SetStatus, Owning, Creating
  <2>3. CASE b # h
    <3>1. pc'[b] = pc[b] /\ job'[b] = job[b]
      BY <1>5, <2>3 DEF HandlerStep, ReadBaseline, InsertQueued, InsertPushed, Goto, Rest, Actor
    <3>2. pc[h] \in Creating /\ h \in Actor
      BY <1>5 DEF HandlerStep, ReadBaseline, InsertQueued, InsertPushed, Creating, Actor
    <3>3. job[h] # job[b]
      BY <1>3, <2>3, <3>1, <3>2
    <3> QED BY <1>2, <1>5, <3>1, <3>3
            DEF HandlerStep, ReadBaseline, InsertQueued, InsertPushed, SetStatus
  <2> QED BY <2>2, <2>3
<1>6. ASSUME NEW w \in Worker, WorkerStep(w) PROVE status'[job'[b]] = "running"
  <2>1. CASE b = w
    BY <1>1, <1>2, <1>6, <2>1
       DEF WorkerStep, Pick, Claim, Load, CrawlOk, CrawlFail, Goto, Rest, SetStatus, Owning, table
  <2>2. CASE b # w
    <3>1. pc'[b] = pc[b] /\ job'[b] = job[b]
      BY <1>6, <2>2 DEF WorkerStep, Pick, Claim, Load, CrawlOk, CrawlFail, Goto, Rest, Actor
    <3>2. ASSUME Claim(w), status[job[w]] = "queued" PROVE job[w] # job[b]
      BY <1>2, <3>1, <3>2
    <3>3. ASSUME CrawlFail(w) PROVE job[w] # job[b]
      BY <1>3, <2>2, <3>1, <3>3 DEF CrawlFail, Holding, Owning, Actor
    <3> QED BY <1>2, <1>6, <3>1, <3>2, <3>3
            DEF WorkerStep, Pick, Claim, Load, CrawlOk, CrawlFail, SetStatus, table
  <2> QED BY <2>1, <2>2
<1>7. ASSUME NEW a \in Actor, TailStep(a) PROVE status'[job'[b]] = "running"
  <2>1. CASE b = a
    BY <1>2, <1>7, <2>1
       DEF TailStep, PersistPage, ComputeDiff, FinishRun, SetRunDiff, Goto, Rest, Owning, table
  <2>2. CASE b # a
    <3>1. pc'[b] = pc[b] /\ job'[b] = job[b]
      BY <1>7, <2>2 DEF TailStep, PersistPage, ComputeDiff, FinishRun, SetRunDiff, Goto, Rest
    <3>2. pc[a] = "finish" => job[a] # job[b]
      BY <1>3, <2>2, <3>1 DEF Holding, Owning
    <3> QED BY <1>2, <1>7, <3>1, <3>2
            DEF TailStep, PersistPage, ComputeDiff, FinishRun, SetRunDiff, SetStatus, table
  <2> QED BY <2>1, <2>2
<1>8. ASSUME NEW p \in Proc, Boot(p) PROVE status'[job'[b]] = "running"
  BY <1>8, BootFindsNobody DEF AloneInv, Owning
<1>9. ASSUME NEW p \in Proc, Crash(p) PROVE status'[job'[b]] = "running"
  BY <1>2, <1>9 DEF Crash, table, Owning
<1>10. ASSUME NEW p \in Proc, NEW t \in Target, Synthesize(p, t) PROVE status'[job'[b]] = "running"
  <2>1. pc'[b] = pc[b] /\ job'[b] = job[b]
    BY <1>10 DEF Synthesize, actors
  <2>2. job[b] # created + 1
    BY <1>1, <2>1 DEF Owning
  <2> QED BY <1>2, <1>10, <2>1, <2>2 DEF Synthesize, SetStatus
<1>11. CASE UNCHANGED vars
  BY <1>2, <1>11 DEF vars, table, actors
<1> QED BY <1>4, <1>5, <1>6, <1>7, <1>8, <1>9, <1>10, <1>11 DEF Next

LEMMA Alone == ASSUME OneProcess PROVE Spec => [](TypeOK /\ OwnerInv /\ AloneInv)
<1>1. TypeOK /\ OwnerInv /\ AloneInv /\ [Next]_vars => AloneInv'
  BY BusyNext, OwnedNext DEF AloneInv
<1> QED BY <1>1, AloneInit, TypeCorrect, PTL DEF Spec

\* With one process, a running run fails only by its owner's hand or without an
\* owner: the sweep of RecoverStaleRuns never takes a run from a live worker.
THEOREM SweepSparesOwners == ASSUME OneProcess PROVE Spec => SweepHitsOrphansOnly
<1>1. TypeOK /\ OwnerInv /\ AloneInv /\ [Next]_vars =>
        [\A r \in RunId : status[r] = "running" /\ status'[r] = "failed" =>
           \A a \in Actor : Owns(a, r) => pc'[a] = "idle"]_vars
  <2> SUFFICES ASSUME TypeOK, OwnerInv, AloneInv, [Next]_vars,
                      NEW r \in RunId, status[r] = "running", status'[r] = "failed",
                      NEW a \in Actor, Owns(a, r)
               PROVE  pc'[a] = "idle"
    OBVIOUS
  <2> USE DEF TypeOK, RunId
  <2>1. ASSUME NEW w \in Worker, CrawlFail(w) PROVE pc'[a] = "idle"
    <3>1. job[w] = r
      BY <2>1 DEF CrawlFail, SetStatus
    <3>2. a = w
      BY <2>1, <3>1 DEF CrawlFail, Owns, OwnerInv, HoldersDiffer, Holding, Owning, Actor
    <3> QED BY <2>1, <3>2 DEF CrawlFail, Rest
  <2>2. ASSUME NEW p \in Proc, Boot(p) PROVE pc'[a] = "idle"
    BY <2>2, BootFindsNobody DEF AloneInv
  <2>3. ASSUME NEW w \in Worker, WorkerStep(w), ~CrawlFail(w) PROVE FALSE
    BY <2>3 DEF WorkerStep, Pick, Claim, Load, CrawlOk, SetStatus, table
  <2>4. ASSUME NEW h \in Handler, Request(h) \/ HandlerStep(h) PROVE FALSE
    BY <2>4 DEF Request, Stamp, HandlerStep, ReadBaseline, InsertQueued, InsertPushed, SetStatus
  <2>5. ASSUME NEW b \in Actor, TailStep(b) PROVE FALSE
    BY <2>5 DEF TailStep, PersistPage, ComputeDiff, FinishRun, SetRunDiff, SetStatus, table
  <2>6. ASSUME NEW p \in Proc, Crash(p) \/ \E t \in Target : Synthesize(p, t) PROVE FALSE
    BY <2>6 DEF Crash, Synthesize, SetStatus, table
  <2>7. CASE UNCHANGED vars
    BY <2>7 DEF vars, table
  <2> QED BY <2>1, <2>2, <2>3, <2>4, <2>5, <2>6, <2>7 DEF Next
<1> QED BY <1>1, Alone, PTL DEF Spec, SweepHitsOrphansOnly

\* With one process the runs table implements RunLifecycle: every statement of
\* every actor enters, claims or settles one run, or sweeps all that run, or
\* leaves the status column alone.
THEOREM RunsFollowLifecycle == ASSUME OneProcess PROVE Spec => ImplementsLifecycle
<1>1. Init => Lifecycle!Init
  BY DEF Init, Lifecycle!Init
<1>2. TypeOK /\ OwnerInv /\ AloneInv /\ [Next]_vars => [Lifecycle!Next]_status
  <2> SUFFICES ASSUME TypeOK, OwnerInv, AloneInv, [Next]_vars, status' # status
               PROVE  Lifecycle!Next
    OBVIOUS
  <2> USE BoundAssumption DEF TypeOK, RunId, SetStatus
  <2>1. \A a \in Actor : pc[a] # "idle" => job[a] \in RunId
    BY DEF OwnerInv, JobCreated
  <2>2. ASSUME NEW r \in RunId, NEW entry \in {"queued", "running", "done"},
               status[r] = "absent", SetStatus(r, entry)
        PROVE  Lifecycle!Next
    BY <2>2 DEF Lifecycle!Next, Lifecycle!Submit, Lifecycle!Move
  <2>3. ASSUME NEW r \in RunId, NEW end \in {"done", "failed"},
               status[r] = "running", SetStatus(r, end)
        PROVE  Lifecycle!Next
    BY <2>3 DEF Lifecycle!Next, Lifecycle!Settle, Lifecycle!Terminal, Lifecycle!Move
  <2>4. ASSUME NEW h \in Handler, Request(h) \/ HandlerStep(h) PROVE Lifecycle!Next
    <3>1. InsertQueued(h) \/ InsertPushed(h)
      BY <2>4 DEF Request, Stamp, HandlerStep, ReadBaseline
    <3>2. job[h] \in RunId /\ status[job[h]] = "absent"
      BY <2>1, <3>1 DEF InsertQueued, InsertPushed, OwnerInv, CreatingAbsent, Creating, Actor
    <3> QED BY <2>2, <3>1, <3>2 DEF InsertQueued, InsertPushed
  <2>5. ASSUME NEW w \in Worker, WorkerStep(w) PROVE Lifecycle!Next
    <3>1. CASE Claim(w)
      <4>1. job[w] \in RunId
        BY <2>1, <3>1 DEF Claim, Actor
      <4> QED BY <3>1, <4>1 DEF Claim, Lifecycle!Next, Lifecycle!Claim, Lifecycle!Move
    <3>2. CASE CrawlFail(w)
      <4>1. job[w] \in RunId /\ status[job[w]] = "running"
        BY <2>1, <3>2 DEF CrawlFail, AloneInv, OwnedRunning, Owning, Actor
      <4> QED BY <2>3, <3>2, <4>1 DEF CrawlFail
    <3> QED BY <2>5, <3>1, <3>2 DEF WorkerStep, Pick, Load, CrawlOk, table
  <2>6. ASSUME NEW a \in Actor, TailStep(a) PROVE Lifecycle!Next
    <3>1. CASE FinishRun(a)
      <4>1. job[a] \in RunId /\ status[job[a]] = "running"
        BY <2>1, <3>1 DEF FinishRun, AloneInv, OwnedRunning, Owning
      <4> QED BY <2>3, <3>1, <4>1 DEF FinishRun
    <3> QED BY <2>6, <3>1 DEF TailStep, PersistPage, ComputeDiff, SetRunDiff, table
  <2>7. ASSUME NEW p \in Proc, Boot(p) PROVE Lifecycle!Next
    BY <2>7 DEF Boot, Swept, Lifecycle!Next, Lifecycle!Interrupt
  <2>8. ASSUME NEW p \in Proc, NEW t \in Target, Synthesize(p, t) PROVE Lifecycle!Next
    <3>1. created + 1 \in RunId /\ status[created + 1] = "absent"
      BY <2>8 DEF Synthesize, OwnerInv, FutureAbsent
    <3> QED BY <2>2, <2>8, <3>1 DEF Synthesize
  <2>9. \A p \in Proc : ~Crash(p)
    BY DEF Crash, table
  <2>10. ~UNCHANGED vars
    BY DEF vars, table
  <2> QED BY <2>4, <2>5, <2>6, <2>7, <2>8, <2>9, <2>10 DEF Next
<1> QED BY <1>1, <1>2, Alone, PTL DEF Spec, ImplementsLifecycle, Lifecycle!Spec
=============================================================================
