--------------------------- MODULE LlmPassProofs ---------------------------
(* Proofs about LlmPass for any pages, labels, concurrency and number of    *)
(* passes, restarts and database errors.                                    *)
EXTENDS LlmPass, FiniteSetTheorems, TLAPS

LEMMA ProductNat == \A m, n \in Nat : m * n \in Nat
OBVIOUS

LEMMA UnitsNat ==
  ASSUME TypeOK, NEW labels \in SUBSET Label
  PROVE  CountUnits(labels) \in Nat
<1> USE LlmPassAssumption DEF TypeOK
<1>1. IsFiniteSet(Page)
  BY FS_Interval DEF Page
<1>2. Cardinality(pages) \in Nat /\ Cardinality(labels) \in Nat
  BY <1>1, FS_Subset, FS_CardinalityType
<1>3. Cardinality(pages) * Cardinality(labels) \in Nat
  BY <1>2, ProductNat
<1> QED BY <1>3 DEF CountUnits

LEMMA TickedNat ==
  ASSUME TypeOK, NEW k \in Pass
  PROVE  Ticked(k) \in Nat
<1> USE LlmPassAssumption DEF TypeOK
<1>1. IsFiniteSet(pages)
  <2>1. IsFiniteSet(Page)
    BY FS_Interval DEF Page
  <2> QED BY <2>1, FS_Subset
<1>2. IsFiniteSet(Cells(k))
  <2>1. IsFiniteSet(sel[k])
    <3>1. sel[k] \in SUBSET Label
      OBVIOUS
    <3> QED BY <3>1, FS_Subset
  <2> QED BY <1>1, <2>1, FS_Product DEF Cells
<1>3. IsFiniteSet({c \in Cells(k) : unit[k][c].step \in {"ticked", "over"}})
  BY <1>2, FS_Subset
<1> QED BY <1>3, FS_CardinalityType DEF Ticked

LEMMA CellsTyped ==
  ASSUME TypeOK, NEW k \in Pass
  PROVE  Cells(k) \subseteq Cell
BY DEF TypeOK, Cells, Cell

LEMMA UsableTyped ==
  ASSUME TypeOK
  PROVE  Usable \subseteq Cell \X Row
BY DEF TypeOK, Usable

LEMMA TypeNext ==
  ASSUME TypeOK, [Next]_vars
  PROVE  TypeOK'
<1> USE LlmPassAssumption
<1> USE DEF TypeOK, Goto, DbError
<1>1. ASSUME NEW labels \in SUBSET Label, Claim(labels) PROVE TypeOK'
  <2>1. Fresh \in [Cell -> Unit]
    BY DEF Fresh, ToDo, Unit, Step, Text
  <2> QED BY <1>1, <2>1, UnitsNat DEF Claim, ResetDone, ResetCost, ResetStory, Main, Pass
<1>2. ASSUME NEW c \in Cell, SaveEdit(c) PROVE TypeOK'
  BY <1>2 DEF SaveEdit, job, local, env, Row, Text
<1>3. ASSUME NEW k \in Pass, Plan(k) PROVE TypeOK'
  <2>1. dbErrors' \in 0 .. MaxDbErrors
    BY <1>3 DEF Plan
  <2>2. main' \in [Pass -> Main]
    BY <1>3 DEF Plan, Main
  <2> QED BY <1>3, <2>1, <2>2 DEF Plan, job
<1>4. ASSUME NEW k \in Pass, ZeroProgress(k) PROVE TypeOK'
  BY <1>4 DEF ZeroProgress, Main
<1>5. ASSUME NEW k \in Pass, Join(k) PROVE TypeOK'
  BY <1>5 DEF Join, job, env, Main
<1>6. ASSUME NEW k \in Pass, Gather(k) PROVE TypeOK'
  <2>1. dbErrors' \in 0 .. MaxDbErrors /\ main' \in [Pass -> Main]
    BY <1>6 DEF Gather, Main
  <2>2. gathered' \in [Pass -> SUBSET (Cell \X Row)]
    <3>1. CASE gathered' = gathered
      BY <3>1
    <3>2. ASSUME NEW some \in SUBSET Usable, gathered' = [gathered EXCEPT ![k] = some]
          PROVE  gathered' \in [Pass -> SUBSET (Cell \X Row)]
      <4>1. some \in SUBSET (Cell \X Row)
        BY UsableTyped
      <4> QED BY <3>2, <4>1
    <3> QED BY <1>6, <3>1, <3>2 DEF Gather
  <2> QED BY <1>6, <2>1, <2>2 DEF Gather, job
<1>7. ASSUME NEW k \in Pass, Synthesize(k) PROVE TypeOK'
  BY <1>7 DEF Synthesize, Main
<1>8. ASSUME NEW k \in Pass, BillStory(k) PROVE TypeOK'
  BY <1>8 DEF BillStory, Main
<1>9. ASSUME NEW k \in Pass, FullProgress(k) PROVE TypeOK'
  BY <1>9, UnitsNat DEF FullProgress, Main
<1>10. ASSUME NEW k \in Pass, Finish(k) PROVE TypeOK'
  BY <1>10 DEF Finish, Main
<1>11. ASSUME NEW k \in Pass, NEW c \in Cell, Draft(k, c) PROVE TypeOK'
  <2>1. unit[k][c] \in Unit
    OBVIOUS
  <2> PICK text \in {"found", "clean", "error"} :
        /\ unit' = [unit EXCEPT ![k][c] = [step |-> "drafted", text |-> text, n |-> 0]]
        /\ \/ row' = [row EXCEPT ![c] = [pass |-> k, text |-> text]] /\ UNCHANGED dbErrors
           \/ DbError /\ UNCHANGED row
    BY <1>11 DEF Draft
  <2>2. [step |-> "drafted", text |-> text, n |-> 0] \in Unit
    BY DEF Unit, Step, Text
  <2>3. unit' \in [Pass -> [Cell -> Unit]]
    BY <2>1, <2>2
  <2>4. [pass |-> k, text |-> text] \in Row
    BY DEF Row, Pass, Text
  <2>5. row' \in [Cell -> Row] /\ dbErrors' \in 0 .. MaxDbErrors
    BY <2>4
  <2> QED BY <1>11, <2>3, <2>5 DEF Draft, job
<1>12. ASSUME NEW k \in Pass, NEW c \in Cell, Count(k, c) PROVE TypeOK'
  <2>1. unit[k][c] \in Unit /\ Ticked(k) + 1 \in Nat
    BY TickedNat
  <2>2. [step |-> "ticked", text |-> unit[k][c].text, n |-> Ticked(k) + 1] \in Unit
    BY <2>1 DEF Unit, Step
  <2>3. unit' \in [Pass -> [Cell -> Unit]]
    BY <1>12, <2>1, <2>2 DEF Count
  <2>4. jobCost' \in Nat /\ dbErrors' \in 0 .. MaxDbErrors
    BY <1>12 DEF Count
  <2> QED BY <1>12, <2>3, <2>4 DEF Count
<1>13. ASSUME NEW k \in Pass, NEW c \in Cell, UpdateProgress(k, c) PROVE TypeOK'
  <2>1. unit[k][c] \in Unit
    OBVIOUS
  <2>2. [step |-> "over", text |-> unit[k][c].text, n |-> 0] \in Unit
    BY <2>1 DEF Unit, Step
  <2>3. unit' \in [Pass -> [Cell -> Unit]]
    BY <1>13, <2>1, <2>2 DEF UpdateProgress
  <2>4. jobDone' \in Nat /\ dbErrors' \in 0 .. MaxDbErrors
    BY <1>13, <2>1 DEF UpdateProgress, Unit
  <2> QED BY <1>13, <2>3, <2>4 DEF UpdateProgress
<1>14. CASE Crash
  <2>1. main' \in [Pass -> Main]
    BY <1>14 DEF Crash, Main
  <2>2. crashes' \in 0 .. MaxCrashes
    BY <1>14 DEF Crash
  <2> QED BY <1>14, <2>1, <2>2 DEF Crash, job
<1>15. CASE Boot
  BY <1>15 DEF Boot, Swept, local
<1>16. CASE UNCHANGED vars
  BY <1>16 DEF vars, job, local, env
<1> QED
  BY <1>1, <1>2, <1>3, <1>4, <1>5, <1>6, <1>7, <1>8, <1>9, <1>10, <1>11, <1>12,
     <1>13, <1>14, <1>15, <1>16 DEF Next, Request, MainStep, CellStep

----------------------------------------------------------------------------
LEMMA PassNext ==
  ASSUME TypeOK, PassInv, [Next]_vars
  PROVE  PassInv'
<1> USE LlmPassAssumption DEF TypeOK, PassInv, Latest, Pass, Running
<1>1. ASSUME NEW labels \in SUBSET Label, Claim(labels) PROVE PassInv'
  <2>1. \A k \in Pass : ~Running(k)
    BY <1>1 DEF Claim, Claimable, OnePass
  <2>2. /\ claims + 1 \in Pass /\ claims' = claims + 1
        /\ main' = [main EXCEPT ![claims + 1] = "plan"]
        /\ sel' = [sel EXCEPT ![claims + 1] = labels]
        /\ unit' = [k \in Pass |-> Fresh]
        /\ up' /\ jobStatus' = "generating" /\ pages' = pages
    BY <1>1, <2>1 DEF Claim, Goto
  <2>3. FutureNone'
    BY <2>2 DEF FutureNone
  <2>4. OnePass'
    BY <2>1, <2>2 DEF OnePass
  <2>5. NoneHalfDone'
    <3> SUFFICES ASSUME NEW k \in Pass, NEW c \in Cells(k)'
                 PROVE  unit'[k][c].step \in {"todo", "over"}
      BY DEF NoneHalfDone
    <3>1. c \in Cell
      BY <2>2 DEF Cells, Cell
    <3> QED BY <2>2, <3>1 DEF Fresh, ToDo
  <2> QED BY <2>3, <2>4, <2>5
<1>2. ASSUME NEW c \in Cell, SaveEdit(c) PROVE PassInv'
  BY <1>2 DEF SaveEdit, job, local, env, FutureNone, OnePass, NoneHalfDone, Cells
\* The steps of the pass's own goroutine: it stays, or is over.
<1>3. ASSUME NEW k \in Pass, MainStep(k) PROVE PassInv'
  <2>1. /\ Running(k) /\ k = claims /\ up /\ jobStatus = "generating"
        /\ up' = up /\ claims' = claims /\ pages' = pages
    BY <1>3 DEF MainStep, Plan, ZeroProgress, Join, Gather, Synthesize, BillStory,
                FullProgress, Finish, OnePass, env
  <2> DEFINE Moved == /\ \E place \in Main \ {"none", "gone"} :
                            /\ main' = [main EXCEPT ![k] = place]
                            /\ place = "over" \/ jobStatus' = jobStatus
                      /\ sel' = sel /\ unit' = unit
  <2>2. Moved
    <3>1. CASE Plan(k)
      BY <3>1 DEF Plan, Goto, Main, job
    <3>2. CASE ZeroProgress(k) \/ BillStory(k) \/ FullProgress(k) \/ Finish(k)
      BY <3>2 DEF ZeroProgress, BillStory, FullProgress, Finish, Goto, Main
    <3>3. CASE Join(k)
      BY <3>3 DEF Join, Goto, Main, job
    <3>4. CASE Gather(k)
      <4>1. /\ sel' = sel /\ unit' = unit /\ jobStatus' = jobStatus
            /\ Goto(k, "total") \/ Goto(k, "story")
        BY <3>4 DEF Gather, job
      <4> QED BY <4>1 DEF Goto, Main
    <3>5. CASE Synthesize(k)
      BY <3>5 DEF Synthesize, Goto, Main
    <3> QED BY <1>3, <3>1, <3>2, <3>3, <3>4, <3>5 DEF MainStep
  <2>3. FutureNone'
    BY <2>1, <2>2 DEF FutureNone
  <2>4. OnePass'
    BY <2>1, <2>2 DEF OnePass
  <2>5. NoneHalfDone'
    <3>1. main[k] = "fan" /\ main'[k] # "fan" => \A c \in Cells(k) : unit[k][c].step = "over"
      BY <1>3 DEF MainStep, Plan, ZeroProgress, Join, Joined, Over, Cells, Gather,
                  Synthesize, BillStory, FullProgress, Finish
    <3> QED BY <2>1, <2>2, <3>1 DEF NoneHalfDone, Cells
  <2> QED BY <2>3, <2>4, <2>5
\* The steps of its page goroutines: only under a pass that waits for them.
<1>4. ASSUME NEW k \in Pass, NEW c \in Cell, CellStep(k, c) PROVE PassInv'
  <2>1. /\ main[k] = "fan" /\ k = claims
        /\ UNCHANGED <<pages, main, sel, up, claims, jobStatus>>
        /\ \E u : unit' = [unit EXCEPT ![k][c] = u]
    <3>1. main[k] = "fan"
      <4>1. /\ main[k] \notin {"none", "gone"} /\ c \in Cells(k)
            /\ main[k] = "fan" \/ unit[k][c].step \in {"drafted", "ticked"}
        BY <1>4 DEF CellStep, Draft, Count, UpdateProgress, At
      <4> QED BY <4>1 DEF NoneHalfDone
    <3>2. UNCHANGED <<pages, main, sel, up, claims, jobStatus>>
      BY <1>4 DEF CellStep, Draft, Count, UpdateProgress, job
    <3>3. k = claims
      BY <3>1 DEF OnePass
    <3>4. \E u : unit' = [unit EXCEPT ![k][c] = u]
      BY <1>4 DEF CellStep, Draft, Count, UpdateProgress
    <3> QED BY <3>1, <3>2, <3>3, <3>4
  <2> QED BY <2>1 DEF FutureNone, OnePass, NoneHalfDone, Cells
<1>5. CASE Crash
  BY <1>5 DEF Crash, job, FutureNone, OnePass, NoneHalfDone, Cells
<1>6. CASE Boot
  BY <1>6 DEF Boot, local, FutureNone, OnePass, NoneHalfDone, Cells
<1>7. CASE UNCHANGED vars
  BY <1>7 DEF vars, job, local, env, FutureNone, OnePass, NoneHalfDone, Cells
<1> QED
  BY <1>1, <1>2, <1>3, <1>4, <1>5, <1>6, <1>7 DEF Next, Request

LEMMA StoryNext ==
  ASSUME TypeOK, PassInv, StoryInv, [Next]_vars
  PROVE  StoryInv'
<1> USE DEF TypeOK, PassInv, StoryInv
<1> USE DEF NotesTellNothing, DraftersTellNothing, GatheredCurrent, StoryMatchesRows
<1>1. ASSUME NEW labels \in SUBSET Label, Claim(labels) PROVE StoryInv'
  <2>1. \A k \in Pass : main[k] \in {"none", "over", "gone"}
    BY <1>1 DEF Claim, Claimable, OnePass, Running
  <2> QED BY <1>1, <2>1 DEF Claim, ResetStory, Goto, Pass
\* A person edits notes only, and notes have no synthesis.
<1>2. ASSUME NEW c \in Cell, SaveEdit(c) PROVE StoryInv'
  BY <1>2 DEF SaveEdit, job, local
<1>3. ASSUME NEW k \in Pass, MainStep(k) PROVE StoryInv'
  <2>1. Running(k) /\ \A j \in Pass \ {k} : main[j] \in {"none", "over", "gone"}
    <3>1. Running(k)
      BY <1>3 DEF MainStep, Plan, ZeroProgress, Join, Gather, Synthesize, BillStory,
                  FullProgress, Finish, Running
    <3> QED BY <3>1 DEF OnePass, Running
  <2>2. Usable' = Usable
    BY <1>3 DEF MainStep, Plan, ZeroProgress, Join, Gather, Synthesize, BillStory,
                FullProgress, Finish, Usable
  <2>3. CASE Plan(k)
    BY <2>2, <2>3 DEF Plan, Goto, job
  <2>4. CASE ZeroProgress(k)
    BY <2>2, <2>4 DEF ZeroProgress, Goto
  <2>5. CASE Join(k)
    BY <2>2, <2>5 DEF Join, Goto, job
  <2>6. CASE Gather(k)
    <3>1. story = {} /\ story' = {} /\ kind' = kind /\ kind # "notes"
      BY <2>6 DEF Gather, job
    <3>2. \/ Goto(k, "total") /\ gathered' = gathered
          \/ \E some \in SUBSET Usable :
               gathered' = [gathered EXCEPT ![k] = some] /\ (Goto(k, "total") \/ Goto(k, "story"))
      BY <2>6 DEF Gather
    <3> QED BY <2>1, <2>2, <3>1, <3>2 DEF Goto
  <2>7. CASE Synthesize(k)
    BY <2>1, <2>2, <2>7 DEF Synthesize, Goto
  <2>8. CASE BillStory(k)
    BY <2>2, <2>8 DEF BillStory, Goto
  <2>9. CASE FullProgress(k)
    BY <2>2, <2>9 DEF FullProgress, Goto
  <2>10. CASE Finish(k)
    BY <2>2, <2>10 DEF Finish, Goto
  <2> QED BY <1>3, <2>3, <2>4, <2>5, <2>6, <2>7, <2>8, <2>9, <2>10 DEF MainStep
\* A cell is drafted only while there is no synthesis.
<1>4. ASSUME NEW k \in Pass, NEW c \in Cell, CellStep(k, c) PROVE StoryInv'
  <2>1. main[k] = "fan"
    <3>1. /\ main[k] \notin {"none", "gone"} /\ c \in Cells(k)
          /\ main[k] = "fan" \/ unit[k][c].step \in {"drafted", "ticked"}
      BY <1>4 DEF CellStep, Draft, Count, UpdateProgress, At
    <3> QED BY <3>1 DEF NoneHalfDone
  <2>2. story = {} /\ \A j \in Pass : main[j] # "story"
    BY <2>1 DEF OnePass, Running
  <2>3. UNCHANGED <<kind, main, story>>
    BY <1>4 DEF CellStep, Draft, Count, UpdateProgress, job
  <2> QED BY <2>2, <2>3
<1>5. CASE Crash
  BY <1>5 DEF Crash, job, Usable
<1>6. CASE Boot
  BY <1>6 DEF Boot, local, Usable
<1>7. CASE UNCHANGED vars
  BY <1>7 DEF vars, job, local, env, Usable
<1> QED
  BY <1>1, <1>2, <1>3, <1>4, <1>5, <1>6, <1>7 DEF Next, Request

----------------------------------------------------------------------------
(* The counts and the cost of the latest pass.                             *)

Counted == {c \in Cells(Latest) : unit[Latest][c].step \in {"ticked", "over"}}

LEMMA CountedFinite ==
  TypeOK /\ claims > 0 =>
    /\ Latest \in Pass /\ IsFiniteSet(Counted) /\ Ticked(Latest) = Cardinality(Counted)
    /\ IsFiniteSet(Billed) /\ Cardinality(Counted) \in Nat /\ Cardinality(Billed) \in Nat
<1> SUFFICES ASSUME TypeOK, claims > 0
             PROVE  /\ Latest \in Pass /\ IsFiniteSet(Counted) /\ Ticked(Latest) = Cardinality(Counted)
                    /\ IsFiniteSet(Billed) /\ Cardinality(Counted) \in Nat /\ Cardinality(Billed) \in Nat
  OBVIOUS
<1> USE LlmPassAssumption DEF TypeOK
<1>1. Latest \in Pass
  BY DEF Latest, Pass
<1>2. IsFiniteSet(pages)
  <2>1. IsFiniteSet(Page)
    BY FS_Interval DEF Page
  <2> QED BY <2>1, FS_Subset
<1>3. IsFiniteSet(sel[Latest])
  <2>1. sel[Latest] \in SUBSET Label
    BY <1>1
  <2> QED BY <2>1, FS_Subset
<1>4. IsFiniteSet(Cells(Latest))
  BY <1>2, <1>3, FS_Product DEF Cells
<1>5. IsFiniteSet(Counted) /\ IsFiniteSet(Billed)
  BY <1>4, FS_Subset DEF Counted, Billed
<1> QED BY <1>1, <1>5, FS_CardinalityType DEF Ticked, Counted

\* What the counts depend on.
LEMMA SameCells ==
  ASSUME TypeOK, claims > 0, UNCHANGED <<kind, pages, sel, unit, claims>>
  PROVE  /\ Cells(Latest)' = Cells(Latest) /\ Ticked(Latest)' = Ticked(Latest) /\ Billed' = Billed
         /\ Joined(Latest)' = Joined(Latest)
         /\ (\A p \in pages : Over(Latest, p))' = (\A p \in pages : Over(Latest, p))
         /\ CountUnits(sel[Latest])' = CountUnits(sel[Latest])
BY DEF Latest, Cells, Ticked, Billed, Joined, Over, CountUnits

LEMMA MainFrame ==
  ASSUME TypeOK, PassInv, NEW k \in Pass, MainStep(k)
  PROVE  /\ k = Latest /\ claims > 0 /\ jobStatus = "generating" /\ main[k] \notin {"none", "over", "gone"}
         /\ UNCHANGED <<kind, pages, sel, unit, claims, jobTotal, row>>
         /\ dbErrors' = 0 => dbErrors = 0 /\ ~DbError
<1>1. /\ main[k] \notin {"none", "over", "gone"}
      /\ UNCHANGED <<kind, pages, sel, unit, claims, jobTotal, row>>
      /\ UNCHANGED dbErrors \/ DbError
  BY DEF MainStep, Plan, ZeroProgress, Join, Gather, Synthesize, BillStory, FullProgress, Finish,
         job, env
<1>2. k = Latest /\ jobStatus = "generating" /\ claims > 0
  BY <1>1 DEF PassInv, OnePass, Running, Latest, Pass
<1>3. dbErrors' = 0 => dbErrors = 0 /\ ~DbError
  BY <1>1 DEF TypeOK, DbError
<1> QED BY <1>1, <1>2, <1>3

LEMMA CellFrame ==
  ASSUME TypeOK, PassInv, StoryInv, NEW k \in Pass, NEW c \in Cell, CellStep(k, c)
  PROVE  /\ k = Latest /\ claims > 0 /\ main[k] = "fan" /\ jobStatus = "generating" /\ story = {}
         /\ c \in Cells(k) /\ unit[k][c].step # "over"
         /\ UNCHANGED <<kind, pages, jobStatus, jobTotal, story, main, sel, gathered, claims>>
         /\ Cells(k)' = Cells(k)
         /\ \A d \in Cells(k) \ {c} : unit'[k][d] = unit[k][d]
         /\ dbErrors' = 0 => dbErrors = 0 /\ ~DbError
<1>1. /\ main[k] \notin {"none", "gone"} /\ c \in Cells(k) /\ unit[k][c].step # "over"
      /\ main[k] = "fan" \/ unit[k][c].step \in {"drafted", "ticked"}
      /\ UNCHANGED <<kind, pages, jobStatus, jobTotal, story, main, sel, gathered, claims>>
      /\ UNCHANGED dbErrors \/ DbError
  BY DEF CellStep, Draft, Count, UpdateProgress, At, job
<1>2. main[k] = "fan"
  BY <1>1 DEF PassInv, NoneHalfDone
<1>3. k = Latest /\ jobStatus = "generating" /\ claims > 0
  BY <1>2 DEF PassInv, OnePass, Running, Latest, Pass
<1>4. story = {}
  BY <1>2 DEF StoryInv, DraftersTellNothing
<1>5. \A d \in Cells(k) \ {c} : unit'[k][d] = unit[k][d]
  <2>1. \E u : unit' = [unit EXCEPT ![k][c] = u]
    BY DEF CellStep, Draft, Count, UpdateProgress
  <2> QED BY <2>1, CellsTyped DEF TypeOK
<1>6. dbErrors' = 0 => dbErrors = 0 /\ ~DbError
  BY <1>1 DEF TypeOK, DbError
<1>7. Cells(k)' = Cells(k)
  BY <1>1 DEF Cells
<1> QED BY <1>1, <1>2, <1>3, <1>4, <1>5, <1>6, <1>7

\* A pass that died, a swept job and a person's edit change nothing that is counted.
LEMMA AccountKept ==
  ASSUME TypeOK, AccountInv,
         UNCHANGED <<kind, pages, sel, unit, claims, jobDone, jobTotal, jobCost, story, gathered>>,
         \A k \in Pass : main'[k] \in {main[k], "gone"},
         jobStatus' = "done" => jobStatus = "done",
         dbErrors' = 0 => dbErrors = 0,
         \A c \in Cell : row'[c].pass = row[c].pass
  PROVE  AccountInv'
<1> USE DEF AccountInv
<1>1. CASE claims = 0
  BY <1>1 DEF Tally, Complete, StoryBilled, CountsFinished, CostIsThisPass
<1>2. CASE claims > 0
  <2>1. Latest' = Latest /\ main'[Latest] \in {main[Latest], "gone"} /\ Cells(Latest) \subseteq Cell
    BY <1>2, CountedFinite, CellsTyped DEF Latest
  <2>2. Tally'
    BY <1>2, <2>1, SameCells DEF Tally
  <2>3. Complete'
    BY <1>2, <2>1, SameCells DEF Complete
  <2>4. StoryBilled'
    BY <1>2, <2>1, SameCells DEF StoryBilled
  <2>5. CountsFinished' /\ CostIsThisPass'
    BY <1>2, <2>1, SameCells DEF CountsFinished, CostIsThisPass
  <2> QED BY <2>2, <2>3, <2>4, <2>5
<1> QED BY <1>1, <1>2 DEF TypeOK

\* A claim starts from nothing.
LEMMA AccountClaim ==
  ASSUME TypeOK, TypeOK', PassInv, NEW labels \in SUBSET Label, Claim(labels)
  PROVE  AccountInv'
<1> USE DEF TypeOK
<1> PICK k \in Pass : k = claims + 1
  BY LlmPassAssumption DEF Claim, Pass
<1>1. /\ claims' = k /\ k > 0 /\ jobTotal' = CountUnits(labels) /\ jobDone' = 0 /\ jobCost' = 0
      /\ story' = {} /\ jobStatus' = "generating" /\ main'[k] = "plan" /\ sel'[k] = labels
      /\ UNCHANGED <<kind, pages>>
  BY LlmPassAssumption DEF Claim, ResetDone, ResetCost, ResetStory, Goto, Pass
<1>2. unit'[k] = Fresh
  <2>1. ~Running(k)
    BY DEF Claim, Claimable, PassInv, OnePass
  <2> QED BY <1>1, <2>1 DEF Claim
<1>3. Cells(k)' = pages \X labels /\ \A c \in pages \X labels : unit'[k][c] = ToDo
  <2>1. Cells(k)' = pages \X labels /\ pages \X labels \subseteq Cell
    BY <1>1 DEF Cells, Cell
  <2> QED BY <1>2, <2>1 DEF Fresh
<1>4. Counted' = {} /\ Billed' = {}
  <2>1. Cells(Latest)' = pages \X labels
    BY <1>1, <1>3 DEF Latest, Cells
  <2> QED BY <1>1, <1>3, <2>1 DEF Counted, Billed, Latest, ToDo
<1>5. Ticked(Latest)' = 0 /\ Cardinality(Billed)' = 0
  <2>1. (TypeOK /\ claims > 0)'
    BY <1>1
  <2>2. (TypeOK /\ claims > 0 => Ticked(Latest) = Cardinality(Counted))'
    BY CountedFinite, PTL
  <2> HIDE DEF TypeOK
  <2> QED BY <1>4, <2>1, <2>2, FS_EmptySet
<1>6. CountUnits(sel[Latest])' = CountUnits(labels)
  BY <1>1 DEF Latest, CountUnits
<1>7. Tally'
  BY <1>1, <1>3, <1>6 DEF Tally, Latest, ToDo, Cells
<1>8. Complete'
  BY <1>1, <1>3 DEF Complete, Latest, ToDo, Cells
<1>9. StoryBilled' /\ CountsFinished' /\ CostIsThisPass'
  BY <1>1, <1>5 DEF StoryBilled, CountsFinished, CostIsThisPass, Latest
<1> QED BY <1>7, <1>8, <1>9 DEF AccountInv

LEMMA AccountMain ==
  ASSUME TypeOK, TypeOK', PassInv, StoryInv, AccountInv, NEW k \in Pass, MainStep(k)
  PROVE  AccountInv'
<1> USE DEF AccountInv, TypeOK, Goto
<1>0. /\ k = Latest /\ claims > 0 /\ jobStatus = "generating" /\ Latest' = Latest
      /\ UNCHANGED <<kind, pages, sel, unit, claims, jobTotal, row>>
      /\ dbErrors' = 0 => dbErrors = 0 /\ ~DbError
  BY MainFrame DEF Latest
<1>s. /\ Cells(Latest)' = Cells(Latest) /\ Ticked(Latest)' = Ticked(Latest) /\ Billed' = Billed
      /\ Joined(Latest)' = Joined(Latest)
      /\ (\A p \in pages : Over(Latest, p))' = (\A p \in pages : Over(Latest, p))
      /\ CountUnits(sel[Latest])' = CountUnits(sel[Latest])
  BY <1>0, SameCells
<1>n. Ticked(Latest) \in Nat /\ Cardinality(Billed) \in Nat
  BY <1>0, CountedFinite
<1>e. main[k] \in {"plan", "zero", "fan", "gather", "story"} => story = {}
  BY DEF StoryInv, DraftersTellNothing
<1>1. Tally'
  <2>1. main'[k] \in {"gather", "story", "bill", "total", "finish"} => Joined(k)
    BY <1>0 DEF Tally, MainStep, Plan, ZeroProgress, Join, Gather, Synthesize, BillStory,
                FullProgress, Finish
  <2> QED BY <1>0, <1>s, <2>1 DEF Tally
<1>2. Complete'
  <2>1. dbErrors' = 0 /\ (main'[k] = "finish" \/ jobStatus' = "done") => jobDone' = jobTotal /\ Joined(k)
    <3>1. CASE FullProgress(k)
      BY <1>0, <3>1 DEF FullProgress, Tally
    <3>2. CASE Finish(k)
      BY <1>0, <3>2 DEF Finish, Complete
    <3>3. CASE Plan(k) \/ ZeroProgress(k) \/ Join(k) \/ Gather(k) \/ Synthesize(k) \/ BillStory(k)
      BY <1>0, <3>3 DEF Plan, ZeroProgress, Join, Gather, Synthesize, BillStory, job
    <3> QED BY <3>1, <3>2, <3>3 DEF MainStep
  <2> QED BY <1>0, <1>s, <2>1 DEF Complete
<1>3. StoryBilled'
  <2>1. main'[k] = "story" => gathered'[k] # {}
    BY <1>0 DEF StoryBilled, MainStep, Plan, ZeroProgress, Join, Gather, Synthesize, BillStory,
                FullProgress, Finish
  <2>2. main'[k] = "bill" => story' # {} /\ jobCost' <= Cardinality(Billed)
    <3>1. main'[k] = "bill" => Synthesize(k) /\ story' = gathered[k] /\ story = {} /\ jobCost' = jobCost
      BY <1>0, <1>e DEF MainStep, Plan, ZeroProgress, Join, Gather, Synthesize, BillStory,
                        FullProgress, Finish
    <3>2. Synthesize(k) => gathered[k] # {}
      BY <1>0 DEF Synthesize, StoryBilled
    <3> QED BY <1>0, <1>n, <3>1, <3>2 DEF CostIsThisPass
  <2> QED BY <1>0, <1>s, <2>1, <2>2 DEF StoryBilled
<1>4. CountsFinished'
  <2>1. CASE jobDone' \in {jobDone, 0}
    BY <1>0, <1>s, <1>n, <2>1 DEF CountsFinished
  <2>2. CASE jobDone' \notin {jobDone, 0}
    <3>1. FullProgress(k) /\ jobDone' = CountUnits(sel[k])
      BY <2>2 DEF MainStep, Plan, ZeroProgress, Join, Gather, Synthesize, BillStory,
                  FullProgress, Finish, job
    <3>2. jobDone' = jobTotal /\ Joined(Latest)
      BY <1>0, <3>1 DEF FullProgress, Tally
    <3> QED BY <1>0, <1>s, <3>2 DEF CountsFinished, Joined
  <2> QED BY <2>1, <2>2
<1>5. CostIsThisPass'
  <2>1. CASE jobCost' = jobCost /\ story' = story
    BY <1>0, <1>s, <2>1 DEF CostIsThisPass
  <2>2. CASE Synthesize(k)
    BY <1>0, <1>s, <1>n, <1>e, <2>2 DEF Synthesize, CostIsThisPass
  <2>3. CASE BillStory(k)
    BY <1>0, <1>s, <1>n, <2>3 DEF BillStory, StoryBilled, CostIsThisPass
  <2>4. CASE ~Synthesize(k) /\ ~BillStory(k)
    BY <2>1, <2>4 DEF MainStep, Plan, ZeroProgress, Join, Gather, FullProgress, Finish, job
  <2> QED BY <2>2, <2>3, <2>4
<1> QED BY <1>1, <1>2, <1>3, <1>4, <1>5

LEMMA AccountCell ==
  ASSUME TypeOK, TypeOK', PassInv, StoryInv, AccountInv, NEW k \in Pass, NEW c \in Cell, CellStep(k, c)
  PROVE  AccountInv'
<1> USE DEF AccountInv
<1> DEFINE u == unit[k][c]
           v == unit'[k][c]
<1>0. /\ k = Latest /\ claims > 0 /\ main[k] = "fan" /\ jobStatus = "generating" /\ story = {}
      /\ c \in Cells(k) /\ u.step # "over" /\ Latest' = Latest
      /\ UNCHANGED <<kind, pages, jobStatus, jobTotal, story, main, sel, gathered, claims>>
      /\ Cells(k)' = Cells(k)
      /\ \A d \in Cells(k) \ {c} : unit'[k][d] = unit[k][d]
      /\ dbErrors' = 0 => dbErrors = 0 /\ ~DbError
  BY CellFrame DEF Latest
<1>1. u \in Unit /\ v \in Unit
  BY DEF TypeOK
<1>2. \/ /\ u.step = "todo" /\ v.step = "drafted" /\ jobCost' = jobCost /\ jobDone' = jobDone
         /\ dbErrors' = 0 => row' = [row EXCEPT ![c] = [pass |-> k, text |-> v.text]]
      \/ /\ u.step = "drafted" /\ v.step = "ticked" /\ v.text = u.text /\ v.n = Ticked(k) + 1
         /\ row' = row /\ jobDone' = jobDone
         /\ jobCost' \in {jobCost, jobCost + 1} /\ (u.text = "error" => jobCost' = jobCost)
         /\ dbErrors' = 0 /\ u.text # "error" => jobCost' = jobCost + 1
      \/ /\ u.step = "ticked" /\ v.step = "over" /\ v.text = u.text /\ row' = row
         /\ jobCost' = jobCost /\ jobDone' \in {jobDone, u.n}
  <2> HIDE DEF u, v
  <2>1. CASE Draft(k, c)
    <3>1. PICK text \in {"found", "clean", "error"} :
            /\ unit' = [unit EXCEPT ![k][c] = [step |-> "drafted", text |-> text, n |-> 0]]
            /\ \/ row' = [row EXCEPT ![c] = [pass |-> k, text |-> text]] /\ UNCHANGED dbErrors
               \/ DbError /\ UNCHANGED row
      BY <2>1 DEF Draft
    <3>2. v = [step |-> "drafted", text |-> text, n |-> 0]
      BY <3>1 DEF v, TypeOK
    <3>3. u.step = "todo" /\ jobCost' = jobCost /\ jobDone' = jobDone
      BY <2>1 DEF Draft, At, job, u
    <3> QED BY <1>0, <3>1, <3>2, <3>3
  <2>2. CASE Count(k, c)
    <3>1. v = [step |-> "ticked", text |-> u.text, n |-> Ticked(k) + 1]
      BY <2>2 DEF Count, v, u, TypeOK
    <3>2. u.step = "drafted" /\ row' = row /\ jobDone' = jobDone
      BY <2>2 DEF Count, At, u
    <3>3. /\ jobCost' \in {jobCost, jobCost + 1} /\ (u.text = "error" => jobCost' = jobCost)
          /\ dbErrors' = 0 /\ u.text # "error" => jobCost' = jobCost + 1
      BY <1>0, <2>2 DEF Count, u
    <3> QED BY <3>1, <3>2, <3>3
  <2>3. CASE UpdateProgress(k, c)
    <3>1. v = [step |-> "over", text |-> u.text, n |-> 0]
      BY <2>3 DEF UpdateProgress, v, u, TypeOK
    <3>2. u.step = "ticked" /\ row' = row /\ jobCost' = jobCost /\ jobDone' \in {jobDone, u.n}
      BY <2>3 DEF UpdateProgress, At, u
    <3> QED BY <3>1, <3>2
  <2> QED BY <2>1, <2>2, <2>3 DEF CellStep
<1>3. /\ Counted' = IF u.step = "drafted" THEN Counted \cup {c} ELSE Counted
      /\ Billed' = IF u.step = "drafted" /\ u.text # "error" THEN Billed \cup {c} ELSE Billed
  BY <1>0, <1>2 DEF Counted, Billed
<1>4. /\ Ticked(k) = Cardinality(Counted) /\ Ticked(k)' = Cardinality(Counted)'
      /\ Ticked(k) \in Nat /\ Ticked(k)' \in Nat
      /\ Cardinality(Billed) \in Nat /\ Cardinality(Billed)' \in Nat
  <2>1. Ticked(k) = Cardinality(Counted) /\ Ticked(k) \in Nat /\ Cardinality(Billed) \in Nat
    BY <1>0, CountedFinite
  <2>2. (TypeOK /\ claims > 0 =>
           /\ Ticked(Latest) = Cardinality(Counted) /\ Cardinality(Counted) \in Nat
           /\ Cardinality(Billed) \in Nat)'
    BY CountedFinite, PTL
  <2>3. Ticked(Latest)' = Ticked(k)'
    BY <1>0 DEF Ticked, Cells
  <2> QED BY <1>0, <2>1, <2>2, <2>3
<1>5. /\ u.step = "drafted" => Ticked(k)' = Ticked(k) + 1
      /\ u.step # "drafted" => Ticked(k)' = Ticked(k)
  <2>1. u.step = "drafted" => c \notin Counted
    BY <1>0 DEF Counted
  <2>2. c \notin Counted => Cardinality(Counted \cup {c}) = Cardinality(Counted) + 1
    BY <1>0, CountedFinite, FS_AddElement
  <2> QED BY <1>3, <1>4, <2>1, <2>2
<1>6. Cardinality(Billed)' = IF u.step = "drafted" /\ u.text # "error" THEN Cardinality(Billed) + 1
                             ELSE Cardinality(Billed)
  <2>1. u.step = "drafted" => c \notin Billed
    BY <1>0 DEF Billed
  <2>2. c \notin Billed => Cardinality(Billed \cup {c}) = Cardinality(Billed) + 1
    BY <1>0, CountedFinite, FS_AddElement
  <2> QED BY <1>3, <2>1, <2>2
<1>7. Tally'
  <2>1. \A d \in Cells(k) : unit'[k][d].step = "ticked" => unit'[k][d].n <= Ticked(k)'
    <3> SUFFICES ASSUME NEW d \in Cells(k), unit'[k][d].step = "ticked"
                 PROVE  unit'[k][d].n <= Ticked(k)'
      OBVIOUS
    <3>1. CASE d = c
      BY <1>2, <1>4, <1>5, <3>1
    <3>2. CASE d # c
      <4>1. unit[k][d].n <= Ticked(k) /\ unit[k][d].n \in Nat /\ unit'[k][d] = unit[k][d]
        BY <1>0, <3>2, CellsTyped DEF Tally, TypeOK, Unit
      <4> QED BY <1>4, <1>5, <4>1
    <3> QED BY <3>1, <3>2
  <2>2. CountUnits(sel[Latest])' = CountUnits(sel[Latest])
    BY <1>0 DEF CountUnits
  <2> QED BY <1>0, <2>1, <2>2 DEF Tally, Ticked, Cells
<1>8. Complete'
  <2> SUFFICES ASSUME dbErrors' = 0, NEW d \in Cells(k), unit'[k][d].step # "todo"
               PROVE  row'[d].pass = k
    BY <1>0 DEF Complete
  <2>1. d \in Cell /\ \A e \in Cell : row[e] \in Row
    BY CellsTyped DEF TypeOK
  <2>2. unit[k][d].step # "todo" => row[d].pass = k
    BY <1>0 DEF Complete
  <2>3. CASE d = c
    BY <1>2, <2>1, <2>2, <2>3 DEF TypeOK
  <2>4. CASE d # c
    BY <1>0, <1>2, <2>1, <2>2, <2>4 DEF TypeOK
  <2> QED BY <2>3, <2>4
<1>9. StoryBilled'
  BY <1>0 DEF StoryBilled
<1>10. CountsFinished'
  <2>1. ~\A p \in pages : Over(k, p)
    BY <1>0 DEF Over, Cells
  <2>2. jobDone <= Ticked(k) /\ jobDone \in Nat
    BY <1>0, <2>1 DEF CountsFinished, TypeOK
  <2>3. u.step = "ticked" => u.n <= Ticked(k) /\ u.n \in Nat
    BY <1>0, <1>1 DEF Tally, Unit
  <2>4. jobDone' <= Ticked(k)'
    BY <1>2, <1>4, <1>5, <2>2, <2>3
  <2>5. Ticked(Latest)' = Ticked(k)'
    BY <1>0 DEF Ticked, Cells
  <2> QED BY <2>4, <2>5 DEF CountsFinished
<1>11. CostIsThisPass'
  <2> HIDE DEF u, v
  <2>1. jobCost <= Cardinality(Billed) /\ (dbErrors = 0 => Cardinality(Billed) <= jobCost) /\ jobCost \in Nat
    BY <1>0, <1>4 DEF CostIsThisPass, TypeOK
  <2>2. jobCost' <= Cardinality(Billed)' /\ (dbErrors' = 0 => Cardinality(Billed)' <= jobCost')
    BY <1>0, <1>2, <1>4, <1>6, <2>1
  <2> QED BY <1>0, <1>4, <2>2 DEF CostIsThisPass
<1> QED BY <1>7, <1>8, <1>9, <1>10, <1>11

LEMMA AccountNext ==
  ASSUME TypeOK, TypeOK', PassInv, StoryInv, AccountInv, [Next]_vars
  PROVE  AccountInv'
<1>0. dbErrors \in Nat
  BY DEF TypeOK
<1>1. ASSUME NEW labels \in SUBSET Label, Claim(labels) PROVE AccountInv'
  BY <1>1, AccountClaim
<1>2. ASSUME NEW c \in Cell, SaveEdit(c) PROVE AccountInv'
  <2>1. \A d \in Cell : row'[d].pass = row[d].pass
    BY <1>2 DEF SaveEdit, TypeOK, Row
  <2> QED BY <1>2, <2>1, AccountKept DEF SaveEdit, job, local, env
<1>3. ASSUME NEW k \in Pass, MainStep(k) PROVE AccountInv'
  BY <1>3, AccountMain
<1>4. ASSUME NEW k \in Pass, NEW c \in Cell, CellStep(k, c) PROVE AccountInv'
  BY <1>4, AccountCell
<1>5. CASE Crash
  <2>1. \A k \in Pass : main'[k] \in {main[k], "gone"}
    BY <1>5 DEF Crash
  <2> QED BY <1>5, <2>1, AccountKept DEF Crash, job
<1>6. CASE Boot
  <2>1. jobStatus' = "done" => jobStatus = "done"
    BY <1>6 DEF Boot, Swept
  <2>2. dbErrors' = 0 => dbErrors = 0
    BY <1>0, <1>6 DEF Boot, DbError
  <2> QED BY <1>6, <2>1, <2>2, AccountKept DEF Boot, local
<1>7. CASE UNCHANGED vars
  BY <1>7, AccountKept DEF vars, job, local, env
<1> QED
  BY <1>1, <1>2, <1>3, <1>4, <1>5, <1>6, <1>7 DEF Next, Request

----------------------------------------------------------------------------
LEMMA InitHolds ==
  ASSUME Init
  PROVE  TypeOK /\ PassInv /\ StoryInv
<1> USE LlmPassAssumption DEF Init
<1>1. Fresh \in [Cell -> Unit]
  BY DEF Fresh, ToDo, Unit, Step, Text
<1>2. NoRow \in Row
  BY DEF NoRow, Row, Text
<1>3. pages \in SUBSET Page
  BY DEF Page
<1>4. TypeOK
  BY <1>1, <1>2, <1>3 DEF TypeOK, Main
<1>5. PassInv
  BY <1>3 DEF PassInv, FutureNone, OnePass, NoneHalfDone, Running, Latest, Cells, Cell, Fresh, ToDo
<1>6. StoryInv
  BY DEF StoryInv, NotesTellNothing, DraftersTellNothing, GatheredCurrent, StoryMatchesRows
<1> QED BY <1>4, <1>5, <1>6

\* Every state of the pass is of the type declared for it, whatever the number of
\* pages, labels, passes, restarts and database errors.
THEOREM PassTypeCorrect == Spec => []TypeOK
<1>1. Init => TypeOK
  BY InitHolds
<1> QED BY <1>1, TypeNext, PTL DEF Spec

LEMMA Invariants == Spec => [](TypeOK /\ PassInv /\ StoryInv)
<1>1. Init => TypeOK /\ PassInv /\ StoryInv
  BY InitHolds
<1>2. TypeOK /\ PassInv /\ StoryInv /\ [Next]_vars => (TypeOK /\ PassInv /\ StoryInv)'
  BY TypeNext, PassNext, StoryNext
<1> QED BY <1>1, <1>2, PTL DEF Spec

LEMMA Accounts == Spec => []AccountInv
<1>1. Init => AccountInv
  BY DEF Init, AccountInv, Tally, Complete, StoryBilled, CountsFinished, CostIsThisPass
<1>2. TypeOK /\ TypeOK' /\ PassInv /\ StoryInv /\ AccountInv /\ [Next]_vars => AccountInv'
  BY AccountNext
<1> QED BY <1>1, <1>2, Invariants, PTL DEF Spec

\* The progress a poll reads never runs ahead of the cells that finished, and a job that reads
\* "done" has a row of its own pass for every cell of its plan.
THEOREM ProgressIsHonest == Spec => []ProgressHonest
<1>1. TypeOK /\ AccountInv => ProgressHonest
  <2> SUFFICES ASSUME TypeOK, AccountInv PROVE ProgressHonest
    OBVIOUS
  <2>1. CountsFinished
    BY DEF AccountInv
  <2>2. DoneIsComplete
    <3> SUFFICES ASSUME jobStatus = "done", dbErrors = 0, NEW c \in Cells(Latest)
                 PROVE  row[c].pass = Latest
      BY DEF DoneIsComplete, AccountInv, Complete
    <3>1. Joined(Latest) /\ claims > 0
      BY DEF AccountInv, Complete
    <3>2. unit[Latest][c].step = "over"
      BY <3>1 DEF Joined, Over, Cells
    <3> QED BY <3>1, <3>2 DEF AccountInv, Complete
  <2> QED BY <2>1, <2>2 DEF ProgressHonest
<1> QED BY <1>1, Invariants, Accounts, PTL

\* The cost column bills the calls of the latest pass, each once, and no other.
THEOREM CostsAreOfThisPass == Spec => []CostIsThisPass
<1>1. AccountInv => CostIsThisPass
  BY DEF AccountInv
<1> QED BY <1>1, Accounts, PTL

\* Requests that race never leave two passes over one run, and no pass runs
\* behind a row that says otherwise (ClaimNotesJob, ClaimEvalJob).
THEOREM OnePassAtATime == Spec => []OnePass
<1>1. TypeOK /\ PassInv /\ StoryInv => OnePass
  BY DEF PassInv
<1> QED BY <1>1, Invariants, PTL

\* The synthesis a reader sees was written from the verdicts stored beside it:
\* synthesize() runs after wg.Wait and the claim clears the column.
THEOREM SynthesisIsCurrent == Spec => []StoryMatchesRows
<1>1. TypeOK /\ PassInv /\ StoryInv => StoryMatchesRows
  BY DEF StoryInv
<1> QED BY <1>1, Invariants, PTL

\* After a job is settled no goroutine of its pass still writes: only a new claim
\* touches its columns, and only a person's edit its rows.
THEOREM SettledJobsAreQuiet == Spec => SettledIsQuiet
<1> DEFINE Quiet == jobStatus # "generating" /\ claims' = claims =>
                      /\ UNCHANGED job
                      /\ \A c \in Cell : row'[c] # row[c] => row'[c].text = "edited"
<1>1. TypeOK /\ PassInv /\ [Next]_vars => [Quiet]_vars
  <2> SUFFICES ASSUME TypeOK, PassInv, Next, jobStatus # "generating", claims' = claims
               PROVE  /\ UNCHANGED job
                      /\ \A c \in Cell : row'[c] # row[c] => row'[c].text = "edited"
    OBVIOUS
  <2> USE DEF TypeOK, PassInv
  <2>1. \A k \in Pass : ~Running(k)
    BY DEF OnePass
  <2>2. ASSUME NEW labels, Claim(labels) PROVE FALSE
    BY <2>2 DEF Claim
  <2>3. ASSUME NEW k \in Pass, MainStep(k) PROVE FALSE
    BY <2>1, <2>3 DEF MainStep, Plan, ZeroProgress, Join, Gather, Synthesize, BillStory,
                      FullProgress, Finish, Running
  <2>4. ASSUME NEW k \in Pass, NEW c \in Cell, CellStep(k, c) PROVE FALSE
    <3>1. /\ main[k] \notin {"none", "gone"} /\ c \in Cells(k)
          /\ main[k] = "fan" \/ unit[k][c].step \in {"drafted", "ticked"}
      BY <2>4 DEF CellStep, Draft, Count, UpdateProgress, At
    <3> QED BY <2>1, <3>1 DEF NoneHalfDone, Running
  <2>5. ASSUME NEW c \in Cell, SaveEdit(c)
        PROVE  /\ UNCHANGED job
               /\ \A d \in Cell : row'[d] # row[d] => row'[d].text = "edited"
    BY <2>5 DEF SaveEdit, Row
  <2>6. CASE Crash
    BY <2>6 DEF Crash
  <2>7. CASE Boot
    BY <2>7 DEF Boot, Swept, job
  <2> QED BY <2>2, <2>3, <2>4, <2>5, <2>6, <2>7 DEF Next, Request
<1>2. Spec => [](TypeOK /\ PassInv)
  BY Invariants, PTL
<1> QED BY <1>1, <1>2, PTL DEF Spec, SettledIsQuiet
=============================================================================
