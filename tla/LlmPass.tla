------------------------------ MODULE LlmPass ------------------------------
(***************************************************************************)
(* An LLM pass over a completed run: the notes pass (page x model) and the *)
(* persona evaluation (page x persona, then one synthesis), which the code *)
(* writes twice in the same shape.  Requests claim the job with one guarded*)
(* UPDATE; the winner starts a goroutine that plans, drafts the cells of   *)
(* several pages at once, and settles the job; a restart sweeps it.        *)
(*                                                                         *)
(* A page's goroutine takes its cells one after the other.  Costs are      *)
(* counted in calls.                                                       *)
(***************************************************************************)
EXTENDS Integers, FiniteSets

CONSTANTS
  Label,        \* the models, or the personas, a request may select
  MaxPages,     \* bound: distinct URLs of the run
  Concurrency,  \* pages drafted at once
  MaxSynthCells,\* verdicts the synthesis prompt holds
  MaxPasses,    \* bound: claims won
  MaxCrashes,   \* bound: restarts
  MaxDbErrors   \* bound: statements the database rejects

ASSUME LlmPassAssumption ==
  /\ MaxPages \in Nat /\ Concurrency \in Nat \ {0} /\ MaxSynthCells \in Nat
  /\ MaxPasses \in Nat /\ MaxCrashes \in Nat /\ MaxDbErrors \in Nat
  /\ IsFiniteSet(Label)

Page == 1 .. MaxPages    \* in plan order
Cell == Page \X Label
Pass == 1 .. MaxPasses   \* the claims won, in order

VARIABLES
  kind, pages,                               \* what the pass is, and of which run
  jobStatus, jobDone, jobTotal, jobCost,     \* columns of the runs row
  story,                                     \* eval_synthesis_json: the rows it cites
  row,                                       \* page_notes or page_evaluations
  main, sel, unit, gathered,                 \* per pass: its goroutines and locals
  up, claims, crashes, dbErrors

job   == <<jobStatus, jobDone, jobTotal, jobCost, story>>
local == <<main, sel, unit, gathered>>
env   == <<up, claims, crashes, dbErrors>>
vars  == <<kind, pages, job, row, local, env>>

Kind == {"notes", "eval"}
Text == {"none", "found", "clean", "error", "edited"}
Row  == [pass : 0 .. MaxPasses, text : Text]
Step == {"todo", "drafted", "ticked", "over"}
Main == {"none", "plan", "zero", "fan", "gather", "story", "bill", "total",
         "finish", "giveup", "over", "gone"}
Unit == [step : Step, text : Text, n : Nat]
NoRow  == [pass |-> 0, text |-> "none"]
ToDo   == [step |-> "todo", text |-> "none", n |-> 0]
Fresh  == [c \in Cell |-> ToDo]

TypeOK ==
  /\ kind \in Kind /\ pages \in SUBSET Page
  /\ jobStatus \in {"idle", "generating", "done", "failed"}
  /\ jobDone \in Nat /\ jobTotal \in Nat /\ jobCost \in Nat
  /\ story \in SUBSET (Cell \X Row)
  /\ row \in [Cell -> Row]
  /\ main \in [Pass -> Main] /\ sel \in [Pass -> SUBSET Label]
  /\ unit \in [Pass -> [Cell -> Unit]]
  /\ gathered \in [Pass -> SUBSET (Cell \X Row)]
  /\ up \in BOOLEAN
  /\ claims \in 0 .. MaxPasses
  /\ crashes \in 0 .. MaxCrashes /\ dbErrors \in 0 .. MaxDbErrors

Init ==
  /\ kind \in Kind /\ pages \in {1 .. n : n \in 0 .. MaxPages}
  /\ jobStatus = "idle" /\ jobDone = 0 /\ jobTotal = 0 /\ jobCost = 0
  /\ story = {}
  /\ row = [c \in Cell |-> NoRow]
  /\ main = [k \in Pass |-> "none"]
  /\ sel  = [k \in Pass |-> {}]
  /\ unit = [k \in Pass |-> Fresh]
  /\ gathered = [k \in Pass |-> {}]
  /\ up = TRUE /\ claims = 0 /\ crashes = 0 /\ dbErrors = 0

----------------------------------------------------------------------------
Goto(k, place) == main' = [main EXCEPT ![k] = place]

DbError == dbErrors < MaxDbErrors /\ dbErrors' = dbErrors + 1

Running(k) == main[k] \notin {"none", "over", "gone"}

Cells(k) == pages \X sel[k]

\* The total a request computes: one unit per cell, and one for the synthesis.
CountUnits(labels) ==
  Cardinality(pages) * Cardinality(labels) + (IF kind = "eval" THEN 1 ELSE 0)

Started(k, p) == \E l \in sel[k] : unit[k][<<p, l>>].step # "todo"
Over(k, p)    == \A l \in sel[k] : unit[k][<<p, l>>].step = "over"
Between(k, p) == \A l \in sel[k] : unit[k][<<p, l>>].step \in {"todo", "over"}
Active(k)     == {p \in pages : Started(k, p) /\ ~Over(k, p)}

\* The pass's in-memory counter of finished cells.
Ticked(k) == Cardinality({c \in Cells(k) : unit[k][c].step \in {"ticked", "over"}})

----------------------------------------------------------------------------
(* Requests.                                                               *)

\* Mutants: the claim of a job already generating, and a claim that leaves the
\* progress, the cost or the synthesis of the previous pass.
AnyStatus == TRUE
KeepDone  == UNCHANGED jobDone
KeepCost  == UNCHANGED jobCost
KeepStory == UNCHANGED story

\* The guard and the resets of the UPDATE in ClaimNotesJob and ClaimEvalJob.
Claimable  == jobStatus # "generating"
ResetDone  == jobDone' = 0
ResetCost  == jobCost' = 0
ResetStory == story' = {}

\* The request that wins starts the goroutine; one that loses changes nothing.
\* The locals of an earlier pass are kept until then, for the properties.
Claim(labels) ==
  /\ up /\ claims < MaxPasses /\ Claimable
  /\ claims' = claims + 1
  /\ jobStatus' = "generating" /\ jobTotal' = CountUnits(labels)
  /\ ResetDone /\ ResetCost /\ ResetStory
  /\ sel' = [sel EXCEPT ![claims + 1] = labels]
  /\ Goto(claims + 1, "plan")
  /\ unit' = [k \in Pass |-> IF Running(k) THEN unit[k] ELSE Fresh]
  /\ UNCHANGED <<kind, pages, row, gathered, up, crashes, dbErrors>>

\* A person rewrites a stored note, while a pass runs or not.
SaveEdit(c) ==
  /\ up /\ kind = "notes" /\ row[c].text # "none"
  /\ row' = [row EXCEPT ![c].text = "edited"]
  /\ UNCHANGED <<kind, pages, job, local, env>>

----------------------------------------------------------------------------
(* The pass's own goroutine.                                               *)

Plan(k) ==
  /\ up /\ main[k] = "plan"
  /\ \/ Goto(k, "zero") /\ UNCHANGED dbErrors
     \/ DbError /\ Goto(k, "giveup")
  /\ UNCHANGED <<kind, pages, job, row, sel, unit, gathered, up, claims, crashes>>

\* Progress writes ignore their error, here and below.
ZeroProgress(k) ==
  /\ up /\ main[k] = "zero"
  /\ \/ jobDone' = 0 /\ UNCHANGED dbErrors
     \/ DbError /\ UNCHANGED jobDone
  /\ Goto(k, "fan")
  /\ UNCHANGED <<kind, pages, jobStatus, jobTotal, jobCost, story, row,
                 sel, unit, gathered, up, claims, crashes>>

\* Mutant: the pass goes on once every page goroutine is started.
AllStarted(k) == \A p \in pages : Started(k, p)

\* wg.Wait
Joined(k) == \A p \in pages : Over(k, p)

Join(k) ==
  /\ up /\ main[k] = "fan" /\ Joined(k)
  /\ Goto(k, IF kind = "eval" THEN "gather" ELSE "total")
  /\ UNCHANGED <<kind, pages, job, row, sel, unit, gathered, env>>

----------------------------------------------------------------------------
(* The goroutine of a page: per cell the call and its row, the cost and    *)
(* the in-memory count, the progress column set to that count.  These      *)
(* goroutines outlive the loop that started them.                          *)

At(k, c, place) ==
  up /\ main[k] \notin {"none", "gone"} /\ c \in Cells(k) /\ unit[k][c].step = place

\* The call, then the row: the upsert replaces whatever it held, a person's edit
\* too.  Nothing shared is read between the two, so they are one step.  Pages start
\* in plan order, Concurrency at most at a time.  The evaluation's verification
\* call only changes what a verdict holds.
Draft(k, c) ==
  /\ At(k, c, "todo") /\ main[k] = "fan" /\ Between(k, c[1])
  /\ \/ Started(k, c[1])
     \/ /\ Cardinality(Active(k)) < Concurrency
        /\ \A p \in pages : p < c[1] => Started(k, p)
  /\ \E text \in {"found", "error"} \cup (IF kind = "eval" THEN {"clean"} ELSE {}) :
       /\ unit' = [unit EXCEPT ![k][c] = [step |-> "drafted", text |-> text, n |-> 0]]
       /\ \/ row' = [row EXCEPT ![c] = [pass |-> k, text |-> text]] /\ UNCHANGED dbErrors
          \/ DbError /\ UNCHANGED row
  /\ UNCHANGED <<kind, pages, job, main, sel, gathered, up, claims, crashes>>

\* The cost, of a call that succeeded only, then atomic.AddInt64 on the counter.
Count(k, c) ==
  /\ At(k, c, "drafted")
  /\ unit' = [unit EXCEPT ![k][c] =
                [step |-> "ticked", text |-> unit[k][c].text, n |-> Ticked(k) + 1]]
  /\ \/ unit[k][c].text = "error" /\ UNCHANGED <<jobCost, dbErrors>>
     \/ unit[k][c].text # "error" /\ jobCost' = jobCost + 1 /\ UNCHANGED dbErrors
     \/ unit[k][c].text # "error" /\ DbError /\ UNCHANGED jobCost
  /\ UNCHANGED <<kind, pages, jobStatus, jobDone, jobTotal, story, row,
                 main, sel, gathered, up, claims, crashes>>

UpdateProgress(k, c) ==
  /\ At(k, c, "ticked")
  /\ unit' = [unit EXCEPT ![k][c] = [step |-> "over", text |-> unit[k][c].text, n |-> 0]]
  /\ \/ jobDone' = unit[k][c].n /\ UNCHANGED dbErrors
     \/ DbError /\ UNCHANGED jobDone
  /\ UNCHANGED <<kind, pages, jobStatus, jobTotal, jobCost, story, row,
                 main, sel, gathered, up, claims, crashes>>

----------------------------------------------------------------------------
(* The end of the pass: the synthesis of an evaluation, and the verdict.   *)

\* The verdicts with something to tell, from every pass, at most MaxSynthCells.
Usable == {<<c, row[c]>> : c \in {d \in Cell : row[d].text = "found"}}

Gather(k) ==
  /\ up /\ main[k] = "gather"
  /\ \/ /\ \E some \in SUBSET Usable :
             /\ Cardinality(some) <= MaxSynthCells
             /\ some # Usable => Cardinality(some) = MaxSynthCells
             /\ gathered' = [gathered EXCEPT ![k] = some]
             /\ Goto(k, IF some = {} THEN "total" ELSE "story")
        /\ UNCHANGED dbErrors
     \/ DbError /\ Goto(k, "total") /\ UNCHANGED gathered
  /\ UNCHANGED <<kind, pages, job, row, sel, unit, up, claims, crashes>>

\* The synthesis call and its save; a failed or unreadable answer is dropped.
Synthesize(k) ==
  /\ up /\ main[k] = "story"
  /\ \/ story' = gathered[k] /\ Goto(k, "bill") /\ UNCHANGED dbErrors
     \/ Goto(k, "total") /\ UNCHANGED <<story, dbErrors>>
     \/ DbError /\ Goto(k, "total") /\ UNCHANGED story
  /\ gathered' = [gathered EXCEPT ![k] = {}]
  /\ UNCHANGED <<kind, pages, jobStatus, jobDone, jobTotal, jobCost, row,
                 sel, unit, up, claims, crashes>>

BillStory(k) ==
  /\ up /\ main[k] = "bill"
  /\ \/ jobCost' = jobCost + 1 /\ UNCHANGED dbErrors
     \/ DbError /\ UNCHANGED jobCost
  /\ Goto(k, "total")
  /\ UNCHANGED <<kind, pages, jobStatus, jobDone, jobTotal, story, row,
                 sel, unit, gathered, up, claims, crashes>>

FullProgress(k) ==
  /\ up /\ main[k] = "total"
  /\ \/ jobDone' = CountUnits(sel[k]) /\ UNCHANGED dbErrors
     \/ DbError /\ UNCHANGED jobDone
  /\ Goto(k, "finish")
  /\ UNCHANGED <<kind, pages, jobStatus, jobTotal, jobCost, story, row,
                 sel, unit, gathered, up, claims, crashes>>

\* If the last UPDATE fails the job stays "generating" until a restart.
Finish(k) ==
  /\ up /\ main[k] \in {"finish", "giveup"}
  /\ \/ /\ jobStatus' = IF main[k] = "finish" THEN "done" ELSE "failed"
        /\ UNCHANGED dbErrors
     \/ DbError /\ UNCHANGED jobStatus
  /\ Goto(k, "over")
  /\ UNCHANGED <<kind, pages, jobDone, jobTotal, jobCost, story, row,
                 sel, unit, gathered, up, claims, crashes>>

----------------------------------------------------------------------------
\* Mutants: no sweep, and a sweep into a status of its own.
NoSweep == jobStatus
SweptInterrupted == IF jobStatus = "generating" THEN "interrupted" ELSE jobStatus

\* MarkGeneratingNotesFailed and MarkGeneratingEvalFailed.
Swept == IF jobStatus = "generating" THEN "failed" ELSE jobStatus

Crash ==
  /\ up /\ crashes < MaxCrashes
  /\ up' = FALSE /\ crashes' = crashes + 1
  /\ main' = [k \in Pass |-> IF main[k] \in {"none", "over"} THEN main[k] ELSE "gone"]
  /\ UNCHANGED <<kind, pages, job, row, sel, unit, gathered, claims, dbErrors>>

\* The error of the sweep is only logged.
Boot ==
  /\ ~up /\ up' = TRUE
  /\ \/ jobStatus' = Swept /\ UNCHANGED dbErrors
     \/ DbError /\ UNCHANGED jobStatus
  /\ UNCHANGED <<kind, pages, jobDone, jobTotal, jobCost, story, row, local,
                 claims, crashes>>

----------------------------------------------------------------------------
Request == (\E labels \in SUBSET Label \ {{}} : Claim(labels)) \/ \E c \in Cell : SaveEdit(c)

MainStep(k) ==
  \/ Plan(k) \/ ZeroProgress(k) \/ Join(k) \/ Gather(k) \/ Synthesize(k)
  \/ BillStory(k) \/ FullProgress(k) \/ Finish(k)

CellStep(k, c) ==
  Draft(k, c) \/ Count(k, c) \/ UpdateProgress(k, c)

Next ==
  \/ Request \/ Crash \/ Boot
  \/ \E k \in Pass : MainStep(k) \/ \E c \in Cell : CellStep(k, c)

Spec == Init /\ [][Next]_vars

\* Goroutines that can run do, the LLM client gives up on a call after its
\* timeout, and a supervisor restarts the process.
Fairness ==
  /\ WF_vars(Boot)
  /\ \A k \in Pass : WF_vars(MainStep(k)) /\ \A c \in Cell : WF_vars(CellStep(k, c))

FairSpec == Spec /\ Fairness

----------------------------------------------------------------------------
(* Properties.                                                             *)

\* The latest pass, the one the job columns are about.
Latest == claims

\* Duplicate requests never run two passes over one run at once, and a pass that
\* runs is one the run row admits to (the promise of the two claims).
OnePass == \A k \in Pass : Running(k) => up /\ k = Latest /\ jobStatus = "generating"

\* What makes OnePass and SettledIsQuiet inductive: no pass beyond the claims, and
\* no cell half done but under a pass that waits for it.
FutureNone == \A k \in Pass : Latest < k => main[k] = "none" /\ unit[k] = Fresh
NoneHalfDone == \A k \in Pass : main[k] \notin {"fan", "gone"} =>
  \A c \in Cells(k) : unit[k][c].step \in {"todo", "over"}
PassInv == FutureNone /\ OnePass /\ NoneHalfDone

\* A poll never reports more units than have finished: the column holds at most
\* the cells counted so far, or the total once every cell is over; and a job that
\* reads "done" is complete: its total is reached and every selected cell of every
\* page holds a row that its own pass wrote.
CountsFinished ==
  claims > 0 =>
    \/ jobDone <= Ticked(Latest)
    \/ jobDone = jobTotal /\ \A p \in pages : Over(Latest, p)
DoneIsComplete ==
  jobStatus = "done" /\ dbErrors = 0 =>
    jobDone = jobTotal /\ \A c \in Cells(Latest) : row[c].pass = Latest
ProgressHonest == CountsFinished /\ DoneIsComplete

\* The cost column is this pass's: one unit per billed call, none of an earlier
\* pass and none lost to two goroutines writing at once.
Billed == {c \in Cells(Latest) : /\ unit[Latest][c].step \in {"ticked", "over"}
                                 /\ unit[Latest][c].text # "error"}
CostIsThisPass ==
  claims > 0 =>
    /\ jobCost <= Cardinality(Billed) + (IF story = {} THEN 0 ELSE 1)
    /\ dbErrors = 0 => Cardinality(Billed) <= jobCost

\* What makes the two inductive: a count on its way to the column is behind the counter; a
\* pass that goes on after its cells waited for all of them; without a database error every
\* cell that began holds its row, and the total is written before the verdict; the
\* synthesis is billed once, after it is saved.
Tally ==
  claims > 0 =>
    /\ jobTotal = CountUnits(sel[Latest])
    /\ \A c \in Cells(Latest) : unit[Latest][c].step = "ticked" => unit[Latest][c].n <= Ticked(Latest)
    /\ main[Latest] \in {"gather", "story", "bill", "total", "finish"} => Joined(Latest)
Complete ==
  /\ jobStatus = "done" => claims > 0
  /\ claims > 0 /\ dbErrors = 0 =>
       /\ \A c \in Cells(Latest) : unit[Latest][c].step # "todo" => row[c].pass = Latest
       /\ main[Latest] = "finish" \/ jobStatus = "done" => jobDone = jobTotal /\ Joined(Latest)
StoryBilled ==
  claims > 0 =>
    /\ main[Latest] = "story" => gathered[Latest] # {}
    /\ main[Latest] = "bill" => story # {} /\ jobCost <= Cardinality(Billed)
AccountInv == Tally /\ Complete /\ StoryBilled /\ CountsFinished /\ CostIsThisPass

\* A stored synthesis cites verdicts as they are stored now: no pass rewrites a
\* row under it.
StoryMatchesRows == story \subseteq Usable

\* What makes it inductive: notes have no synthesis, a pass that still drafts
\* finds none, and what a pass gathered is still current when it saves it.
NotesTellNothing == kind = "notes" =>
  story = {} /\ \A k \in Pass : main[k] \notin {"gather", "story", "bill"}
DraftersTellNothing == story # {} =>
  \A k \in Pass : main[k] \in {"none", "bill", "total", "finish", "over", "gone"}
GatheredCurrent == \A k \in Pass : main[k] = "story" => gathered[k] \subseteq Usable
StoryInv == NotesTellNothing /\ DraftersTellNothing /\ GatheredCurrent /\ StoryMatchesRows

\* Once a job is settled only a new claim or a person touches its columns and its
\* rows: no goroutine of the pass writes late.
SettledIsQuiet ==
  [][jobStatus # "generating" /\ claims' = claims =>
       /\ UNCHANGED job
       /\ \A c \in Cell : row'[c] # row[c] => row'[c].text = "edited"]_vars

\* Every job that starts settles, by its pass or by the restart that killed it,
\* unless the database refused a statement.
EveryPassSettles ==
  jobStatus = "generating" ~> (jobStatus # "generating" \/ dbErrors > 0)
=============================================================================
