------------------------------- MODULE Driver -------------------------------
(***************************************************************************)
(* One drive of the browser.  A session goroutine brings the browser up,   *)
(* logs in, arms the submit guard and then alternates between asking the   *)
(* planner for an action and executing it.  Four other parties act on what *)
(* it reads: the page, whose scripts move it and issue requests; the       *)
(* interceptor, which decides each paused request on a goroutine of its    *)
(* own; the deadline of the drive's context; and the watchdogs, which      *)
(* abandon a session parked in a browser call.                             *)
(*                                                                         *)
(* A call of the browser is one step, and it may never return.  URLs and   *)
(* actions are model values, a step of the trace is the key it was counted *)
(* under; screenshots, digests and reasons are left out.                   *)
(***************************************************************************)
EXTENDS DriveOutcome, Sequences, FiniteSets

CONSTANTS
  Url,         \* URLs of the site, as the page reports them
  Act,         \* actions of the planner, as DedupKey tells them apart
  MaxRequests  \* bound: requests of the page that a guard has to stop

ASSUME DriverAssumption == MaxSteps \in Nat \ {0} /\ MaxRequests \in Nat /\ Url # {}

repeatLimit == 3
NoKey == <<>>           \* a step that executed nothing
NoUrl == "unread"       \* what currentURL answers when the page does not
Seen  == Url \cup {NoUrl}
Key   == Act \X Seen
Request == [id : 1 .. MaxRequests, phase : {"login", "drive"}, kind : {"offsite", "write"}]

Place == {"start", "probe", "intercept", "login", "arm", "base", "top", "plan",
          "settle", "finish", "last", "over", "gone"}

VARIABLES
  \* the session goroutine: its place, parked in a browser call or not, and its locals
  place, parked, verdict, steps, noProgress, cur, key, aerr, before, err,
  \* the options of the drive
  dryRun, hasLogin,
  \* the page, and the interceptor with the requests it has paused
  url, goal, issued, paused, armed, blocked,
  \* the deadline of the context, and what Drive returned: nothing, or a report
  expired, report,
  \* history: the writes that reached the site, and a block recorded while an action settled
  sent, caught

session == <<place, parked, verdict, steps, noProgress, cur, key, aerr, before, err>>
options == <<dryRun, hasLogin>>
page    == <<url, goal>>
traffic == <<issued, paused, armed, blocked, sent, caught>>
outside == <<expired, report>>
vars    == <<session, options, page, traffic, outside>>

Errored == [verdict |-> NoVerdict, n |-> 0]   \* Drive returned an error, and no trace

\* Every variable has a value of its kind; the steps never exceed the budget.
TypeOK ==
  /\ place \in Place /\ parked \in BOOLEAN
  /\ verdict \in Verdict /\ steps \in Seq(Key \cup {NoKey}) /\ Len(steps) \in 0 .. MaxSteps
  /\ noProgress \in 0 .. repeatLimit /\ cur \in Seen /\ key \in Key \cup {NoKey}
  /\ aerr \in {"none", "refused", "error"} /\ before \in Nat
  /\ err \in {"none", "error", "stalled"}
  /\ dryRun \in BOOLEAN /\ hasLogin \in BOOLEAN /\ url \in Url /\ goal \in BOOLEAN
  /\ issued \in 0 .. MaxRequests /\ paused \in SUBSET Request /\ armed \in BOOLEAN
  /\ blocked \in Nat /\ sent \in SUBSET Request
  /\ caught \in BOOLEAN /\ expired \in BOOLEAN
  /\ report \in SUBSET (Trace \cup {Errored})

Init ==
  /\ place = "start" /\ parked = FALSE /\ verdict = NoVerdict /\ steps = <<>>
  /\ noProgress = 0 /\ key = NoKey /\ aerr = "none" /\ before = 0 /\ err = "none"
  /\ dryRun \in BOOLEAN /\ hasLogin \in BOOLEAN
  /\ url \in Url /\ cur = NoUrl /\ goal = FALSE
  /\ issued = 0 /\ paused = {} /\ armed = FALSE /\ blocked = 0
  /\ expired = FALSE /\ report = {} /\ sent = {} /\ caught = FALSE

-----------------------------------------------------------------------------
(* Bringing the browser up.                                                *)

Turn   == <<cur, key, aerr, before>>      \* the locals of one turn of the loop
Locals == <<noProgress, Turn>>
Go(p) == place' = p /\ UNCHANGED <<parked, verdict, steps, err, Locals>>
At(p) == place = p /\ ~parked
\* A turn is over: its locals are gone.
Forget == cur' = NoUrl /\ key' = NoKey /\ aerr' = "none" /\ before' = 0
Elsewhere == UNCHANGED <<options, page, traffic, outside>>

\* The session ends with an error and no trace.
Fails(e) ==
  place' = "over" /\ parked' = FALSE /\ err' = e /\ UNCHANGED <<verdict, steps, Locals>>

\* The session ends with a trace.
Ends(outcome, stuckStep) ==
  /\ place' = "over" /\ verdict' = [outcome |-> outcome, stuckStep |-> stuckStep, infra |-> FALSE]
  /\ UNCHANGED <<parked, err>>

NextUp == [start |-> "probe", probe |-> "intercept", intercept |-> "login"]

\* network.Enable, the render probe and fetch.Enable.
BringUp ==
  /\ place \in DOMAIN NextUp /\ ~parked
  /\ \/ ~expired /\ Go(NextUp[place])
     \/ Fails("error")
  /\ Elsewhere

ArmNever == FALSE  \* mutant
Armed    == dryRun

\* applyLoginOutcome: a stall is the browser's failure, any other error the product's.
Login ==
  /\ At("login")
  /\ \/ (hasLogin => ~expired) /\ Go("arm")
     \/ hasLogin /\ Ends("failed", 0) /\ UNCHANGED <<steps, Locals>>
  /\ Elsewhere

\* The watchdog of one call fires: it kills the browser and the call returns ErrBrowserStalled,
\* which the probe's error does not wrap.
InnerStall ==
  /\ \/ place \in {"start", "intercept"} /\ Fails("stalled")
     \/ place = "probe" /\ Fails("error")
     \/ /\ place = "login" /\ hasLogin
        /\ place' = "over" /\ parked' = FALSE /\ verdict' = Stalled
        /\ UNCHANGED <<steps, err, Locals>>
  /\ Elsewhere

Arm ==
  /\ At("arm") /\ Go("base")
  /\ armed' = (armed \/ Armed)
  /\ UNCHANGED <<options, page, issued, paused, blocked, sent, caught, outside>>

\* The base URL is refused, fails to load, or is loaded.
Base ==
  /\ At("base")
  /\ \/ Ends("failed", 0) /\ UNCHANGED <<steps, Locals, page>>
     \/ ~expired /\ Go("top") /\ url' \in Url /\ goal' \in BOOLEAN
  /\ UNCHANGED <<options, traffic, outside>>

-----------------------------------------------------------------------------
(* The drive loop.                                                         *)

Record(k) == steps' = Append(steps, k)
LoopingPast == At("top") /\ ~expired /\ Len(steps) <= MaxSteps  \* mutant
Looping     == At("top") /\ ~expired /\ Len(steps) < MaxSteps

\* The success check before the planner is asked; the URL read before it may be stale already.
GoalSeen ==
  /\ Looping /\ goal
  /\ Record(NoKey) /\ Ends("success", 0) /\ UNCHANGED Locals
  /\ Elsewhere

Look ==
  /\ Looping
  /\ place' = "plan" /\ cur' \in {url, NoUrl}
  /\ UNCHANGED <<parked, verdict, steps, err, noProgress, key, aerr, before>>
  /\ Elsewhere

LoopEnds ==
  /\ At("top") /\ (expired \/ Len(steps) = MaxSteps)
  /\ Go("last") /\ Elsewhere

PlannerError ==
  /\ place = "plan" /\ Ends("failed", Len(steps)) /\ UNCHANGED <<steps, noProgress>> /\ Forget
  /\ Elsewhere

\* An invalid action counts toward the budget and is not executed.
Reject ==
  /\ place = "plan" /\ place' = "top" /\ Record(NoKey)
  /\ UNCHANGED <<parked, verdict, err, noProgress>> /\ Forget
  /\ Elsewhere

ChooseFinish ==
  /\ place = "plan" /\ place' = "finish"
  /\ UNCHANGED <<parked, verdict, steps, err, noProgress>> /\ Forget
  /\ Elsewhere

\* execAction and the start of the settle delay.
Execute(a) ==
  /\ place = "plan" /\ place' = "settle"
  /\ key' = <<a, cur>> /\ before' = blocked
  /\ aerr' \in {"none", "refused", "error"} /\ (expired => aerr' # "none")
  /\ UNCHANGED <<parked, verdict, steps, err, noProgress, cur>>
  /\ Elsewhere

WasBlockedTwice == blocked > before + 1  \* mutant
WasBlocked      == blocked > before
Repeated == \E i \in 1 .. Len(steps) : steps[i] = key
ProgressKept(read) == IF Repeated /\ read = cur THEN noProgress + 1 ELSE noProgress  \* mutant
Progress(read) == IF Repeated /\ read = cur THEN noProgress + 1 ELSE 0

\* The outcome of the action, judged after the settle delay.
JudgeRefused ==
  /\ At("settle") /\ (WasBlocked \/ aerr = "refused")
  /\ Record(key) /\ Ends("failed", Len(steps) + 1) /\ UNCHANGED noProgress /\ Forget
  /\ Elsewhere

JudgeProgress ==
  /\ At("settle") /\ ~WasBlocked /\ aerr # "refused"
  /\ Record(key)
  /\ \E read \in {url, NoUrl} : noProgress' = Progress(read)
  /\ IF noProgress' >= repeatLimit
       THEN Ends("stuck", Len(steps) + 1)
       ELSE place' = "top" /\ UNCHANGED <<parked, verdict, err>>
  /\ Forget /\ Elsewhere

\* finish is advisory: only the assertion makes it a success.
FinishTrusted == TRUE  \* mutant
FinishSeen    == goal /\ ~expired
Finish ==
  /\ At("finish")
  /\ Record(NoKey) /\ UNCHANGED Locals
  /\ \/ FinishSeen /\ Ends("success", 0)
     \/ Ends("stuck", Len(steps) + 1)
  /\ Elsewhere

\* The last check, after the budget or the deadline is spent.
Last ==
  /\ At("last")
  /\ \/ goal /\ ~expired /\ Ends("success", 0)
     \/ Ends("stuck", Len(steps))
  /\ UNCHANGED <<steps, Locals>>
  /\ Elsewhere

-----------------------------------------------------------------------------
(* The page, the interceptor, the deadline and the watchdog of the drive.  *)

HasPage == place \in {"base", "top", "plan", "settle", "finish", "last"}
           \/ (place \in {"login", "arm"} /\ hasLogin)

\* A script or a late navigation moves the page.
Move ==
  /\ HasPage /\ url' \in Url /\ goal' \in BOOLEAN
  /\ UNCHANGED <<session, options, traffic, outside>>

\* The page issues a request that Fetch pauses.
Issue(kind) ==
  /\ HasPage /\ issued < MaxRequests
  /\ issued' = issued + 1
  /\ paused' = paused \cup {[id |-> issued + 1, kind |-> kind,
        phase |-> IF place \in {"login", "arm"} THEN "login" ELSE "drive"]}
  /\ UNCHANGED <<session, options, page, armed, blocked, sent, caught, outside>>

\* handlePaused: an offsite document is aborted and counted, a write aborted once armed.
Decide(r) ==
  /\ HasPage /\ r \in paused
  /\ paused' = paused \ {r}
  /\ blocked' = IF r.kind = "offsite" THEN blocked + 1 ELSE blocked
  /\ sent' = IF r.kind = "write" /\ ~armed THEN sent \cup {r} ELSE sent
  /\ caught' = (caught \/ (r.kind = "offsite" /\ place = "settle"))
  /\ UNCHANGED <<session, options, page, issued, armed, outside>>

\* A browser call does not return.
InBrowser ==
  \/ place \in {"start", "probe", "intercept", "base", "top", "settle", "finish", "last"}
  \/ place = "login" /\ hasLogin
Park ==
  /\ ~parked /\ InBrowser
  /\ parked' = TRUE
  /\ UNCHANGED <<place, verdict, steps, err, Locals, options, page, traffic, outside>>

Expire ==
  /\ ~expired /\ expired' = TRUE
  /\ UNCHANGED <<session, options, page, traffic, report>>

\* The watchdog of the drive: grace after the deadline it kills the browser and abandons the
\* session, whose steps it does not read.
HardNever == FALSE  \* mutant
Hard      == expired
\* mutant: the steps of the abandoned session are recovered
StalledSalvage == [verdict |-> Stalled, n |-> Len(steps)]
StalledReport  == NoTrace
Fire ==
  /\ Hard /\ report = {}
  /\ report' = {StalledReport} /\ place' = "gone"
  /\ UNCHANGED <<parked, verdict, steps, err, Locals, options, page, traffic, expired>>

\* Drive returns what the session did: its trace, or an error, of which a stall of the browser is
\* reported like its own.
OwnTrace == [verdict |-> verdict, n |-> Len(steps)]
Deliver ==
  /\ place = "over" /\ report = {}
  /\ report' = {IF err = "stalled" THEN NoTrace ELSE IF err = "error" THEN Errored ELSE OwnTrace}
  /\ UNCHANGED <<session, options, page, traffic, expired>>

Session == \/ BringUp \/ Login \/ InnerStall \/ Arm \/ Base
           \/ GoalSeen \/ Look \/ LoopEnds \/ PlannerError \/ Reject \/ ChooseFinish
           \/ (\E a \in Act : Execute(a))
           \/ JudgeRefused \/ JudgeProgress \/ Finish \/ Last
World == \/ Move \/ (\E kind \in {"offsite", "write"} : Issue(kind))
         \/ (\E r \in paused : Decide(r)) \/ Park
Next == Session \/ World \/ Expire \/ Fire \/ Deliver

Spec == Init /\ [][Next]_vars

\* The goroutine of the session runs, the deadline comes, and the watchdog and Drive are awake.
FairSpec == Spec /\ WF_vars(Session) /\ WF_vars(Expire) /\ WF_vars(Fire) /\ WF_vars(Deliver)

-----------------------------------------------------------------------------
(* Properties.                                                             *)

\* A drive that was cut off reports nothing it did, whatever the session still does; any other
\* drive reports the trace its session ended with, or the error that kept it from starting.
ReportsObserved ==
  \A r \in report : \/ r = Errored /\ place = "over" /\ steps = <<>>
                    \/ r = NoTrace
                    \/ r = OwnTrace /\ r \in Observed /\ place = "over"

\* In a dry run no write of the page reaches the site once the login phase is over, whenever the
\* interceptor gets to decide it.
DryRunWritesNothing == dryRun => \A r \in sent : r.phase = "login"

\* A navigation the interceptor aborts while the action that led to it settles fails the drive:
\* it does not go on, and nothing seen later makes it a success.
InTimeBlockFails == caught => place \in {"settle", "gone"} \/ verdict.outcome = "failed"

\* A drive that is given up for want of progress was spinning: each of the last three actions it
\* executed had been executed before, at the same URL, whatever was rejected in between.
Executed(from) == {i \in from .. Len(steps) : steps[i] # NoKey}
Spinning(n) == \E from \in 1 .. Len(steps) + 1 :
  /\ Cardinality(Executed(from)) >= n
  /\ \A i \in Executed(from) : \E j \in 1 .. i - 1 : steps[j] = steps[i]
StuckWasSpinning == noProgress = repeatLimit => Spinning(repeatLimit)

\* Only an observation of the goal makes a drive a success, never the planner's word or a probe
\* of a page that is gone with the deadline.
SuccessIsSeen ==
  [][verdict.outcome # "success" /\ verdict'.outcome = "success" => goal /\ ~expired]_vars

\* Drive returns, though any call of the browser may park for ever.
DriveReturns == <>(report # {})
=============================================================================
