---------------------------- MODULE TargetConfig ----------------------------
(***************************************************************************)
(* What a person sets up for a target, and who reads it: the login recipe  *)
(* with its credentials (handlers/auth_recipe.go, internal/db), the audit  *)
(* configuration with the driving flags (handlers/audit_config.go), the    *)
(* login test, the start of a walkthrough, and the worker as it takes up a *)
(* run (internal/worker, ProcessRun).                                      *)
(***************************************************************************)
EXTENDS Service, Recipe

CONSTANTS
  AuthForms,   \* what is submitted on the authentication card
  AuditForms,  \* what is submitted on the audit card
  Drafted,     \* goals a model infers
  Answers      \* what a name resolution may give

ASSUME FormAssumption == \A form \in AuditForms :
  form.success \in BOOLEAN /\ form.driving \in BOOLEAN /\ form.real \in BOOLEAN

VARIABLES
  recipes,  \* the login_recipes row of each target
  audits    \* the target_audit_config row of each target

config == <<recipes, audits>>

NoCreds  == [r \in Refs |-> ""]
NoRecipe == [steps |-> <<>>, creds |-> NoCreds]
NoAudit  == [goal |-> "", success |-> FALSE, inferred |-> FALSE, confirmed |-> FALSE]

InitConfig ==
  /\ recipes = [t \in Target |-> NoRecipe]
  /\ audits  = [t \in Target |-> NoAudit]

\* A target's hosts; a label that is no URL gives none.
Hosted(t, u, answer) == t \notin PushTarget /\ CheckURL(u, answer)

\* A blank field keeps the stored value.
resolveCreds(stored, form) == [r \in Refs |-> IF form.creds[r] = "" THEN stored.creds[r] ELSE form.creds[r]]

\* Mutant: what is stored already is taken to have its credentials.
CoveredOnce(stored, form) ==
  stored # NoRecipe \/ RequiredRefs(form.steps) \subseteq Map(resolveCreds(stored, form))
Covered(stored, form) == RequiredRefs(form.steps) \subseteq Map(resolveCreds(stored, form))

\* The form is checked, its URLs resolved, and the stored credentials read.
SubmitAuth(r, t) ==
  /\ \E form \in AuthForms : \E answer \in [GotoURLs(form.steps) -> Answers] :
       LET ok == /\ ParseSteps(form.steps) /\ Validate(form.steps)
                 /\ \A u \in GotoURLs(form.steps) : Hosted(t, u, answer[u])
                 /\ Covered(recipes[t], form)
       IN  Begin(r, IF ok THEN [op |-> "SetLoginRecipe", target |-> t,
                                row |-> [steps |-> form.steps, creds |-> resolveCreds(recipes[t], form)]]
                    ELSE Over)
  /\ UNCHANGED <<targets, limits, heard, now, config>>

SetLoginRecipe(r) ==
  /\ At(r, "SetLoginRecipe") /\ Leave(r)
  /\ recipes' = [recipes EXCEPT ![inflight[r].target] = inflight[r].row]
  /\ targets' = [targets EXCEPT ![inflight[r].target].mode = "login"]
  /\ UNCHANGED <<limits, heard, now, audits>>

DeleteLoginRecipe(r, t) ==
  /\ Begin(r, Over)
  /\ recipes' = [recipes EXCEPT ![t] = NoRecipe]
  /\ targets' = [targets EXCEPT ![t].mode = "none"]
  /\ UNCHANGED <<limits, heard, now, audits>>

\* The limiter comes first, so a test without a recipe counts too.
LoginTest(r, t) == \E time \in Instants :
  /\ Called(time)
  /\ IF ~Admits("login", t, time) THEN Begin(r, Over) /\ UNCHANGED <<limits, heard>>
     ELSE /\ Pass("login", t, time)
          /\ Begin(r, IF recipes[t] = NoRecipe THEN Over
                      ELSE [op |-> "probe", target |-> t, mode |-> "login", login |-> recipes[t]])
  /\ UNCHANGED <<targets, config>>

\* The worker has claimed a run: it reads the target, then its recipe.
ProcessRun(r, t) ==
  /\ Begin(r, [op |-> "buildLogin", next |-> "crawl", target |-> t, mode |-> targets[t].mode,
               login |-> NoRecipe, done |-> {}])
  /\ UNCHANGED <<targets, limits, heard, now, config>>

StoredLogin(job) == IF job.mode = "login" THEN recipes[job.target] ELSE NoRecipe

\* For the worker and for a drive.  The recipe may be gone by now, and the run fails.
buildLogin(r) ==
  /\ At(r, "buildLogin")
  /\ LET job == inflight[r]
         row == StoredLogin(job)
     IN  IF job.mode = "login" /\ ~Validate(row.steps) THEN Leave(r)
         ELSE Proceed(r, [job EXCEPT !.op = job.next, !.login = row])
  /\ UNCHANGED <<targets, limits, heard, now, config>>

(* The audit configuration.                                                *)
\* The model is shown the latest run's landing page; a reply may lack a goal.
InferConfig == Drafted \cup {""}

\* Its answer replaces the whole row.
handleInferAuditConfig(r, t) ==
  /\ \E goal \in InferConfig : Begin(r, [op |-> "StoreDraft", target |-> t, goal |-> goal])
  /\ UNCHANGED <<targets, limits, heard, now, config>>

\* Mutant: keeps the success condition that was there.
DraftBeside(prev, goal) == [prev EXCEPT !.goal = goal, !.inferred = TRUE, !.confirmed = FALSE]
Draft(prev, goal) == [NoAudit EXCEPT !.goal = goal, !.inferred = TRUE]

StoreDraft(r) ==
  /\ At(r, "StoreDraft") /\ Leave(r)
  /\ audits' = [audits EXCEPT ![inflight[r].target] = Draft(@, inflight[r].goal)]
  /\ UNCHANGED <<targets, limits, heard, now, recipes>>

\* The provenance flag is read before the row is written.
handleSaveAuditConfig(r, t) ==
  /\ \E form \in AuditForms :
       Begin(r, [op |-> "SetTargetAuditConfig", target |-> t, driving |-> form.driving, real |-> form.real,
                 row |-> [goal |-> form.goal, success |-> form.success,
                          inferred |-> audits[t].inferred, confirmed |-> TRUE]])
  /\ UNCHANGED <<targets, limits, heard, now, config>>

SetTargetAuditConfig(r) ==
  /\ At(r, "SetTargetAuditConfig")
  /\ audits' = [audits EXCEPT ![inflight[r].target] = inflight[r].row]
  /\ Proceed(r, [inflight[r] EXCEPT !.op = "SetDrivingConfig"])
  /\ UNCHANGED <<targets, limits, heard, now, recipes>>

SetDrivingConfig(r) ==
  /\ At(r, "SetDrivingConfig") /\ Leave(r)
  /\ targets' = [targets EXCEPT ![inflight[r].target].driving = inflight[r].driving,
                                ![inflight[r].target].real = inflight[r].real]
  /\ UNCHANGED <<limits, heard, now, config>>

\* A walkthrough is asked for: the target is read, then the configuration.
handleStartWalkthrough(r, t) ==
  /\ Begin(r, IF targets[t].mode = "plugin" \/ ~targets[t].driving THEN Over
              ELSE [op |-> "GetTargetAuditConfig", target |-> t, real |-> targets[t].real])
  /\ UNCHANGED <<targets, limits, heard, now, config>>

GetTargetAuditConfig(r) ==
  /\ At(r, "GetTargetAuditConfig")
  /\ LET row == audits[inflight[r].target]
     IN  IF row.goal = "" \/ ~row.success THEN Leave(r)
         ELSE Proceed(r, [op |-> "Run", next |-> "drive", target |-> inflight[r].target, goal |-> row,
                          success |-> NoAudit, dry |-> ~inflight[r].real, mode |-> "none", login |-> NoRecipe])
  /\ UNCHANGED <<targets, limits, heard, now, config>>

\* The drive's goroutine reads everything anew: the target, which must still be
\* driven and can only tighten the dry run, then the configuration, whose
\* success condition it takes; the goal stays the one in the walkthrough's row.
Run(r) ==
  /\ At(r, "Run")
  /\ LET job == inflight[r]
         t   == targets[job.target]
     IN  IF ~t.driving THEN Leave(r)
         ELSE Proceed(r, [job EXCEPT !.op = "Success", !.mode = t.mode, !.dry = @ \/ ~t.real])
  /\ UNCHANGED <<targets, limits, heard, now, config>>

Success(r) ==
  /\ At(r, "Success")
  /\ LET row == audits[inflight[r].target]
     IN  IF ~row.success THEN Leave(r)
         ELSE Proceed(r, [inflight[r] EXCEPT !.op = "buildLogin", !.success = row])
  /\ UNCHANGED <<targets, limits, heard, now, config>>

ConfigStep(r) ==
  \/ \E t \in Target : \/ SubmitAuth(r, t) \/ DeleteLoginRecipe(r, t) \/ LoginTest(r, t) \/ ProcessRun(r, t)
                       \/ handleInferAuditConfig(r, t) \/ handleSaveAuditConfig(r, t)
                       \/ handleStartWalkthrough(r, t)
  \/ SetLoginRecipe(r) \/ buildLogin(r) \/ StoreDraft(r) \/ SetTargetAuditConfig(r)
  \/ SetDrivingConfig(r) \/ GetTargetAuditConfig(r) \/ Run(r) \/ Success(r)
=============================================================================
