--------------------------- MODULE RequestsProofs ---------------------------
(* Proofs about Requests for any targets, requests, keys, forms, payloads,  *)
(* limits, drafts and replies: what the records in flight carry from one    *)
(* statement to the next, what the limiters may forget, and what the gate   *)
(* makes of an evaluation.                                                  *)
EXTENDS Requests, FiniteSetTheorems, NaturalsInduction, TLAPS

(***************************************************************************)
(* A step gives the record of one request a new value and leaves the other *)
(* records alone.                                                          *)
(***************************************************************************)
Sound(job) == Shaped(job) /\ LoginTaken(job) /\ GoalTaken(job)

LEMMA Moved ==
  ASSUME DOMAIN inflight = Request, JobsSound,
         NEW r \in Request, NEW job, Sound(job), Proceed(r, job)
  PROVE  DOMAIN inflight' = Request /\ JobsSound'
<1>1. /\ DOMAIN inflight' = Request
      /\ \A x \in Request : inflight'[x] = IF x = r THEN job ELSE inflight[x]
  BY DEF Proceed
<1>2. \A x \in Request : Sound(inflight[x])
  BY DEF JobsSound, Sound
<1>3. \A x \in Request : Sound(inflight'[x])
  BY <1>1, <1>2
<1> QED BY <1>1, <1>3 DEF JobsSound, Sound, Shaped, LoginTaken, GoalTaken

\* A record of a statement outside the configuration and the pushes.
LEMMA Elsewhere ==
  ASSUME NEW job, job.op \in {"idle", "over", "cell"}
  PROVE  Sound(job)
BY DEF Sound, Shaped, LoginTaken, GoalTaken, OfTarget

LEMMA EndsHere ==
  ASSUME DOMAIN inflight = Request, JobsSound, NEW r \in Request, Leave(r)
  PROVE  DOMAIN inflight' = Request /\ JobsSound'
<1>1. Sound(Over)
  BY Elsewhere DEF Over
<1>2. Proceed(r, Over)
  BY DEF Leave
<1> QED
  BY <1>1, <1>2, Moved

(***************************************************************************)
(* The configuration: a request carries what it read from one row to the   *)
(* statement that writes another.                                          *)
(***************************************************************************)
RowsSound ==
  /\ targets \in [Target -> [mode : {"none", "login", "plugin"}, driving : BOOLEAN, real : BOOLEAN]]
  /\ DOMAIN recipes = Target /\ \A t \in Target : DOMAIN recipes[t].creds = Refs
  /\ audits \in [Target -> AuditRow]
  /\ \A t \in Target : targets[t].mode = "login" <=> recipes[t] # NoRecipe
  /\ \A t \in Target : recipes[t] # NoRecipe => Armed(recipes[t])
  /\ \A t \in Target : audits[t].success => audits[t].confirmed

Stored == DOMAIN inflight = Request /\ JobsSound /\ RowsSound

LEMMA SomeRecipe == ~Validate(NoRecipe.steps) /\ ~Armed(NoRecipe)
BY DEF Armed, Validate, NoRecipe

LEMMA NoRecipeTyped == DOMAIN NoRecipe.creds = Refs
BY DEF NoRecipe, NoCreds

LEMMA NoAuditTyped == NoAudit \in AuditRow
BY DEF NoAudit, AuditRow, Goals

\* Steps that write no row.
LEMMA NoRowWritten ==
  ASSUME Stored, NEW r \in Request, NEW job, Sound(job), Proceed(r, job),
         UNCHANGED <<targets, recipes, audits>>
  PROVE  Stored'
<1>1. DOMAIN inflight' = Request /\ JobsSound'
  BY Moved DEF Stored
<1>2. RowsSound'
  BY DEF Stored, RowsSound
<1> QED
  BY <1>1, <1>2 DEF Stored

\* Writing a recipe and the mode of its target in one transaction.
LEMMA RecipeWritten ==
  ASSUME RowsSound, NEW t \in Target, NEW row, NEW mode \in {"none", "login"},
         DOMAIN row.creds = Refs,
         mode = "login" => Armed(row),
         mode = "none" => row = NoRecipe,
         recipes' = [recipes EXCEPT ![t] = row],
         targets' = [targets EXCEPT ![t].mode = mode],
         UNCHANGED audits
  PROVE  RowsSound'
<1> USE DEF RowsSound
<1>1. \A x \in Target : recipes'[x] = IF x = t THEN row ELSE recipes[x]
  OBVIOUS
<1>2. /\ targets' \in [Target -> [mode : {"none", "login", "plugin"}, driving : BOOLEAN, real : BOOLEAN]]
      /\ \A x \in Target : targets'[x].mode = IF x = t THEN mode ELSE targets[x].mode
  OBVIOUS
<1>3. mode = "login" <=> row # NoRecipe
  BY SomeRecipe
<1>4. \A x \in Target : recipes'[x] # NoRecipe => Armed(recipes'[x])
  BY <1>1, <1>3
<1>5. \A x \in Target : targets'[x].mode = "login" <=> recipes'[x] # NoRecipe
  BY <1>1, <1>2, <1>3
<1>6. /\ DOMAIN recipes' = Target /\ \A x \in Target : DOMAIN recipes'[x].creds = Refs
      /\ (\A x \in Target : recipes[x] # NoRecipe => Armed(recipes[x]))'
  BY <1>1, <1>4 DEF Armed
<1> QED
  BY <1>2, <1>5, <1>6

\* Writing an audit configuration that a person confirmed, or a draft.
LEMMA AuditWritten ==
  ASSUME RowsSound, NEW t \in Target, NEW row \in AuditRow,
         row.success => row.confirmed,
         audits' = [audits EXCEPT ![t] = row],
         UNCHANGED <<targets, recipes>>
  PROVE  RowsSound'
<1>1. /\ audits' \in [Target -> AuditRow]
      /\ \A x \in Target : audits'[x].success => audits'[x].confirmed
  BY DEF RowsSound
<1> QED
  BY <1>1 DEF RowsSound

LEMMA Begins ==
  ASSUME NEW r, NEW job, Begin(r, job)
  PROVE  Proceed(r, job)
BY DEF Begin, Proceed

LEMMA OverSound == Sound(Over)
BY Elsewhere DEF Over

\* The authentication card and the login test.
LEMMA SubmitAuthStored ==
  ASSUME Stored, NEW r \in Request, NEW t \in Target, SubmitAuth(r, t)
  PROVE  Stored'
<1>1. PICK form \in AuthForms : \E answer \in [GotoURLs(form.steps) -> Answers] :
        LET ok == /\ ParseSteps(form.steps) /\ Validate(form.steps)
                  /\ \A u \in GotoURLs(form.steps) : Hosted(t, u, answer[u])
                  /\ Covered(recipes[t], form)
        IN  Begin(r, IF ok THEN [op |-> "SetLoginRecipe", target |-> t,
                                 row |-> [steps |-> form.steps, creds |-> resolveCreds(recipes[t], form)]]
                     ELSE Over)
  BY DEF SubmitAuth
<1> DEFINE row == [steps |-> form.steps, creds |-> resolveCreds(recipes[t], form)]
           ok(answer) == /\ ParseSteps(form.steps) /\ Validate(form.steps)
                         /\ \A u \in GotoURLs(form.steps) : Hosted(t, u, answer[u])
                         /\ Covered(recipes[t], form)
           job == [op |-> "SetLoginRecipe", target |-> t, row |-> row]
<1>2. row.steps = form.steps /\ row.creds = resolveCreds(recipes[t], form)
  OBVIOUS
<1>3. DOMAIN row.creds = Refs
  BY <1>2 DEF resolveCreds
<1>4. ASSUME NEW answer, ok(answer) PROVE Armed(row)
  BY <1>2, <1>4 DEF Armed, Hosted, CheckURL, Covered
<1>5. ASSUME Armed(row) PROVE Sound(job)
  <2> HIDE DEF row
  <2>1. job.op = "SetLoginRecipe" /\ job.target = t /\ job.row = row
    OBVIOUS
  <2> HIDE DEF job
  <2> QED
    BY <1>3, <1>5, <2>1 DEF Sound, Shaped, LoginTaken, GoalTaken
<1>6. \/ Begin(r, Over)
      \/ Begin(r, job) /\ Armed(row)
  BY <1>1, <1>4
<1> HIDE DEF job, row
<1> QED
  BY <1>5, <1>6, Begins, OverSound, NoRowWritten DEF SubmitAuth, config

LEMMA SetLoginRecipeStored ==
  ASSUME Stored, NEW r \in Request, SetLoginRecipe(r)
  PROVE  Stored'
<1> DEFINE t == inflight[r].target
           row == inflight[r].row
<1>1. t \in Target /\ DOMAIN row.creds = Refs /\ Armed(row)
  BY DEF SetLoginRecipe, At, Stored, JobsSound, Shaped, LoginTaken, OfTarget
<1>2. /\ recipes' = [recipes EXCEPT ![t] = row]
      /\ targets' = [targets EXCEPT ![t].mode = "login"]
      /\ UNCHANGED audits
  BY DEF SetLoginRecipe
<1>3. RowsSound'
  <2> HIDE DEF t, row
  <2> QED
    BY <1>1, <1>2, RecipeWritten DEF Stored
<1> QED
  BY <1>3, EndsHere DEF Stored, SetLoginRecipe

LEMMA DeleteLoginRecipeStored ==
  ASSUME Stored, NEW r \in Request, NEW t \in Target, DeleteLoginRecipe(r, t)
  PROVE  Stored'
<1>1. RowsSound'
  BY RecipeWritten, NoRecipeTyped DEF Stored, DeleteLoginRecipe
<1>2. DOMAIN inflight' = Request /\ JobsSound'
  BY Begins, OverSound, Moved DEF Stored, DeleteLoginRecipe
<1> QED
  BY <1>1, <1>2 DEF Stored

LEMMA LoginTestStored ==
  ASSUME Stored, NEW r \in Request, NEW t \in Target, LoginTest(r, t)
  PROVE  Stored'
<1> DEFINE job == [op |-> "probe", target |-> t, mode |-> "login", login |-> recipes[t]]
<1>1. job.op = "probe" /\ job.login = recipes[t]
  OBVIOUS
<1>2. recipes[t] # NoRecipe => Sound(job)
  <2> HIDE DEF job
  <2> QED
    BY <1>1 DEF Stored, RowsSound, Sound, Shaped, LoginTaken, GoalTaken, OfTarget
<1>3. \/ Begin(r, Over)
      \/ Begin(r, job) /\ recipes[t] # NoRecipe
  BY DEF LoginTest
<1> HIDE DEF job
<1> QED
  BY <1>2, <1>3, Begins, OverSound, NoRowWritten DEF LoginTest, config

\* A run or a drive is taken up; its login is read once more.
LEMMA ProcessRunStored ==
  ASSUME Stored, NEW r \in Request, NEW t \in Target, ProcessRun(r, t)
  PROVE  Stored'
<1> DEFINE job == [op |-> "buildLogin", next |-> "crawl", target |-> t, mode |-> targets[t].mode,
                   login |-> NoRecipe, done |-> {}]
<1>1. /\ job.op = "buildLogin" /\ job.next = "crawl" /\ job.target = t
      /\ DOMAIN job = CrawlFields
  BY DEF CrawlFields
<1>2. Begin(r, job)
  BY DEF ProcessRun
<1> HIDE DEF job
<1>3. Sound(job)
  BY <1>1 DEF Sound, Shaped, LoginTaken, GoalTaken
<1> QED
  BY <1>2, <1>3, Begins, NoRowWritten DEF ProcessRun, config

LEMMA buildLoginStored ==
  ASSUME Stored, NEW r \in Request, buildLogin(r)
  PROVE  Stored'
<1> DEFINE job == inflight[r]
           row == StoredLogin(job)
           ready == [job EXCEPT !.op = job.next, !.login = row]
<1>1. Sound(job) /\ job.op = "buildLogin"
  BY DEF Stored, JobsSound, Sound, buildLogin, At
<1>2. job.target \in Target
  BY <1>1 DEF Sound, Shaped, OfTarget
<1>3. \/ Leave(r)
      \/ Proceed(r, ready) /\ (job.mode = "login" => Validate(row.steps))
  BY DEF buildLogin
<1>4. ASSUME job.mode = "login" => Validate(row.steps) PROVE Sound(ready)
  <2>1. job.mode = "login" => Armed(row)
    BY <1>2, <1>4, SomeRecipe DEF StoredLogin, Stored, RowsSound
  <2> HIDE DEF row
  <2>2. CASE job.next = "drive"
    <3>1. /\ ready.op = "drive" /\ ready.mode = job.mode /\ ready.login = row
          /\ ready.goal = job.goal /\ ready.success = job.success
      BY <1>1, <2>2 DEF Sound, Shaped, DriveFields, CrawlFields
    <3>2. job.goal \in Stated /\ job.success \in Checked
      BY <1>1, <2>2 DEF Sound, GoalTaken
    <3> HIDE DEF ready, job
    <3>3. Shaped(ready)
      BY <3>1 DEF Shaped, OfTarget
    <3>4. LoginTaken(ready)
      BY <2>1, <3>1 DEF LoginTaken
    <3>5. GoalTaken(ready)
      BY <3>1, <3>2 DEF GoalTaken
    <3> QED
      BY <3>3, <3>4, <3>5 DEF Sound
  <2>3. CASE job.next = "crawl"
    <3>1. /\ ready.op = "crawl" /\ ready.mode = job.mode /\ ready.login = row
          /\ DOMAIN ready = CrawlFields
      BY <1>1, <2>3 DEF Sound, Shaped, DriveFields, CrawlFields
    <3> HIDE DEF ready, job
    <3> QED
      BY <2>1, <3>1 DEF Sound, Shaped, LoginTaken, GoalTaken, OfTarget
  <2> QED
    BY <1>1, <2>2, <2>3 DEF Sound, Shaped
<1> HIDE DEF ready
<1> QED
  BY <1>3, <1>4, OverSound, NoRowWritten DEF buildLogin, Leave, config

\* The audit card, the inference, and the start of a walkthrough.
LEMMA InferStored ==
  ASSUME Stored, NEW r \in Request, NEW t \in Target, handleInferAuditConfig(r, t)
  PROVE  Stored'
<1>1. PICK goal \in InferConfig : Begin(r, [op |-> "StoreDraft", target |-> t, goal |-> goal])
  BY DEF handleInferAuditConfig
<1> DEFINE job == [op |-> "StoreDraft", target |-> t, goal |-> goal]
<1>2. job.op = "StoreDraft" /\ job.target = t /\ job.goal \in Goals
  BY DEF InferConfig, Goals
<1> HIDE DEF job
<1>3. Sound(job)
  BY <1>2 DEF Sound, Shaped, LoginTaken, GoalTaken
<1> QED
  BY <1>1, <1>3, Begins, NoRowWritten DEF handleInferAuditConfig, config, job

LEMMA StoreDraftStored ==
  ASSUME Stored, NEW r \in Request, StoreDraft(r)
  PROVE  Stored'
<1> DEFINE t == inflight[r].target
           row == Draft(audits[t], inflight[r].goal)
<1>1. t \in Target /\ inflight[r].goal \in Goals
  BY DEF StoreDraft, At, Stored, JobsSound, Shaped, OfTarget
<1>2. row \in AuditRow /\ ~row.success
  BY <1>1, NoAuditTyped DEF Draft, NoAudit, AuditRow
<1>3. audits' = [audits EXCEPT ![t] = row]
  BY <1>1 DEF StoreDraft
<1>4. RowsSound'
  <2> HIDE DEF t, row
  <2> QED
    BY <1>1, <1>2, <1>3, AuditWritten DEF StoreDraft, Stored
<1> QED
  BY <1>4, EndsHere DEF Stored, StoreDraft

LEMMA SaveStored ==
  ASSUME Stored, NEW r \in Request, NEW t \in Target, handleSaveAuditConfig(r, t)
  PROVE  Stored'
<1>1. PICK form \in AuditForms :
        Begin(r, [op |-> "SetTargetAuditConfig", target |-> t, driving |-> form.driving, real |-> form.real,
                  row |-> [goal |-> form.goal, success |-> form.success,
                           inferred |-> audits[t].inferred, confirmed |-> TRUE]])
  BY DEF handleSaveAuditConfig
<1> DEFINE row == [goal |-> form.goal, success |-> form.success,
                   inferred |-> audits[t].inferred, confirmed |-> TRUE]
           job == [op |-> "SetTargetAuditConfig", target |-> t, driving |-> form.driving,
                   real |-> form.real, row |-> row]
<1>2. row \in Saved
  <2>1. audits[t].inferred \in BOOLEAN /\ form.success \in BOOLEAN /\ form.goal \in Goals
    BY FormAssumption DEF Stored, RowsSound, AuditRow, Goals
  <2> QED
    BY <2>1 DEF Saved, AuditRow
<1>3. Sound(job)
  <2> HIDE DEF row
  <2>1. /\ job.op = "SetTargetAuditConfig" /\ job.target = t /\ job.row = row
        /\ job.driving \in BOOLEAN /\ job.real \in BOOLEAN
        /\ DOMAIN job = {"op", "target", "driving", "real", "row"}
    BY FormAssumption
  <2> HIDE DEF job
  <2> QED
    BY <1>2, <2>1 DEF Sound, Shaped, LoginTaken, GoalTaken, Saved
<1>4. Begin(r, job)
  BY <1>1
<1> HIDE DEF job
<1> QED
  BY <1>3, <1>4, Begins, NoRowWritten DEF handleSaveAuditConfig, config

LEMMA SetTargetAuditConfigStored ==
  ASSUME Stored, NEW r \in Request, SetTargetAuditConfig(r)
  PROVE  Stored'
<1> DEFINE job == inflight[r]
           next == [job EXCEPT !.op = "SetDrivingConfig"]
<1>1. Sound(job) /\ job.op = "SetTargetAuditConfig"
  BY DEF Stored, JobsSound, Sound, SetTargetAuditConfig, At
<1>2. /\ job.target \in Target /\ job.row \in Saved
      /\ DOMAIN job = {"op", "target", "driving", "real", "row"}
      /\ job.driving \in BOOLEAN /\ job.real \in BOOLEAN
  BY <1>1 DEF Sound, Shaped, GoalTaken, OfTarget
<1>3. Sound(next)
  <2>1. /\ next.op = "SetDrivingConfig" /\ next.target = job.target /\ next.row = job.row
        /\ next.driving = job.driving /\ next.real = job.real
        /\ DOMAIN next = {"op", "target", "driving", "real", "row"}
    BY <1>2
  <2> HIDE DEF next, job
  <2> QED
    BY <1>2, <2>1 DEF Sound, Shaped, LoginTaken, GoalTaken, Saved
<1>4. DOMAIN inflight' = Request /\ JobsSound'
  BY <1>3, Moved DEF SetTargetAuditConfig, Stored
<1>5. RowsSound'
  BY <1>2, AuditWritten DEF SetTargetAuditConfig, Stored, Saved
<1> QED
  BY <1>4, <1>5 DEF Stored

LEMMA SetDrivingConfigStored ==
  ASSUME Stored, NEW r \in Request, SetDrivingConfig(r)
  PROVE  Stored'
<1> DEFINE t == inflight[r].target
<1>1. t \in Target /\ inflight[r].driving \in BOOLEAN /\ inflight[r].real \in BOOLEAN
  BY DEF SetDrivingConfig, At, Stored, JobsSound, Shaped, OfTarget
<1>2. targets' = [targets EXCEPT ![t].driving = inflight[r].driving, ![t].real = inflight[r].real]
  BY DEF SetDrivingConfig
<1>3. /\ targets' \in [Target -> [mode : {"none", "login", "plugin"}, driving : BOOLEAN, real : BOOLEAN]]
      /\ \A x \in Target : targets'[x].mode = targets[x].mode
  <2> DEFINE d == inflight[r].driving
             e == inflight[r].real
             once == [targets EXCEPT ![t].driving = d]
             Flags == [mode : {"none", "login", "plugin"}, driving : BOOLEAN, real : BOOLEAN]
  <2>1. targets \in [Target -> Flags] /\ t \in Target /\ d \in BOOLEAN /\ e \in BOOLEAN
    BY <1>1 DEF Stored, RowsSound
  <2>2. targets' = [once EXCEPT ![t].real = e]
    BY <1>2
  <2> HIDE DEF t, d, e
  <2>3. once \in [Target -> Flags] /\ \A x \in Target : once[x].mode = targets[x].mode
    BY <2>1
  <2> HIDE DEF once
  <2> QED
    BY <2>1, <2>2, <2>3
<1>4. UNCHANGED <<recipes, audits>>
  BY DEF SetDrivingConfig, config
<1>5. RowsSound'
  BY <1>3, <1>4 DEF Stored, RowsSound, Armed
<1> QED
  BY <1>5, EndsHere DEF Stored, SetDrivingConfig

LEMMA StartStored ==
  ASSUME Stored, NEW r \in Request, NEW t \in Target, handleStartWalkthrough(r, t)
  PROVE  Stored'
<1> DEFINE job == [op |-> "GetTargetAuditConfig", target |-> t, real |-> targets[t].real]
<1>1. job.op = "GetTargetAuditConfig" /\ job.target = t
  OBVIOUS
<1>2. Begin(r, Over) \/ Begin(r, job)
  BY DEF handleStartWalkthrough
<1> HIDE DEF job
<1>3. Sound(job)
  BY <1>1 DEF Sound, Shaped, LoginTaken, GoalTaken
<1> QED
  BY <1>2, <1>3, Begins, OverSound, NoRowWritten DEF handleStartWalkthrough, config

LEMMA GetTargetAuditConfigStored ==
  ASSUME Stored, NEW r \in Request, GetTargetAuditConfig(r)
  PROVE  Stored'
<1> DEFINE t == inflight[r].target
           row == audits[t]
           job == [op |-> "Run", next |-> "drive", target |-> t, goal |-> row,
                   success |-> NoAudit, dry |-> ~inflight[r].real, mode |-> "none", login |-> NoRecipe]
<1>1. t \in Target
  BY DEF GetTargetAuditConfig, At, Stored, JobsSound, Shaped, OfTarget
<1>2. \/ Leave(r)
      \/ Proceed(r, job) /\ row.goal # "" /\ row.success
  BY DEF GetTargetAuditConfig
<1>3. ASSUME row.goal # "", row.success PROVE Sound(job)
  <2>1. row \in Stated
    BY <1>1, <1>3 DEF Stored, RowsSound, Saved, Stated
  <2>2. /\ job.op = "Run" /\ job.next = "drive" /\ job.target = t /\ job.goal = row
        /\ DOMAIN job = DriveFields
    BY DEF DriveFields
  <2> HIDE DEF job, row, t
  <2> QED
    BY <1>1, <2>1, <2>2 DEF Sound, Shaped, LoginTaken, GoalTaken
<1> HIDE DEF job
<1> QED
  BY <1>2, <1>3, OverSound, NoRowWritten DEF GetTargetAuditConfig, Leave, config

LEMMA RunStored ==
  ASSUME Stored, NEW r \in Request, Run(r)
  PROVE  Stored'
<1> DEFINE job == inflight[r]
           t == targets[job.target]
           next == [job EXCEPT !.op = "Success", !.mode = t.mode, !.dry = @ \/ ~t.real]
<1>1. Sound(job) /\ job.op = "Run"
  BY DEF Stored, JobsSound, Sound, Run, At
<1>2. Leave(r) \/ Proceed(r, next)
  BY DEF Run
<1>3. Sound(next)
  <2>1. /\ DOMAIN job = DriveFields /\ job.next = "drive"
        /\ job.target \in Target /\ job.goal \in Stated
    BY <1>1 DEF Sound, Shaped, GoalTaken, OfTarget
  <2>2. /\ next.op = "Success" /\ next.next = "drive" /\ next.target = job.target
        /\ next.goal = job.goal /\ DOMAIN next = DriveFields
    BY <2>1 DEF DriveFields
  <2> HIDE DEF next, job
  <2> QED
    BY <2>1, <2>2 DEF Sound, Shaped, LoginTaken, GoalTaken
<1> HIDE DEF next
<1> QED
  BY <1>2, <1>3, OverSound, NoRowWritten DEF Run, Leave, config

LEMMA SuccessStored ==
  ASSUME Stored, NEW r \in Request, Success(r)
  PROVE  Stored'
<1> DEFINE job == inflight[r]
           row == audits[job.target]
           next == [job EXCEPT !.op = "buildLogin", !.success = row]
<1>1. Sound(job) /\ job.op = "Success"
  BY DEF Stored, JobsSound, Sound, Success, At
<1>2. Leave(r) \/ (Proceed(r, next) /\ row.success)
  BY DEF Success
<1>3. ASSUME row.success PROVE Sound(next)
  <2>1. /\ DOMAIN job = DriveFields /\ job.next = "drive"
        /\ job.target \in Target /\ job.goal \in Stated
    BY <1>1 DEF Sound, Shaped, GoalTaken, OfTarget
  <2>2. row \in Checked
    BY <1>3, <2>1 DEF Stored, RowsSound, Saved, Checked
  <2>3. /\ next.op = "buildLogin" /\ next.next = "drive" /\ next.target = job.target
        /\ next.goal = job.goal /\ next.success = row /\ DOMAIN next = DriveFields
    BY <2>1 DEF DriveFields
  <2> HIDE DEF next, job, row
  <2> QED
    BY <2>1, <2>2, <2>3 DEF Sound, Shaped, LoginTaken, GoalTaken
<1> HIDE DEF next
<1> QED
  BY <1>2, <1>3, OverSound, NoRowWritten DEF Success, Leave, config

(***************************************************************************)
(* The pushes: tokens, pages and objects.                                  *)
(***************************************************************************)
PagesTyped == \A p \in pages : p.viewport \in {"mobile", "desktop"} /\ p.run \in Request
TokensTyped == tokens \in [PushTarget -> PushTarget \cup Request \cup {NoToken}]

PushedWell == TokensTyped /\ PagesTyped /\ KeysResolve

LEMMA TokensKept ==
  ASSUME PushedWell, UNCHANGED <<pages, store>>, TokensTyped'
  PROVE  PushedWell'
BY DEF PushedWell, PagesTyped, KeysResolve

LEMMA PushedKept ==
  ASSUME PushedWell, UNCHANGED push
  PROVE  PushedWell'
BY DEF PushedWell, TokensTyped, PagesTyped, KeysResolve, push

LEMMA RotateStep ==
  ASSUME Stored, PushedWell, NEW r \in Request, NEW t \in PushTarget,
         handleRotatePluginToken(r, t), UNCHANGED config
  PROVE  Stored' /\ PushedWell'
<1> DEFINE job == [op |-> "UpdateToken", target |-> t]
<1>1. job.op = "UpdateToken" /\ job.target = t
  OBVIOUS
<1>2. Begin(r, Over) \/ Begin(r, job)
  BY DEF handleRotatePluginToken
<1> HIDE DEF job
<1>3. Sound(job)
  BY <1>1 DEF Sound, Shaped, LoginTaken, GoalTaken, OfTarget
<1>4. UNCHANGED <<targets, recipes, audits, push>>
  BY DEF handleRotatePluginToken, config
<1>5. Stored'
  BY <1>2, <1>3, <1>4, Begins, OverSound, NoRowWritten
<1> QED
  BY <1>4, <1>5, PushedKept

LEMMA UpdateTokenStep ==
  ASSUME Stored, PushedWell, NEW r \in Request, UpdateToken(r), UNCHANGED config
  PROVE  Stored' /\ PushedWell'
<1> DEFINE t == inflight[r].target
           job == [op |-> "InsertToken", target |-> t]
<1>1. t \in PushTarget
  BY DEF UpdateToken, At, Stored, JobsSound, Shaped
<1>2. job.op = "InsertToken" /\ job.target = t
  OBVIOUS
<1>3. \/ Proceed(r, job) /\ UNCHANGED tokens
      \/ Leave(r) /\ tokens' = [tokens EXCEPT ![t] = r]
  BY DEF UpdateToken
<1>4. UNCHANGED <<targets, recipes, audits, pages, store>>
  BY DEF UpdateToken, config
<1> HIDE DEF job, t
<1>5. Sound(job)
  BY <1>1, <1>2 DEF Sound, Shaped, LoginTaken, GoalTaken, OfTarget
<1>6. Stored'
  BY <1>3, <1>4, <1>5, OverSound, NoRowWritten DEF Leave
<1>7. TokensTyped'
  BY <1>1, <1>3 DEF PushedWell, TokensTyped
<1> QED
  BY <1>4, <1>6, <1>7, TokensKept

LEMMA InsertTokenStep ==
  ASSUME Stored, PushedWell, NEW r \in Request, InsertToken(r), UNCHANGED config
  PROVE  Stored' /\ PushedWell'
<1> DEFINE t == inflight[r].target
<1>1. t \in PushTarget
  BY DEF InsertToken, At, Stored, JobsSound, Shaped
<1>2. tokens' = [tokens EXCEPT ![t] = IF tokens[t] = NoToken THEN r ELSE tokens[t]]
  BY <1>1 DEF InsertToken, PushedWell, TokensTyped
<1>3. Leave(r) /\ UNCHANGED <<targets, recipes, audits, pages, store>>
  BY DEF InsertToken, config
<1>4. Stored'
  BY <1>3, OverSound, NoRowWritten DEF Leave
<1> HIDE DEF t
<1>5. TokensTyped'
  BY <1>1, <1>2 DEF PushedWell, TokensTyped
<1> QED
  BY <1>3, <1>4, <1>5, TokensKept

LEMMA PayloadPages ==
  ASSUME NEW p \in Payloads, ValidatePayload(p)
  PROVE  /\ Len(p.pages) \in Nat \ {0}
         /\ DOMAIN p.pages = 1 .. Len(p.pages)
<1> DEFINE S == {p.pages[i] : i \in DOMAIN p.pages}
<1>1. p.pages \in Seq(S) /\ Len(p.pages) \in 1 .. MaxPages
  BY PageAssumption DEF ValidatePayload
<1> HIDE DEF S
<1> QED
  BY <1>1, PageAssumption

LEMMA PushStepStored ==
  ASSUME Stored, PushedWell, NEW r \in Request, handlePluginPush(r), UNCHANGED config
  PROVE  Stored' /\ PushedWell'
<1>1. PICK p \in Payloads :
        \/ Begin(r, Over)
        \/ /\ ValidatePayload(p)
           /\ \E t : Begin(r, [op |-> "persist", target |-> t, payload |-> p, next |-> 1])
  BY DEF handlePluginPush
<1>2. UNCHANGED <<targets, recipes, audits, push>>
  BY DEF handlePluginPush, config
<1>3. ASSUME NEW t, ValidatePayload(p)
      PROVE  Sound([op |-> "persist", target |-> t, payload |-> p, next |-> 1])
  <2> DEFINE job == [op |-> "persist", target |-> t, payload |-> p, next |-> 1]
  <2>1. 1 \in DOMAIN p.pages
    BY <1>3, PayloadPages
  <2>2. /\ job.op = "persist" /\ job.payload = p /\ job.next = 1
        /\ DOMAIN job = {"op", "target", "payload", "next"}
    OBVIOUS
  <2> HIDE DEF job
  <2>3. Sound(job)
    BY <1>3, <2>1, <2>2 DEF Sound, Shaped, LoginTaken, GoalTaken, OfTarget
  <2> QED
    BY <2>3 DEF job
<1>4. Stored'
  BY <1>1, <1>2, <1>3, Begins, OverSound, NoRowWritten
<1> QED
  BY <1>2, <1>4, PushedKept

LEMMA evalCellStep ==
  ASSUME Stored, PushedWell, NEW r \in Request, evalCell(r), UNCHANGED config
  PROVE  Stored' /\ PushedWell'
<1>1. \E job : job.op = "cell" /\ Begin(r, job)
  BY DEF evalCell
<1>2. UNCHANGED <<targets, recipes, audits, push>>
  BY DEF evalCell, config
<1>3. Stored'
  BY <1>1, <1>2, Elsewhere, Begins, NoRowWritten
<1> QED
  BY <1>2, <1>3, PushedKept

\* An object is never deleted, and the keys of a page are the keys of its objects.
LEMMA PutKeeps ==
  ASSUME NEW run, NEW page, NEW kinds, NEW digest
  PROVE  DOMAIN Put(run, page, kinds, digest) = DOMAIN store \cup {Key(run, page, k) : k \in kinds}
BY DEF Put

LEMMA RowAdded ==
  ASSUME PushedWell, UNCHANGED tokens,
         DOMAIN store \subseteq DOMAIN store',
         NEW row, row.viewport \in {"mobile", "desktop"}, row.run \in Request,
         row.pushed => /\ row.keys \subseteq DOMAIN store'
                       /\ <<row.run, row.url, row.viewport>> \in row.keys,
         pages' = pages \/ pages' = pages \cup {row}
  PROVE  PushedWell'
<1>1. TokensTyped'
  BY DEF PushedWell, TokensTyped
<1>2. PagesTyped'
  BY DEF PushedWell, PagesTyped
<1>3. ASSUME NEW p \in pages', p.pushed
      PROVE  p.keys \subseteq DOMAIN store' /\ <<p.run, p.url, p.viewport>> \in p.keys
  <2>1. CASE p \in pages
    BY <1>3, <2>1 DEF PushedWell, KeysResolve
  <2>2. CASE p \notin pages
    BY <1>3, <2>2
  <2> QED
    BY <2>1, <2>2
<1>4. KeysResolve'
  BY <1>3 DEF KeysResolve
<1> QED
  BY <1>1, <1>2, <1>4 DEF PushedWell

LEMMA persistPushedPageStep ==
  ASSUME Stored, PushedWell, NEW r \in Request, persistPushedPage(r), UNCHANGED config
  PROVE  Stored' /\ PushedWell'
<1> DEFINE job  == inflight[r]
           p    == job.payload
           page == p.pages[job.next]
           next == [job EXCEPT !.next = job.next + 1]
<1>1. Sound(job) /\ job.op = "persist"
  BY DEF Stored, JobsSound, Sound, persistPushedPage, At
<1>2. /\ DOMAIN job = {"op", "target", "payload", "next"}
      /\ p \in Payloads /\ ValidatePayload(p) /\ job.next \in DOMAIN p.pages
  BY <1>1 DEF Sound, Shaped
<1>3. \/ Leave(r)
      \/ job.next # Len(p.pages) /\ Proceed(r, next)
  BY <1>2 DEF persistPushedPage
<1>4. UNCHANGED <<targets, recipes, audits, tokens>>
  BY DEF persistPushedPage, config
<1>5. ASSUME job.next # Len(p.pages) PROVE Sound(next)
  <2>1. job.next + 1 \in DOMAIN p.pages
    BY <1>2, <1>5, PayloadPages
  <2>2. /\ next.op = "persist" /\ next.payload = p /\ next.next = job.next + 1
        /\ DOMAIN next = {"op", "target", "payload", "next"}
    BY <1>1, <1>2
  <2> HIDE DEF next, job
  <2> QED
    BY <1>2, <2>1, <2>2 DEF Sound, Shaped, LoginTaken, GoalTaken, OfTarget
<1>6. Stored'
  <2> HIDE DEF next
  <2> QED
    BY <1>3, <1>4, <1>5, OverSound, NoRowWritten DEF Leave
<1>7. PICK put \in SUBSET DOMAIN page.files, inserted \in BOOLEAN :
        LET kept == IF "screenshot" \in put THEN put ELSE {}
        IN  /\ store' = Put(r, page, kept, normalized(p, page))
            /\ pages' = IF ~inserted \/ kept = {} THEN pages
                        ELSE pages \cup {Row(r, page, TRUE, put, MapPage(page, p.environment))}
  BY DEF persistPushedPage, KeysOf
<1> DEFINE row == Row(r, page, TRUE, put, MapPage(page, p.environment))
           kept == IF "screenshot" \in put THEN put ELSE {}
<1>8. page.viewport \in {"mobile", "desktop"}
  BY <1>2 DEF ValidatePayload
<1>9. DOMAIN store' = DOMAIN store \cup {Key(r, page, k) : k \in kept}
  BY <1>7, PutKeeps
<1>10. /\ row.viewport = page.viewport /\ row.run = r /\ row.url = page.url
       /\ row.keys = {Key(r, page, k) : k \in put}
  BY DEF Row
<1>11. CASE "screenshot" \in put
  <2>1. <<r, page.url, page.viewport>> = Key(r, page, "screenshot")
    BY DEF Key
  <2>2. row.keys \subseteq DOMAIN store' /\ <<row.run, row.url, row.viewport>> \in row.keys
    BY <1>9, <1>10, <1>11, <2>1
  <2>3. pages' = pages \/ pages' = pages \cup {row}
    BY <1>7
  <2>4. DOMAIN store \subseteq DOMAIN store' /\ row.viewport \in {"mobile", "desktop"} /\ row.run \in Request
    BY <1>8, <1>9, <1>10
  <2> HIDE DEF row
  <2> QED
    BY <1>4, <1>6, <2>2, <2>3, <2>4, RowAdded
<1>12. CASE "screenshot" \notin put
  <2>1. UNCHANGED pages /\ DOMAIN store' = DOMAIN store
    BY <1>7, <1>9, <1>12
  <2> QED
    BY <1>4, <1>6, <2>1 DEF PushedWell, TokensTyped, PagesTyped, KeysResolve
<1> QED
  BY <1>11, <1>12

LEMMA persistPageStep ==
  ASSUME Stored, PushedWell, NEW r \in Request, persistPage(r), UNCHANGED config
  PROVE  Stored' /\ PushedWell'
<1> DEFINE job == inflight[r]
<1>1. Sound(job) /\ job.op = "crawl"
  BY DEF Stored, JobsSound, Sound, persistPage, At
<1>2. DOMAIN job = CrawlFields
  BY <1>1 DEF Sound, Shaped
<1>3. PICK page \in Crawled : \E put \in SUBSET page.captured, inserted \in BOOLEAN :
        /\ Proceed(r, [job EXCEPT !.done = job.done \cup {page}])
        /\ store' = Put(r, page, put, page.digest)
        /\ pages' = IF ~inserted THEN pages
                    ELSE pages \cup {Row(r, page, FALSE, page.captured \cup {"screenshot"}, pageFindings(page))}
  BY <1>2 DEF persistPage, CrawlFields
<1> DEFINE next == [job EXCEPT !.done = job.done \cup {page}]
           row  == Row(r, page, FALSE, page.captured \cup {"screenshot"}, pageFindings(page))
<1>4. Sound(next)
  <2>1. /\ next.op = "crawl" /\ next.mode = job.mode /\ next.login = job.login
        /\ DOMAIN next = CrawlFields
    BY <1>1, <1>2 DEF CrawlFields
  <2>2. job.mode = "login" => Armed(job.login)
    BY <1>1 DEF Sound, LoginTaken
  <2> HIDE DEF next, job
  <2> QED
    BY <2>1, <2>2 DEF Sound, Shaped, LoginTaken, GoalTaken, OfTarget
<1>5. UNCHANGED <<targets, recipes, audits, tokens>>
  BY DEF persistPage, config
<1>6. Stored'
  <2>1. Proceed(r, next)
    BY <1>3
  <2> HIDE DEF next
  <2> QED
    BY <1>4, <1>5, <2>1, NoRowWritten
<1>7. row.viewport \in {"mobile", "desktop"} /\ row.run \in Request /\ ~row.pushed
  <2>1. row.viewport = page.viewport /\ row.run = r /\ row.pushed = FALSE
    BY DEF Row
  <2>2. page.viewport \in {"mobile", "desktop"}
    BY PageAssumption
  <2> HIDE DEF row
  <2> QED
    BY <2>1, <2>2
<1>8. DOMAIN store \subseteq DOMAIN store'
  <2>1. PICK put \in SUBSET page.captured : store' = Put(r, page, put, page.digest)
    BY <1>3
  <2> QED
    BY <2>1, PutKeeps
<1>9. pages' = pages \/ pages' = pages \cup {row}
  <2>1. PICK inserted \in BOOLEAN : pages' = IF ~inserted THEN pages ELSE pages \cup {row}
    BY <1>3
  <2> HIDE DEF row
  <2> QED
    BY <2>1
<1> HIDE DEF row
<1> QED
  <2>1. row.pushed => /\ row.keys \subseteq DOMAIN store'
                      /\ <<row.run, row.url, row.viewport>> \in row.keys
    BY <1>7
  <2>2. row.viewport \in {"mobile", "desktop"} /\ row.run \in Request
    BY <1>7
  <2>3. UNCHANGED tokens
    BY <1>5
  <2>4. PushedWell'
    BY <1>8, <1>9, <2>1, <2>2, <2>3, RowAdded
  <2> QED
    BY <1>6, <2>4

(***************************************************************************)
(* The limiters.  An entry is forgotten when it no longer limits its key,  *)
(* or limits it by no more than what comes in twice the wait for the lock. *)
(***************************************************************************)
Clocked == now \in Nat /\ now \in Instants /\ Memories

LEMMA FadesOn ==
  ASSUME NEW last, NEW full, NEW t \in Nat, NEW u \in Nat, t <= u, Faded(last, full, t)
  PROVE  Faded(last, full, u)
BY LimiterAssumption DEF Faded

\* A call with time u, that leaves the latest time v.
LEMMA Allowed ==
  ASSUME NEW last, NEW full, NEW t \in Nat, NEW u \in Nat, NEW v \in Nat, t <= v, u <= v,
         Faded(last, full, t), NEW key \in Target, Spaced(last, key, u)
  PROVE  Faded(Allow(last, key, u), Set(full, key, u), v)
<1> DEFINE more == Set(last, key, u)
           all == Set(full, key, u)
<1>1. /\ DOMAIN more = DOMAIN last \cup {key}
      /\ \A k \in DOMAIN more : more[k] = IF k = key THEN u ELSE last[k]
      /\ DOMAIN all = DOMAIN full \cup {key}
      /\ \A k \in DOMAIN all : all[k] = IF k = key THEN u ELSE full[k]
  BY DEF Set
<1> HIDE DEF more, all
<1>2. Faded(more, all, v)
  BY <1>1, LimiterAssumption DEF Faded
<1>3. Allow(last, key, u) = Sweep(more, u)
  BY DEF Allow, more
<1>4. CASE Sweep(more, u) = more
  BY <1>2, <1>3, <1>4 DEF all
<1>5. CASE Sweep(more, u) # more
  <2> DEFINE swept == Sweep(more, u)
  <2>1. swept = Only(more, {k \in DOMAIN more : more[k] >= u - 10 * MinInterval})
    BY <1>5 DEF Sweep
  <2>2. /\ DOMAIN swept = {k \in DOMAIN more : more[k] >= u - 10 * MinInterval}
        /\ \A k \in DOMAIN swept : swept[k] = more[k]
    BY <2>1 DEF Only
  <2> HIDE DEF swept
  <2>3. Faded(swept, all, v)
    BY <1>2, <2>2, LimiterAssumption DEF Faded
  <2> QED
    BY <1>3, <2>3 DEF swept, all
<1> QED
  BY <1>4, <1>5

LEMMA SpacedAlike ==
  ASSUME NEW last, NEW full, NEW t \in Nat, NEW u \in Nat, t <= u + Delay, Delay <= 9 * MinInterval,
         Faded(last, full, t), NEW key \in Target
  PROVE  Spaced(last, key, u) = Spaced(full, key, u)
BY LimiterAssumption, ServiceAssumption DEF Faded, Spaced

LEMMA BucketsFadeOn ==
  ASSUME NEW few, NEW all, NEW t \in Nat, NEW u \in Nat, t <= u, FadedBuckets(few, all, t)
  PROVE  FadedBuckets(few, all, u)
BY LimiterAssumption, ServiceAssumption DEF FadedBuckets, Level

\* What a bucket holds at time u, when the latest time is t, and then v.
LEMMA Refilled ==
  ASSUME NEW buckets, NEW key, NEW t \in Nat, NEW u \in Nat, NEW v \in Nat,
         t <= u + Delay, t <= v, u <= v,
         key \in DOMAIN buckets => Level(buckets[key], t)
  PROVE  Tokens(buckets, key, u) \in -Delay .. Burst /\ Tokens(buckets, key, u) + (v - u) >= 0
BY LimiterAssumption, ServiceAssumption DEF Level, Tokens

\* Two levels, one at most d above the other, stay so when both are asked for a token.
LEMMA TakenAlike ==
  ASSUME NEW x \in -Delay .. Burst, NEW y \in -Delay .. Burst, NEW d \in Nat, y \in x .. x + d
  PROVE  /\ Taken(x) \in -Delay .. Burst /\ Taken(y) \in -Delay .. Burst
         /\ Taken(y) \in Taken(x) .. Taken(x) + d
BY LimiterAssumption, ServiceAssumption DEF Taken

LEMMA TakenOwes ==
  ASSUME NEW x \in Int, NEW n \in Nat, x + n >= 0
  PROVE  Taken(x) + n >= 0
BY DEF Taken

LEMMA TokensAlike ==
  ASSUME NEW few, NEW all, NEW t \in Nat, NEW u \in Nat, t <= u + Delay,
         FadedBuckets(few, all, t), NEW key \in ApiKey
  PROVE  LET exact == Tokens(all, key, u)
         IN  Tokens(few, key, u) \in exact .. exact + 2 * Delay
<1> USE LimiterAssumption, ServiceAssumption
<1>1. CASE key \in DOMAIN few
  BY <1>1 DEF FadedBuckets, Level, Tokens
<1>2. CASE key \notin DOMAIN few /\ key \in DOMAIN all
  BY <1>2 DEF FadedBuckets, Level, Tokens
<1>3. CASE key \notin DOMAIN few /\ key \notin DOMAIN all
  BY <1>3 DEF Tokens
<1> QED
  BY <1>1, <1>2, <1>3

LEMMA Spent ==
  ASSUME NEW few, NEW all, NEW t \in Nat, NEW u \in Nat, NEW v \in Nat, t <= u + Delay, t <= v, u <= v,
         FadedBuckets(few, all, t), NEW key \in ApiKey
  PROVE  FadedBuckets(Spend(few, key, u),
                      Set(all, key, [tokens |-> Taken(Tokens(all, key, u)), last |-> u]), v)
<1> DEFINE kept == Tokens(few, key, u)
           exact == Tokens(all, key, u)
           seen == [tokens |-> kept, last |-> u]
           left == [tokens |-> Taken(kept), last |-> u]
           full == [tokens |-> Taken(exact), last |-> u]
           more == Set(few, key, seen)
           swept == SweepFull(more, u)
           spent == Set(swept, key, left)
           after == Set(all, key, full)
<1>1. /\ kept \in -Delay .. Burst /\ kept + (v - u) >= 0
      /\ exact \in -Delay .. Burst /\ exact + (v - u) >= 0
      /\ kept \in exact .. exact + 2 * Delay
  BY Refilled, TokensAlike DEF FadedBuckets
<1>2. /\ DOMAIN more = DOMAIN few \cup {key}
      /\ \A k \in DOMAIN more : more[k] = IF k = key THEN seen ELSE few[k]
      /\ DOMAIN after = DOMAIN all \cup {key}
      /\ \A k \in DOMAIN after : after[k] = IF k = key THEN full ELSE all[k]
      /\ DOMAIN spent = DOMAIN swept \cup {key}
      /\ \A k \in DOMAIN spent : spent[k] = IF k = key THEN left ELSE swept[k]
  BY DEF Set
<1>3. spent = Spend(few, key, u)
  BY DEF Spend
<1>4. /\ DOMAIN swept \subseteq DOMAIN more
      /\ \A k \in DOMAIN swept : swept[k] = more[k]
      /\ \A k \in DOMAIN more \ DOMAIN swept : ~(u - more[k].last < Burst)
  BY DEF SweepFull, Only
<1> HIDE DEF kept, exact
<1>5. /\ Level(left, v) /\ Level(full, v) /\ left.last = full.last
      /\ left.tokens \in full.tokens .. full.tokens + 2 * Delay
  <2>1. v - u \in Nat /\ 2 * Delay \in Nat /\ kept \in Int /\ exact \in Int
    BY <1>1, LimiterAssumption, ServiceAssumption
  <2>2. Taken(kept) + (v - u) >= 0 /\ Taken(exact) + (v - u) >= 0
    BY <1>1, <2>1, TakenOwes
  <2>3. /\ Taken(kept) \in -Delay .. Burst /\ Taken(exact) \in -Delay .. Burst
        /\ Taken(kept) \in Taken(exact) .. Taken(exact) + 2 * Delay
    BY <1>1, <2>1, TakenAlike
  <2> QED
    BY <2>2, <2>3 DEF Level
<1> HIDE DEF seen, left, full, more, swept, spent, after
<1>6. FadedBuckets(few, all, v)
  BY BucketsFadeOn
<1>7. FadedBuckets(spent, after, v)
  <2>1. DOMAIN spent \subseteq ApiKey
    BY <1>2, <1>4, <1>6 DEF FadedBuckets
  <2>2. ASSUME NEW k \in ApiKey, k \in DOMAIN after
        PROVE  Level(after[k], v)
    BY <1>2, <1>5, <1>6, <2>2 DEF FadedBuckets
  <2>3. ASSUME NEW k \in ApiKey, k \in DOMAIN spent
        PROVE  /\ Level(spent[k], v) /\ k \in DOMAIN after /\ spent[k].last = after[k].last
               /\ spent[k].tokens \in after[k].tokens .. after[k].tokens + 2 * Delay
    <3>1. CASE k = key
      BY <1>2, <1>5, <2>3, <3>1
    <3>2. CASE k # key
      <4>1. k \in DOMAIN few /\ spent[k] = few[k]
        BY <1>2, <1>4, <2>3, <3>2
      <4>2. k \in DOMAIN all /\ after[k] = all[k]
        BY <1>2, <1>6, <3>2, <4>1 DEF FadedBuckets
      <4> QED
        BY <1>2, <1>6, <4>1, <4>2 DEF FadedBuckets
    <3> QED
      BY <3>1, <3>2
  <2>4. ASSUME NEW k \in ApiKey, k \in DOMAIN after, k \notin DOMAIN spent
        PROVE  after[k].tokens + (v - after[k].last) + Delay >= Burst
    <3>1. k # key /\ k \in DOMAIN all /\ after[k] = all[k]
      BY <1>2, <2>4
    <3>2. CASE k \in DOMAIN few
      <4>1. k \in DOMAIN more \ DOMAIN swept /\ more[k].last = all[k].last
        BY <1>2, <1>6, <2>4, <3>1, <3>2 DEF FadedBuckets
      <4>2. ~(u - all[k].last < Burst)
        BY <1>4, <4>1
      <4>3. all[k].tokens \in -Delay .. Burst /\ all[k].last \in Nat
        BY <1>6, <3>1 DEF FadedBuckets, Level
      <4> QED
        BY <3>1, <4>2, <4>3, LimiterAssumption, ServiceAssumption
    <3>3. CASE k \notin DOMAIN few
      BY <1>6, <3>1, <3>3 DEF FadedBuckets
    <3> QED
      BY <3>2, <3>3
  <2> QED
    BY <2>1, <2>2, <2>3, <2>4 DEF FadedBuckets
<1> QED
  BY <1>3, <1>7 DEF after, full, exact

LEMMA CallClock ==
  ASSUME now \in Nat, NEW time \in Instants, Called(time), now \in Instants
  PROVE  /\ now' \in Nat /\ now' \in Instants /\ now <= now'
         /\ time \in Nat /\ time <= now' /\ now <= time + Delay
BY ServiceAssumption DEF Called

\* A call that is refused: time passes and the memories stay.
LEMMA Refused ==
  ASSUME Clocked, NEW time \in Instants, Called(time), UNCHANGED <<limits, heard>>
  PROVE  Clocked'
<1>1. now' \in Nat /\ now' \in Instants /\ now <= now'
  BY CallClock DEF Clocked
<1>2. /\ Faded(limits.login, heard.login, now') /\ Faded(limits.push, heard.push, now')
      /\ FadedBuckets(limits.api, heard.api, now')
  BY <1>1, FadesOn, BucketsFadeOn DEF Clocked, Memories
<1> QED
  BY <1>1, <1>2 DEF Clocked, Memories

LEMMA Accepted ==
  ASSUME Clocked, NEW time \in Instants, Called(time), NEW which \in {"login", "push"},
         NEW key \in Target, Admits(which, key, time), Pass(which, key, time)
  PROVE  Clocked'
<1>1. /\ now' \in Nat /\ now' \in Instants /\ now <= now' /\ now \in Nat
      /\ time \in Nat /\ time <= now'
  BY CallClock DEF Clocked
<1>2. /\ DOMAIN limits' = {"login", "push", "api"} /\ DOMAIN heard' = {"login", "push", "api"}
      /\ \A w \in {"login", "push", "api"} :
           /\ limits'[w] = IF w = which THEN Allow(limits[which], key, time) ELSE limits[w]
           /\ heard'[w]  = IF w = which THEN Set(heard[which], key, time) ELSE heard[w]
  BY DEF Pass, Clocked, Memories
<1>3. \A w \in {"login", "push"} : Faded(limits[w], heard[w], now) /\ Faded(limits[w], heard[w], now')
  BY <1>1, FadesOn DEF Clocked, Memories
<1>4. Faded(Allow(limits[which], key, time), Set(heard[which], key, time), now')
  BY <1>1, <1>3, Allowed DEF Admits
<1>5. \A w \in {"login", "push"} : Faded(limits'[w], heard'[w], now')
  BY <1>2, <1>3, <1>4
<1>6. FadedBuckets(limits'.api, heard'.api, now')
  <2>1. limits'.api = limits.api /\ heard'.api = heard.api
    BY <1>2
  <2> QED
    BY <1>1, <2>1, BucketsFadeOn DEF Clocked, Memories
<1>7. Faded(limits'.login, heard'.login, now') /\ Faded(limits'.push, heard'.push, now')
  BY <1>5
<1> QED
  BY <1>1, <1>2, <1>6, <1>7 DEF Clocked, Memories

LEMMA ReadAPIClock ==
  ASSUME Clocked, NEW r, NEW key \in ApiKey, ReadAPI(r, key)
  PROVE  Clocked'
<1>1. PICK time \in Instants :
        /\ Called(time) /\ limits' = [limits EXCEPT !.api = Spend(limits.api, key, time)]
        /\ heard' = [heard EXCEPT !.api = Set(heard.api, key,
                      [tokens |-> Taken(Tokens(heard.api, key, time)), last |-> time])]
  BY DEF ReadAPI, Clocked, Memories
<1>2. /\ now' \in Nat /\ now' \in Instants /\ now <= now' /\ now \in Nat
      /\ time \in Nat /\ time <= now' /\ now <= time + Delay
  BY <1>1, CallClock DEF Clocked
<1> DEFINE left == [tokens |-> Taken(Tokens(heard.api, key, time)), last |-> time]
<1>3. FadedBuckets(Spend(limits.api, key, time), Set(heard.api, key, left), now')
  BY <1>2, Spent DEF Clocked, Memories
<1>4. heard' = [heard EXCEPT !.api = Set(heard.api, key, left)]
  BY <1>1
<1> HIDE DEF left
<1>5. /\ DOMAIN limits' = {"login", "push", "api"} /\ DOMAIN heard' = {"login", "push", "api"}
      /\ limits'.login = limits.login /\ heard'.login = heard.login
      /\ limits'.push = limits.push /\ heard'.push = heard.push
      /\ limits'.api = Spend(limits.api, key, time) /\ heard'.api = Set(heard.api, key, left)
  BY <1>1, <1>4 DEF Clocked, Memories
<1>6. Faded(limits.login, heard.login, now') /\ Faded(limits.push, heard.push, now')
  BY <1>2, FadesOn DEF Clocked, Memories
<1> QED
  BY <1>2, <1>3, <1>5, <1>6 DEF Clocked, Memories

LEMMA ClockStill ==
  ASSUME Clocked, UNCHANGED <<limits, heard, now>>
  PROVE  Clocked'
BY DEF Clocked, Memories

LEMMA LoginTestClock ==
  ASSUME Clocked, NEW r, NEW t \in Target, LoginTest(r, t)
  PROVE  Clocked'
BY Refused, Accepted DEF LoginTest

LEMMA handlePluginPushClock ==
  ASSUME Clocked, NEW r, handlePluginPush(r)
  PROVE  Clocked'
<1>1. PICK token \in PushTarget \cup Request, time \in Instants :
        LET t == CHOOSE x \in PluginTokenLookup(token) : TRUE
        IN  \/ UNCHANGED <<limits, heard, now>>
            \/ Called(time) /\ UNCHANGED <<limits, heard>>
            \/ /\ PluginTokenLookup(token) # {} /\ Called(time)
               /\ Admits("push", t, time) /\ Pass("push", t, time)
  BY DEF handlePluginPush
<1> DEFINE t == CHOOSE x \in PluginTokenLookup(token) : TRUE
<1>2. PluginTokenLookup(token) # {} => t \in Target
  BY ServiceAssumption DEF PluginTokenLookup
<1> HIDE DEF t
<1>3. \/ UNCHANGED <<limits, heard, now>>
      \/ Called(time) /\ UNCHANGED <<limits, heard>>
      \/ t \in Target /\ Called(time) /\ Admits("push", t, time) /\ Pass("push", t, time)
  BY <1>1, <1>2 DEF t
<1> QED
  BY <1>3, ClockStill, Refused, Accepted

\* What the limiters answer to any call still to come.
LEMMA Remembers == Clocked => LimitersRemember
<1> SUFFICES ASSUME Clocked, NEW t \in Instants, t + Delay >= now
             PROVE  /\ Delay <= 9 * MinInterval =>
                         \A k \in Target : /\ Spaced(limits.login, k, t) = Spaced(heard.login, k, t)
                                           /\ Spaced(limits.push, k, t) = Spaced(heard.push, k, t)
                    /\ \A k \in ApiKey : LET exact == Tokens(heard.api, k, t)
                                          IN  Tokens(limits.api, k, t) \in exact .. exact + 2 * Delay
  BY DEF LimitersRemember
<1>1. now \in Nat /\ t \in Nat /\ now <= t + Delay
  BY ServiceAssumption DEF Clocked
<1>2. \A k \in ApiKey : LET exact == Tokens(heard.api, k, t)
                        IN  Tokens(limits.api, k, t) \in exact .. exact + 2 * Delay
  BY <1>1, TokensAlike DEF Clocked, Memories
<1>3. Delay <= 9 * MinInterval =>
        \A k \in Target : /\ Spaced(limits.login, k, t) = Spaced(heard.login, k, t)
                          /\ Spaced(limits.push, k, t) = Spaced(heard.push, k, t)
  BY <1>1, SpacedAlike DEF Clocked, Memories
<1> QED
  BY <1>2, <1>3

(***************************************************************************)
(* The findings of a page: the measured ones never disagree, and the hand- *)
(* written ones of a measured type give way to them.                       *)
(***************************************************************************)
LEMMA FindingFields ==
  ASSUME NEW type, NEW severity, NEW about
  PROVE  /\ Finding(type, severity, about).type = type
         /\ Finding(type, severity, about).severity = severity
         /\ Finding(type, severity, about).about = about
BY DEF Finding

LEMMA PerfAgrees ==
  ASSUME NEW perf
  PROVE  /\ Agreeing(PerfFindings(perf))
         /\ \A f \in PerfFindings(perf) : f.type = "perf"
<1>1. \A f \in PerfFindings(perf) :
        \/ \E m \in Metrics : perf[m] = "needs-improvement" /\ f = Finding("perf", "moderate", m)
        \/ \E m \in Metrics : perf[m] = "poor" /\ f = Finding("perf", "serious", m)
        \/ f = Finding("perf", "minor", "page-weight")
  BY DEF PerfFindings
<1>2. "page-weight" \notin Metrics
  BY DEF Metrics
<1>3. ASSUME NEW f \in PerfFindings(perf), NEW g \in PerfFindings(perf), f.about = g.about PROVE f = g
  BY <1>1, <1>2, <1>3, FindingFields
<1>4. \A f \in PerfFindings(perf) : f.type = "perf"
  BY <1>1, FindingFields
<1> QED
  BY <1>3, <1>4 DEF Agreeing

LEMMA LayoutAgrees ==
  ASSUME NEW smells, NEW mobile
  PROVE  /\ Agreeing(LayoutFindings(smells, mobile))
         /\ \A f \in LayoutFindings(smells, mobile) : f.type = "layout"
<1> DEFINE Sev(s) == IF s \in {"small-text", "images-without-dimensions"} THEN "minor" ELSE "moderate"
<1>1. \A f \in LayoutFindings(smells, mobile) : \E s \in smells : f = Finding("layout", Sev(s), s)
  BY DEF LayoutFindings
<1> HIDE DEF Sev
<1>2. \A f \in LayoutFindings(smells, mobile) : f.type = "layout" /\ f = Finding("layout", Sev(f.about), f.about)
  BY <1>1, FindingFields
<1> QED
  BY <1>2 DEF Agreeing

\* Of sets of findings whose types are apart.
LEMMA ApartAgree ==
  ASSUME NEW A, NEW B, Agreeing(A), Agreeing(B),
         \A f \in A, g \in B : f.type # g.type \/ f.type \notin {"perf", "layout"}
  PROVE  Agreeing(A \cup B)
BY DEF Agreeing

LEMMA CrawledAgrees ==
  ASSUME NEW pr
  PROVE  Agreeing(pageFindings(pr))
<1> DEFINE Told == {Finding("a11y", IF v.impact = "" THEN "moderate" ELSE v.impact, v.rule) : v \in pr.violations} \cup
                   {Finding("console", sevForConsole(first), "error") : first \in pr.console} \cup
                   {Finding("network", sevForNetwork(e.status, e.first), e.status) : e \in pr.network}
           Perf == PerfFindings(pr.perf)
           Layout == LayoutFindings(pr.smells, pr.viewport = "mobile")
<1>1. \A f \in Told : f.type \notin {"perf", "layout"}
  <2>1. \A f \in Told : \E type \in {"a11y", "console", "network"} : \E severity, about :
          f = Finding(type, severity, about)
    OBVIOUS
  <2> HIDE DEF Told
  <2>2. \A f \in Told : f.type \in {"a11y", "console", "network"}
    BY <2>1, FindingFields
  <2> QED
    BY <2>2
<1>2. Agreeing(Told)
  BY <1>1 DEF Agreeing
<1>3. pageFindings(pr) = (Told \cup Perf) \cup Layout
  BY DEF pageFindings
<1>4. /\ Agreeing(Perf) /\ \A f \in Perf : f.type = "perf"
      /\ Agreeing(Layout) /\ \A f \in Layout : f.type = "layout"
  BY PerfAgrees, LayoutAgrees
<1> HIDE DEF Told, Perf, Layout
<1>5. Agreeing(Told \cup Perf)
  BY <1>1, <1>2, <1>4, ApartAgree
<1>6. \A f \in Told \cup Perf, g \in Layout : f.type # g.type \/ f.type \notin {"perf", "layout"}
  BY <1>1, <1>4
<1> QED
  BY <1>3, <1>4, <1>5, <1>6, ApartAgree

LEMMA MappedAgrees ==
  ASSUME NEW pg, NEW env, Agreeing({Mapped(f) : f \in pg.findings})
  PROVE  Agreeing(MapPage(pg, env))
<1> DEFINE Hand == {Mapped(f) : f \in {x \in pg.findings : ~Superseded(x, pg)}}
           Perf == IF pg.hasPerf /\ env # "lab" THEN PerfFindings(pg.perf) ELSE {}
           Layout == IF pg.hasLayout THEN LayoutFindings(pg.smells, pg.viewport = "mobile") ELSE {}
<1>1. MapPage(pg, env) = (Hand \cup Perf) \cup Layout
  BY DEF MapPage
<1>2. Agreeing(Hand)
  <2>1. Hand \subseteq {Mapped(f) : f \in pg.findings}
    OBVIOUS
  <2> HIDE DEF Hand
  <2> QED
    BY <2>1 DEF Agreeing
<1>3. ASSUME NEW f PROVE Mapped(f).type = f.type
  <2>1. \E severity, about : Mapped(f) = Finding(f.type, severity, about)
    BY DEF Mapped
  <2> QED
    BY <2>1, FindingFields
<1>4. /\ \A h \in Hand : pg.hasPerf => h.type # "perf"
      /\ \A h \in Hand : pg.hasLayout => h.type # "layout"
  <2>1. \A h \in Hand : \E x \in pg.findings : h = Mapped(x) /\ ~Superseded(x, pg)
    OBVIOUS
  <2> HIDE DEF Hand
  <2>2. \A h \in Hand : \E x \in pg.findings : h.type = x.type /\ ~Superseded(x, pg)
    BY <1>3, <2>1
  <2> QED
    BY <2>2 DEF Superseded
<1>5. /\ Agreeing(Perf) /\ \A f \in Perf : pg.hasPerf /\ f.type = "perf"
      /\ Agreeing(Layout) /\ \A f \in Layout : pg.hasLayout /\ f.type = "layout"
  BY PerfAgrees, LayoutAgrees DEF Agreeing
<1> HIDE DEF Hand, Perf, Layout
<1>6. Agreeing(Hand \cup Perf)
  BY <1>2, <1>4, <1>5, ApartAgree
<1>7. \A f \in Hand \cup Perf, g \in Layout : f.type # g.type \/ f.type \notin {"perf", "layout"}
  BY <1>4, <1>5
<1> QED
  BY <1>1, <1>5, <1>6, <1>7, ApartAgree

LEMMA VoiceStep ==
  ASSUME HandWrittenAgree, Stored, OneVoice, NEW r \in Request, Step(r)
  PROVE  OneVoice'
<1>1. ASSUME UNCHANGED pages PROVE OneVoice'
  BY <1>1 DEF OneVoice
<1>2. ASSUME NEW row, Agreeing(row.findings), pages' = pages \/ pages' = pages \cup {row}
      PROVE  OneVoice'
  BY <1>2 DEF OneVoice
<1>3. CASE persistPushedPage(r)
  <2> DEFINE p    == inflight[r].payload
             page == p.pages[inflight[r].next]
  <2>1. p \in Payloads /\ inflight[r].next \in DOMAIN p.pages
    BY <1>3 DEF persistPushedPage, At, Stored, JobsSound, Shaped
  <2>2. Agreeing(MapPage(page, p.environment))
    BY <2>1, MappedAgrees DEF HandWrittenAgree
  <2>3. \/ pages' = pages
        \/ \E put : pages' = pages \cup {Row(r, page, TRUE, put, MapPage(page, p.environment))}
    BY <1>3 DEF persistPushedPage, KeysOf
  <2>4. \A put : Row(r, page, TRUE, put, MapPage(page, p.environment)).findings = MapPage(page, p.environment)
    BY DEF Row
  <2> QED
    BY <1>1, <1>2, <2>2, <2>3, <2>4
<1>4. CASE persistPage(r)
  <2>1. PICK page \in Crawled :
          \/ pages' = pages
          \/ pages' = pages \cup {Row(r, page, FALSE, page.captured \cup {"screenshot"}, pageFindings(page))}
    BY <1>4 DEF persistPage
  <2>2. Row(r, page, FALSE, page.captured \cup {"screenshot"}, pageFindings(page)).findings = pageFindings(page)
    BY DEF Row
  <2> QED
    BY <1>1, <1>2, <2>1, <2>2, CrawledAgrees
<1>5. CASE ~persistPushedPage(r) /\ ~persistPage(r)
  BY <1>1, <1>5 DEF Step, PushStep, push, handleRotatePluginToken, UpdateToken, InsertToken,
                    handlePluginPush, evalCell
<1> QED
  BY <1>3, <1>4, <1>5

(***************************************************************************)
(* The invariant, and what it says.                                        *)
(***************************************************************************)
RequestsInv == Stored /\ PushedWell /\ Clocked

LEMMA Initially == Init => RequestsInv
<1> SUFFICES ASSUME Init PROVE RequestsInv
  OBVIOUS
<1> USE DEF Init, InitService, InitConfig, InitPush
<1>1. Stored
  <2>1. Sound(Idle)
    BY Elsewhere DEF Idle
  <2>2. DOMAIN inflight = Request /\ JobsSound
    BY <2>1 DEF JobsSound, Sound
  <2>3. /\ targets \in [Target -> [mode : {"none", "login", "plugin"}, driving : BOOLEAN, real : BOOLEAN]]
        /\ \A t \in Target : targets[t].mode # "login"
    OBVIOUS
  <2>4. /\ DOMAIN recipes = Target /\ \A t \in Target : recipes[t] = NoRecipe
        /\ DOMAIN NoRecipe.creds = Refs
    BY NoRecipeTyped
  <2>5. audits \in [Target -> AuditRow] /\ \A t \in Target : ~audits[t].success
    BY NoAuditTyped DEF NoAudit
  <2>6. RowsSound
    BY <2>3, <2>4, <2>5 DEF RowsSound
  <2> QED
    BY <2>2, <2>6 DEF Stored
<1>2. PushedWell
  BY DEF PushedWell, TokensTyped, PagesTyped, KeysResolve
<1>3. Clocked
  BY ServiceAssumption DEF Clocked, Memories, Faded, FadedBuckets, Unused, Nobody
<1> QED
  BY <1>1, <1>2, <1>3 DEF RequestsInv

LEMMA AbandonStored ==
  ASSUME Stored, NEW r \in Request, Abandon(r), UNCHANGED config
  PROVE  Stored'
BY OverSound, NoRowWritten DEF Abandon, Leave, config

LEMMA ReadAPIStored ==
  ASSUME Stored, NEW r \in Request, NEW key \in ApiKey, ReadAPI(r, key), UNCHANGED config
  PROVE  Stored'
BY OverSound, Begins, NoRowWritten DEF ReadAPI, config

LEMMA ConfigKeeps ==
  ASSUME RequestsInv, NEW r \in Request, ConfigStep(r), UNCHANGED push
  PROVE  RequestsInv'
<1>1. Stored'
  BY SubmitAuthStored, DeleteLoginRecipeStored, LoginTestStored, ProcessRunStored, InferStored,
     SaveStored, StartStored, SetLoginRecipeStored, buildLoginStored, StoreDraftStored,
     SetTargetAuditConfigStored, SetDrivingConfigStored, GetTargetAuditConfigStored,
     RunStored, SuccessStored
     DEF ConfigStep, RequestsInv
<1>2. PushedWell'
  BY PushedKept DEF RequestsInv
<1>3. Clocked'
  <2>1. ASSUME NEW t \in Target, LoginTest(r, t) PROVE Clocked'
    BY <2>1, LoginTestClock DEF RequestsInv
  <2>2. CASE \A t \in Target : ~LoginTest(r, t)
    <3>1. UNCHANGED <<limits, heard, now>>
      BY <2>2 DEF ConfigStep, SubmitAuth, DeleteLoginRecipe, ProcessRun, handleInferAuditConfig,
                  handleSaveAuditConfig, handleStartWalkthrough, SetLoginRecipe, buildLogin,
                  StoreDraft, SetTargetAuditConfig, SetDrivingConfig, GetTargetAuditConfig, Run, Success
    <3> QED
      BY <3>1, ClockStill DEF RequestsInv
  <2> QED
    BY <2>1, <2>2
<1> QED
  BY <1>1, <1>2, <1>3 DEF RequestsInv

LEMMA PushKeeps ==
  ASSUME RequestsInv, NEW r \in Request, PushStep(r) \/ evalCell(r), UNCHANGED config
  PROVE  RequestsInv'
<1>1. Stored' /\ PushedWell'
  BY RotateStep, UpdateTokenStep, InsertTokenStep, PushStepStored, persistPushedPageStep,
     persistPageStep, evalCellStep DEF PushStep, RequestsInv
<1>2. CASE handlePluginPush(r)
  BY <1>1, <1>2, handlePluginPushClock DEF RequestsInv
<1>3. CASE ~handlePluginPush(r)
  <2>1. UNCHANGED <<limits, heard, now>>
    BY <1>3 DEF PushStep, handleRotatePluginToken, UpdateToken, InsertToken, persistPushedPage,
                persistPage, evalCell
  <2> QED
    BY <1>1, <2>1, ClockStill DEF RequestsInv
<1> QED
  BY <1>2, <1>3

LEMMA InvNext == RequestsInv /\ [Next]_vars => RequestsInv'
<1> SUFFICES ASSUME RequestsInv, [Next]_vars PROVE RequestsInv'
  OBVIOUS
<1>1. ASSUME NEW r \in Request, NEW key \in ApiKey, ReadAPI(r, key), UNCHANGED <<config, push>>
      PROVE  RequestsInv'
  BY <1>1, ReadAPIStored, ReadAPIClock, PushedKept DEF RequestsInv
<1>2. ASSUME NEW r \in Request, Abandon(r), UNCHANGED <<config, push>> PROVE RequestsInv'
  <2>1. UNCHANGED <<limits, heard, now>>
    BY <1>2 DEF Abandon
  <2> QED
    BY <1>2, <2>1, AbandonStored, ClockStill, PushedKept DEF RequestsInv
<1>3. ASSUME NEW r \in Request, Step(r) PROVE RequestsInv'
  BY <1>1, <1>2, <1>3, ConfigKeeps, PushKeeps DEF Step
<1>4. CASE UNCHANGED vars
  <2>1. UNCHANGED <<targets, inflight, limits, heard, now, recipes, audits, push>>
    BY <1>4 DEF vars, service, config
  <2>2. RowsSound'
    BY <2>1 DEF RequestsInv, Stored, RowsSound, Armed
  <2>3. DOMAIN inflight' = Request /\ \A r \in Request : Sound(inflight'[r])
    BY <2>1 DEF RequestsInv, Stored, JobsSound, Sound
  <2>4. Stored'
    BY <2>2, <2>3 DEF Stored, JobsSound, Sound, Shaped, LoginTaken, GoalTaken
  <2> QED
    BY <2>1, <2>4, ClockStill, PushedKept DEF RequestsInv
<1> QED
  BY <1>3, <1>4 DEF Next

LEMMA Invariance == Spec => []RequestsInv
BY Initially, InvNext, PTL DEF Spec

\* Every table and limiter stays in its type, whatever requests overlap: no bucket is
\* overdrawn by more than the wait of a call that comes late with its time.
THEOREM RequestTypes == Spec => []TypeOK
<1>1. RequestsInv => TypeOK
  BY DEF RequestsInv, Stored, RowsSound, PushedWell, TokensTyped, PagesTyped, Clocked, Memories,
         FadedBuckets, Level, TypeOK
<1> QED
  BY <1>1, Invariance, PTL

\* However saves, clears, deletions, login tests, crawls and drives of the targets
\* overlap, login mode goes with a recipe, and every login taken up is complete.
THEOREM LoginsAreArmed == Spec => []LoginsArmed
<1>1. RequestsInv => LoginsArmed
  <2> SUFFICES ASSUME RequestsInv PROVE LoginsArmed
    OBVIOUS
  <2>1. \A r \in Request : At(r, "probe") \/ At(r, "crawl") \/ At(r, "drive") =>
          (inflight[r].mode = "login" => Armed(inflight[r].login))
    BY DEF RequestsInv, Stored, JobsSound, LoginTaken, At
  <2> QED
    BY <2>1 DEF RequestsInv, Stored, RowsSound, LoginsArmed
<1> QED
  BY <1>1, Invariance, PTL

\* A drive has a goal and a success condition that a person has saved, whatever
\* inferences and saves come between its reads.
THEOREM DrivesAreAuthored == Spec => []DrivenGoalsAuthored
<1>1. RequestsInv => DrivenGoalsAuthored
  <2> SUFFICES ASSUME RequestsInv PROVE DrivenGoalsAuthored
    OBVIOUS
  <2>1. \A r \in Request : At(r, "drive") => inflight[r].goal \in Stated /\ inflight[r].success \in Checked
    BY DEF RequestsInv, Stored, JobsSound, GoalTaken, At
  <2> QED
    BY <2>1 DEF RequestsInv, Stored, RowsSound, DrivenGoalsAuthored, Saved, Stated, Checked
<1> QED
  BY <1>1, Invariance, PTL

\* If the findings that a harness writes by hand agree among themselves, then
\* every pushed page's references resolve, and no page says two things of a metric.
THEOREM PushesAreSound == ASSUME HandWrittenAgree PROVE Spec => []PushSound
<1>1. Init => OneVoice
  BY DEF Init, InitPush, OneVoice
<1>2. RequestsInv /\ OneVoice /\ [Next]_vars => OneVoice'
  <2>1. RequestsInv /\ OneVoice /\ Next => OneVoice'
    BY VoiceStep DEF Next, RequestsInv
  <2>2. OneVoice /\ UNCHANGED vars => OneVoice'
    BY DEF vars, push, OneVoice
  <2> QED
    BY <2>1, <2>2
<1>3. RequestsInv /\ OneVoice => PushSound
  BY DEF RequestsInv, PushedWell, PushSound
<1> QED
  BY <1>1, <1>2, <1>3, Invariance, PTL DEF Spec

\* In whatever order calls enter, each at most the wait behind the latest: no minimum
\* interval is forgotten while it counts (if the wait is less than nine of them), and
\* a bucket that was forgotten gives away no more than what comes in twice the wait.
THEOREM LimitersForgive == Spec => []LimitersRemember
<1>1. RequestsInv => LimitersRemember
  BY Remembers DEF RequestsInv
<1> QED
  BY <1>1, Invariance, PTL

(***************************************************************************)
(* The gate.  A list that was filtered is a function on some positions.    *)
(***************************************************************************)
LEMMA Firsts ==
  ASSUME NEW list, DOMAIN list # {}, DOMAIN list \subseteq Nat
  PROVE  \E i \in DOMAIN list : First(list) = list[i]
<1> DEFINE S == DOMAIN list
<1>1. PICK i \in S : \A j \in S : <<j, i>> \notin OpToRel(<, Nat)
  BY WFMin, NatLessThanWellFounded, Zenon
<1>2. \A j \in S : ~ (j < i)
  BY <1>1, Zenon DEF OpToRel
<1>3. \A j \in S : i <= j
  BY <1>2
<1>4. Lists!Min(S) \in S
  BY <1>3 DEF Lists!Min
<1> QED
  BY <1>4 DEF First

LEMMA RowSelectors ==
  ASSUME NEW d, IsDigest(d), NEW e \in Rows(d)
  PROVE  Ordered(e.sel)
BY DEF IsDigest, Rows, Lists!Range

LEMMA Hit ==
  ASSUME NEW d, IsDigest(d), NEW sel, Ordered(sel), Quotes(d, sel)
  PROVE  Ordered(reanchor(d, sel)) /\ isListed(d, reanchor(d, sel))
<1> DEFINE n == First(Hits(d, sel))
<1>1. /\ DOMAIN Hits(d, sel) \subseteq Nat
      /\ \A i \in DOMAIN Hits(d, sel) : Cardinality(Candidates(d, Hits(d, sel)[i])) = 1
  BY DEF Hits, Ordered, Lists!RestrictValues, Lists!Restrict
<1>2. Cardinality(Candidates(d, n)) = 1
  BY <1>1, Firsts DEF Quotes
<1>3. Candidates(d, n) # {}
  BY <1>2, FS_EmptySet
<1>4. reanchor(d, sel) \in Candidates(d, n)
  BY <1>3 DEF reanchor
<1> HIDE DEF n
<1>5. PICK e \in Named(d) : reanchor(d, sel) = e.sel
  BY <1>4 DEF Candidates, Holders
<1> QED
  BY <1>5, RowSelectors DEF Named, isListed

LEMMA Looked ==
  ASSUME NEW d, NEW sel, Ordered(sel), DOMAIN lookup(d, sel) # {}
  PROVE  First(lookup(d, sel)) \in ConcreteKeys(sel)
<1>1. /\ DOMAIN lookup(d, sel) \subseteq Nat
      /\ \A i \in DOMAIN lookup(d, sel) : lookup(d, sel)[i] \in ConcreteKeys(sel)
  BY DEF lookup, Ordered, Lists!RestrictValues, Lists!Restrict, ConcreteKeys, Lists!Range
<1> QED
  BY <1>1, Firsts

\* A finding that was moved says the same of another selector.
LEMMA Moving ==
  ASSUME NEW f, IsFinding(f), NEW sel, Ordered(sel)
  PROVE  LET g == [f EXCEPT !.sel = sel]
         IN  IsFinding(g) /\ g.sel = sel /\ (mechanical(g) <=> mechanical(f))
<1> DEFINE g == [f EXCEPT !.sel = sel]
<1>1. DOMAIN f = {"sel", "missingLabel", "notOperable", "verified", "issue"}
  BY DEF IsFinding, NoFinding
<1>2. /\ DOMAIN g = DOMAIN f /\ g.sel = sel
      /\ g.missingLabel = f.missingLabel /\ g.notOperable = f.notOperable
  BY <1>1
<1> HIDE DEF g
<1>3. IsFinding(g)
  BY <1>2 DEF IsFinding
<1>4. mechanical(g) <=> mechanical(f)
  BY <1>2 DEF mechanical
<1> QED
  BY <1>2, <1>3, <1>4 DEF g

LEMMA Grounding ==
  ASSUME NEW d, IsDigest(d), NEW f, IsFinding(f)
  PROVE  /\ IsFinding(ground(d, f))
         /\ mechanical(ground(d, f)) <=> mechanical(f)
         /\ Grounded(d, f) => Kept(d, f) /\ ground(d, f) = f
         /\ Kept(d, f) => Kept(d, ground(d, f)) /\ ground(d, ground(d, f)) = ground(d, f)
         /\ Kept(d, f) /\ mechanical(f) /\ digestVocabularyComplete(d) => isListed(d, ground(d, f).sel)
<1>1. Ordered(f.sel)
  BY DEF IsFinding
<1>2. CASE ~Grounded(d, f) /\ Quotes(d, f.sel)
  <2> DEFINE g == [f EXCEPT !.sel = reanchor(d, f.sel)]
  <2>1. IsFinding(g) /\ g.sel = reanchor(d, f.sel) /\ (mechanical(g) <=> mechanical(f))
    BY <1>1, <1>2, Hit, Moving
  <2>3. ground(d, f) = g
    BY <1>2 DEF ground
  <2> HIDE DEF g
  <2>2. isListed(d, g.sel)
    BY <1>1, <1>2, <2>1, Hit
  <2>4. Grounded(d, g)
    BY <2>2 DEF Grounded
  <2>5. Kept(d, g) /\ ground(d, g) = g
    BY <2>4 DEF Kept, ground
  <2> QED
    BY <1>2, <2>1, <2>2, <2>3, <2>5
<1>3. CASE Grounded(d, f) \/ ~Quotes(d, f.sel)
  <2>1. ground(d, f) = f
    BY <1>3 DEF ground
  <2> QED
    BY <1>3, <2>1 DEF Kept, Grounded
<1> QED
  BY <1>2, <1>3

\* What the gate leaves, position by position.
Remains(pe, d) == {i \in DOMAIN pe.findings :
  Kept(d, pe.findings[i]) /\ ~contradicts(d, ground(d, pe.findings[i]))}
Fixed(f, d) == IF ~Kept(d, f) THEN NoFinding
               ELSE IF contradicts(d, ground(d, f)) THEN NoFinding ELSE ground(d, f)

LEMMA NoClaim == ~mechanical(NoFinding) /\ IsFinding(NoFinding)
<1>1. ~NoFinding.missingLabel /\ ~NoFinding.notOperable
  BY DEF NoFinding
<1>2. NoFinding.sel.keys = <<>> /\ NoFinding.sel.lits = <<>>
  BY DEF NoFinding
<1>3. DOMAIN <<>> \subseteq Nat
  OBVIOUS
<1> QED
  BY <1>1, <1>2, <1>3 DEF mechanical, IsFinding, Ordered

LEMMA Gated ==
  ASSUME NEW d, ~IsEmpty(d), NEW pe
  PROVE  applyDOMGate(pe, d) = [findings |-> [i \in Remains(pe, d) |-> ground(d, pe.findings[i])],
                                topFix   |-> Fixed(pe.topFix, d)]
<1> DEFINE some == Lists!RestrictValues(pe.findings, LAMBDA f : Kept(d, f))
           mid  == [findings |-> [i \in DOMAIN some |-> ground(d, some[i])],
                    topFix   |-> IF Kept(d, pe.topFix) THEN ground(d, pe.topFix) ELSE NoFinding]
           left == Lists!RestrictValues(mid.findings, LAMBDA f : ~contradicts(d, f))
<1>1. /\ DOMAIN some = {i \in DOMAIN pe.findings : Kept(d, pe.findings[i])}
      /\ \A i \in DOMAIN some : some[i] = pe.findings[i]
  BY DEF Lists!RestrictValues, Lists!Restrict
<1> HIDE DEF some
<1>2. left = [i \in {j \in DOMAIN some : ~contradicts(d, ground(d, some[j]))} |-> ground(d, some[i])]
  BY DEF Lists!RestrictValues, Lists!Restrict
<1>3. {j \in DOMAIN some : ~contradicts(d, ground(d, some[j]))} = Remains(pe, d)
  BY <1>1 DEF Remains
<1>4. left = [i \in Remains(pe, d) |-> ground(d, pe.findings[i])]
  BY <1>1, <1>2, <1>3
<1>5. mid.topFix = (IF Kept(d, pe.topFix) THEN ground(d, pe.topFix) ELSE NoFinding)
  OBVIOUS
<1>6. (IF contradicts(d, mid.topFix) THEN NoFinding ELSE mid.topFix) = Fixed(pe.topFix, d)
  BY <1>5, NoClaim DEF Fixed, contradicts
<1>7. applyDOMGate(pe, d) = [findings |-> left, topFix |-> IF contradicts(d, mid.topFix) THEN NoFinding ELSE mid.topFix]
  BY DEF applyDOMGate, dropContradicted, groundSelectors, some
<1> QED
  BY <1>4, <1>6, <1>7

\* A digest without rows judges nothing.
LEMMA NoRows ==
  ASSUME NEW d, IsEmpty(d)
  PROVE  /\ Rows(d) = {} /\ ~digestVocabularyComplete(d)
         /\ \A sel : ~isListed(d, sel)
         /\ \A pe : applyDOMGate(pe, d) = pe
<1>1. Rows(d) = {}
  BY DEF IsEmpty, Rows, Lists!Range
<1> QED
  BY <1>1 DEF IsEmpty, digestVocabularyComplete, isListed, applyDOMGate, dropContradicted, groundSelectors

\* What the gate keeps is listed and not refuted, and stays through another gate.
LEMMA Settled ==
  ASSUME NEW d, IsDigest(d), NEW f, IsFinding(f)
  PROVE  LET g == Fixed(f, d)
         IN  /\ mechanical(g) /\ digestVocabularyComplete(d) => isListed(d, g.sel)
             /\ ~contradicts(d, g)
             /\ Fixed(g, d) = g
<1>1. CASE Kept(d, f) /\ ~contradicts(d, ground(d, f))
  <2>1. Fixed(f, d) = ground(d, f)
    BY <1>1 DEF Fixed
  <2>2. Fixed(ground(d, f), d) = ground(d, f)
    BY <1>1, Grounding DEF Fixed
  <2> QED
    BY <1>1, <2>1, <2>2, Grounding
<1>2. CASE ~(Kept(d, f) /\ ~contradicts(d, ground(d, f)))
  <2>1. Fixed(f, d) = NoFinding
    BY <1>2 DEF Fixed
  <2>2. Kept(d, NoFinding) /\ ground(d, NoFinding) = NoFinding /\ ~contradicts(d, NoFinding)
    BY NoClaim DEF Kept, Grounded, ground, contradicts
  <2>3. Fixed(NoFinding, d) = NoFinding
    BY <2>2 DEF Fixed
  <2> QED
    BY <2>1, <2>2, <2>3, NoClaim
<1> QED
  BY <1>1, <1>2

\* A digest of which a row's label is what its source says, and anchors agree.
Sane(d) == ~Conflicting(d) /\ \A i \in DOMAIN d.forms : d.forms[i].hasLabel => d.forms[i].source \in Programmatic

LEMMA Spoken ==
  ASSUME NEW d, Sane(d), NEW k, hasProgLabel(d, k)
  PROVE  Labelled(d, k)
<1>1. PICK e \in Rows(d) : k \in ConcreteKeys(e.sel) /\ e.source \in Programmatic
  <2>1. ASSUME NEW i \in DOMAIN d.interactive, k \in ConcreteKeys(d.interactive[i].sel),
               d.interactive[i].source \in Programmatic
        PROVE  \E e \in Rows(d) : k \in ConcreteKeys(e.sel) /\ e.source \in Programmatic
    BY <2>1 DEF Rows, Lists!Range
  <2>2. ASSUME NEW i \in DOMAIN d.forms, k \in ConcreteKeys(d.forms[i].sel), d.forms[i].hasLabel
        PROVE  \E e \in Rows(d) : k \in ConcreteKeys(e.sel) /\ e.source \in Programmatic
    BY <2>2 DEF Rows, Lists!Range, Sane
  <2> QED
    BY <2>1, <2>2 DEF hasProgLabel, Anchored, Lists!Range, Lists!RestrictValues, Lists!Restrict
<1> QED
  BY <1>1 DEF Labelled, Sane, Conflicting

Judged(c) ==
  /\ c.after = applyDOMGate(c.before, c.digest)
  /\ IsDraft(c.before) /\ IsDigest(c.digest)
  /\ c.page.pushed => Sane(c.digest)

LEMMA Judgement ==
  ASSUME NEW c, Judged(c)
  PROVE  /\ Opinions(c.after.findings) = Opinions(c.before.findings)
         /\ IsEmpty(c.digest) => c.after = c.before
         /\ \A f \in Held(c) \cup {c.after.topFix} :
              /\ mechanical(f) /\ digestVocabularyComplete(c.digest) => isListed(c.digest, f.sel)
              /\ IsEmpty(c.digest) \/ ~contradicts(c.digest, f)
         /\ \A f \in Dropped(c) :
              /\ mechanical(f)
              /\ c.page.pushed /\ ~f.notOperable => \E k \in ConcreteKeys(f.sel) : Labelled(c.digest, k)
         /\ applyDOMGate(c.after, c.digest) = c.after
<1>1. CASE IsEmpty(c.digest)
  <2>1. c.after = c.before /\ applyDOMGate(c.after, c.digest) = c.after
    BY <1>1, NoRows DEF Judged
  <2>2. Dropped(c) = {} /\ ~digestVocabularyComplete(c.digest)
    BY <1>1, NoRows DEF Dropped
  <2> QED
    BY <1>1, <2>1, <2>2
<1>2. CASE ~IsEmpty(c.digest)
  <2> DEFINE d    == c.digest
             pe   == c.before
             left == Remains(pe, d)
  <2>1. IsDigest(d) /\ IsFinding(pe.topFix) /\ \A i \in DOMAIN pe.findings : IsFinding(pe.findings[i])
    BY DEF Judged, IsDraft
  <2>2. c.after = [findings |-> [i \in left |-> ground(d, pe.findings[i])], topFix |-> Fixed(pe.topFix, d)]
    BY <1>2, Gated DEF Judged
  <2>3. /\ c.after.topFix = Fixed(pe.topFix, d)
        /\ c.after.findings = [i \in left |-> ground(d, pe.findings[i])]
    BY <2>2
  <2>4. \A i \in left : /\ i \in DOMAIN pe.findings /\ IsFinding(pe.findings[i])
                        /\ Kept(d, pe.findings[i]) /\ ~contradicts(d, ground(d, pe.findings[i]))
    BY <2>1 DEF Remains
  <2> HIDE DEF d, pe, left
  <2>5. Opinions(c.after.findings) = Opinions(pe.findings)
    <3> DEFINE F == pe.findings
               G == [i \in left |-> ground(d, F[i])]
    <3>1. \A i \in left : mechanical(ground(d, F[i])) <=> mechanical(F[i])
      BY <2>1, <2>4, Grounding
    <3>2. \A i \in DOMAIN F : ~mechanical(F[i]) => i \in left /\ ground(d, F[i]) = F[i]
      <4> SUFFICES ASSUME NEW i \in DOMAIN F, ~mechanical(F[i]) PROVE i \in left /\ ground(d, F[i]) = F[i]
        OBVIOUS
      <4>1. Kept(d, F[i]) /\ ground(d, F[i]) = F[i] /\ ~contradicts(d, F[i])
        BY DEF Kept, Grounded, ground, contradicts
      <4> QED
        BY <4>1 DEF left, Remains
    <3> HIDE DEF F
    <3>3. {i \in DOMAIN G : ~mechanical(G[i])} = {i \in DOMAIN F : ~mechanical(F[i])}
      BY <2>4, <3>1, <3>2 DEF F
    <3>4. \A i \in {x \in DOMAIN F : ~mechanical(F[x])} : G[i] = F[i]
      BY <3>2
    <3> HIDE DEF G
    <3>5. Opinions(G) = [i \in {x \in DOMAIN G : ~mechanical(G[x])} |-> G[i]]
      BY DEF Opinions, Lists!RestrictValues, Lists!Restrict
    <3>6. Opinions(F) = [i \in {x \in DOMAIN F : ~mechanical(F[x])} |-> F[i]]
      BY DEF Opinions, Lists!RestrictValues, Lists!Restrict
    <3>7. Opinions(G) = Opinions(F)
      BY <3>3, <3>4, <3>5, <3>6
    <3> QED
      BY <2>3, <3>7 DEF F, G
  <2>6. \A f \in Held(c) \cup {c.after.topFix} :
          /\ mechanical(f) /\ digestVocabularyComplete(d) => isListed(d, f.sel)
          /\ ~contradicts(d, f)
    <3>1. ASSUME NEW i \in left
          PROVE  LET g == ground(d, pe.findings[i])
                 IN  /\ mechanical(g) /\ digestVocabularyComplete(d) => isListed(d, g.sel)
                     /\ ~contradicts(d, g)
      BY <2>1, <2>4, <3>1, Grounding
    <3> QED
      BY <2>1, <2>3, <3>1, Settled DEF Held
  <2>7. ASSUME NEW f \in Dropped(c)
        PROVE  /\ mechanical(f)
               /\ c.page.pushed /\ ~f.notOperable => \E k \in ConcreteKeys(f.sel) : Labelled(d, k)
    <3>1. PICK i \in DOMAIN pe.findings : f = pe.findings[i]
      BY DEF Dropped, Claims, pe
    <3>2. isListed(d, f.sel) /\ f \notin Held(c)
      BY DEF Dropped, d
    <3>3. IsFinding(f) /\ Kept(d, f) /\ ground(d, f) = f
      BY <2>1, <3>1, <3>2 DEF Kept, Grounded, ground
    <3>4. i \notin left
      BY <2>3, <3>1, <3>2, <3>3 DEF Held
    <3>5. contradicts(d, f)
      BY <3>1, <3>3, <3>4 DEF left, Remains
    <3>6. mechanical(f) /\ DOMAIN lookup(d, f.sel) # {}
      BY <3>5 DEF contradicts
    <3>7. ~f.notOperable => hasProgLabel(d, First(lookup(d, f.sel)))
      BY <3>5 DEF contradicts
    <3>8. First(lookup(d, f.sel)) \in ConcreteKeys(f.sel)
      BY <3>3, <3>6, Looked DEF IsFinding
    <3> QED
      BY <3>6, <3>7, <3>8, Spoken DEF Judged, d
  <2>8. applyDOMGate(c.after, d) = c.after
    <3> DEFINE A == c.after
               G == A.findings
    <3>1. DOMAIN G = left /\ \A i \in left : G[i] = ground(d, pe.findings[i])
      BY <2>3
    <3>2. \A i \in left : Kept(d, G[i]) /\ ground(d, G[i]) = G[i] /\ ~contradicts(d, G[i])
      BY <2>1, <2>4, <3>1, Grounding
    <3>3. Remains(A, d) = left
      BY <3>1, <3>2 DEF Remains
    <3>4. [i \in Remains(A, d) |-> ground(d, G[i])] = [i \in left |-> ground(d, pe.findings[i])]
      BY <3>1, <3>2, <3>3
    <3>5. Fixed(A.topFix, d) = Fixed(pe.topFix, d)
      BY <2>1, <2>3, Settled
    <3>6. applyDOMGate(A, d) = [findings |-> [i \in Remains(A, d) |-> ground(d, G[i])], topFix |-> Fixed(A.topFix, d)]
      BY <1>2, Gated DEF d
    <3> HIDE DEF A, G
    <3>7. applyDOMGate(A, d) = A
      BY <2>2, <3>4, <3>5, <3>6 DEF A
    <3> QED
      BY <3>7 DEF A
  <2> QED
    BY <1>2, <2>5, <2>6, <2>7, <2>8 DEF d, pe
<1> QED
  BY <1>1, <1>2

(***************************************************************************)
(* Where the digests come from: a run's objects are stored by the request  *)
(* that is the run, which is a push or a crawl from its beginning.         *)
(***************************************************************************)
OfRun(r) == {key \in DOMAIN store : key[1] = r}
Storing == {"persist", "crawl", "over"}

Filed == \A key \in DOMAIN store : IsDigest(store[key])
Harnessed == \A p \in pages : p.pushed => \A key \in OfRun(p.run) : Sane(store[key])
Sourced(r) ==
  /\ At(r, "persist") => \A key \in OfRun(r) : Sane(store[key])
  /\ At(r, "crawl") => \A p \in pages : p.run = r => ~p.pushed
  /\ inflight[r].op \notin Storing => OfRun(r) = {} /\ \A p \in pages : p.run # r

GateInv == /\ Filed /\ Harnessed
           /\ \A r \in Request : Sourced(r)
           /\ \A c \in Cells : Judged(c)

LEMMA CellsKept ==
  ASSUME DOMAIN inflight = Request, \A c \in Cells : Judged(c), NEW r \in Request, NEW job, Proceed(r, job),
         job.op = "cell" => Judged(job)
  PROVE  /\ \A c \in Cells' : Judged(c)
         /\ \A x \in Request : inflight'[x] = IF x = r THEN job ELSE inflight[x]
<1>1. \A x \in Request : inflight'[x] = IF x = r THEN job ELSE inflight[x]
  BY DEF Proceed
<1>2. ASSUME NEW x \in Request, inflight'[x].op = "cell" PROVE Judged(inflight'[x])
  <2>1. CASE x = r
    BY <1>1, <1>2, <2>1
  <2>2. CASE x # r
    BY <1>1, <1>2, <2>2 DEF Cells, At
  <2> QED
    BY <2>1, <2>2
<1>3. \A c \in Cells' : \E x \in Request : c = inflight'[x] /\ inflight'[x].op = "cell"
  BY DEF Cells, At
<1> QED
  BY <1>1, <1>2, <1>3

\* A step that stores nothing, of a request that has stored nothing or is over.
Calm(r, job) == /\ Proceed(r, job) /\ UNCHANGED <<pages, store>>
                /\ job.op = "over" \/ inflight[r].op \notin Storing

LEMMA CalmKeeps ==
  ASSUME DOMAIN inflight = Request, GateInv, NEW r \in Request, NEW job, Calm(r, job),
         job.op = "cell" => Judged(job)
  PROVE  GateInv'
<1>1. /\ \A c \in Cells' : Judged(c)
      /\ \A x \in Request : inflight'[x] = IF x = r THEN job ELSE inflight[x]
  BY CellsKept DEF GateInv, Calm
<1>2. UNCHANGED <<pages, store>>
  BY DEF Calm
<1>3. Filed' /\ Harnessed'
  BY <1>2 DEF GateInv, Filed, Harnessed, OfRun
<1>4. ASSUME NEW x \in Request PROVE Sourced(x)'
  <2>1. CASE x # r
    BY <1>1, <1>2, <2>1 DEF GateInv, Sourced, At, OfRun
  <2>2. CASE x = r /\ job.op = "over"
    BY <1>1, <2>2 DEF Sourced, At, Storing
  <2>3. CASE x = r /\ inflight[r].op \notin Storing
    <3>1. OfRun(r)' = {} /\ \A p \in pages' : p.run # r
      BY <1>2, <2>3 DEF GateInv, Sourced, OfRun
    <3> QED
      BY <2>3, <3>1 DEF Sourced
  <2> QED
    BY <2>1, <2>2, <2>3 DEF Calm
<1> QED
  BY <1>1, <1>3, <1>4 DEF GateInv

LEMMA Starting ==
  ASSUME NEW r \in Request, NEW job, Begin(r, job), job.op # "cell", UNCHANGED <<pages, store>>
  PROVE  \E x : Calm(r, x) /\ x.op # "cell"
<1>1. inflight[r].op = "idle"
  BY DEF Begin, Idle
<1> QED
  BY <1>1, Begins DEF Calm, Storing

LEMMA Leaving ==
  ASSUME NEW r \in Request, Leave(r), UNCHANGED <<pages, store>>
  PROVE  \E x : Calm(r, x) /\ x.op # "cell"
<1>1. Over.op = "over"
  BY DEF Over
<1> QED
  BY <1>1 DEF Calm, Leave

LEMMA ConfigCalm ==
  ASSUME Stored, NEW r \in Request, ConfigStep(r), UNCHANGED push
  PROVE  \E x : Calm(r, x) /\ x.op # "cell"
<1> DEFINE Q == \E x : Calm(r, x) /\ x.op # "cell"
           job == inflight[r]
<1>0. UNCHANGED <<pages, store>> /\ Over.op # "cell" /\ Sound(job)
  BY DEF push, Over, Stored, JobsSound, Sound
<1>1. ASSUME NEW t \in Target, SubmitAuth(r, t) PROVE Q
  <2>1. PICK next : Begin(r, next) /\ next.op \in {"SetLoginRecipe", "over"}
    BY <1>1 DEF SubmitAuth, Over
  <2> QED
    BY <1>0, <2>1, Starting
<1>2. ASSUME NEW t \in Target, LoginTest(r, t) PROVE Q
  <2>1. PICK next : Begin(r, next) /\ next.op \in {"probe", "over"}
    BY <1>2 DEF LoginTest, Over
  <2> QED
    BY <1>0, <2>1, Starting
<1>3. ASSUME NEW t \in Target, DeleteLoginRecipe(r, t) PROVE Q
  BY <1>0, <1>3, Starting DEF DeleteLoginRecipe
<1>4. ASSUME NEW t \in Target, ProcessRun(r, t) PROVE Q
  <2>1. PICK next : Begin(r, next) /\ next.op = "buildLogin"
    BY <1>4 DEF ProcessRun
  <2> QED
    BY <1>0, <2>1, Starting
<1>5. ASSUME NEW t \in Target, handleInferAuditConfig(r, t) PROVE Q
  <2>1. PICK next : Begin(r, next) /\ next.op = "StoreDraft"
    BY <1>5 DEF handleInferAuditConfig
  <2> QED
    BY <1>0, <2>1, Starting
<1>6. ASSUME NEW t \in Target, handleSaveAuditConfig(r, t) PROVE Q
  <2>1. PICK next : Begin(r, next) /\ next.op = "SetTargetAuditConfig"
    BY <1>6 DEF handleSaveAuditConfig
  <2> QED
    BY <1>0, <2>1, Starting
<1>7. ASSUME NEW t \in Target, handleStartWalkthrough(r, t) PROVE Q
  <2>1. PICK next : Begin(r, next) /\ next.op \in {"GetTargetAuditConfig", "over"}
    BY <1>7 DEF handleStartWalkthrough, Over
  <2> QED
    BY <1>0, <2>1, Starting
<1>8. ASSUME SetLoginRecipe(r) \/ StoreDraft(r) \/ SetDrivingConfig(r) PROVE Q
  BY <1>0, <1>8, Leaving DEF SetLoginRecipe, StoreDraft, SetDrivingConfig
<1>9. ASSUME SetTargetAuditConfig(r) PROVE Q
  <2> DEFINE next == [job EXCEPT !.op = "SetDrivingConfig"]
  <2>1. job.op = "SetTargetAuditConfig" /\ Proceed(r, next)
    BY <1>9 DEF SetTargetAuditConfig, At
  <2>2. "op" \in DOMAIN job
    BY <1>0, <2>1 DEF Sound, Shaped
  <2>3. next.op = "SetDrivingConfig"
    BY <2>2
  <2> HIDE DEF next
  <2> QED
    BY <1>0, <2>1, <2>3 DEF Calm, Storing
<1>10. ASSUME GetTargetAuditConfig(r) PROVE Q
  <2>1. job.op = "GetTargetAuditConfig"
    BY <1>10 DEF GetTargetAuditConfig, At
  <2> DEFINE next == [op |-> "Run", next |-> "drive", target |-> job.target, goal |-> audits[job.target],
                      success |-> NoAudit, dry |-> ~job.real, mode |-> "none", login |-> NoRecipe]
  <2>2. (Leave(r) \/ Proceed(r, next)) /\ next.op = "Run"
    BY <1>10 DEF GetTargetAuditConfig
  <2> HIDE DEF next
  <2> QED
    BY <1>0, <2>1, <2>2, Leaving DEF Calm, Storing
<1>11. ASSUME Run(r) PROVE Q
  <2> DEFINE t == targets[job.target]
             next == [job EXCEPT !.op = "Success", !.mode = t.mode, !.dry = @ \/ ~t.real]
  <2>1. job.op = "Run"
    BY <1>11 DEF Run, At
  <2>2. DOMAIN job = DriveFields
    BY <1>0, <2>1 DEF Sound, Shaped
  <2>3. Leave(r) \/ Proceed(r, next)
    BY <1>11 DEF Run
  <2>4. next.op = "Success"
    BY <2>2 DEF DriveFields
  <2> HIDE DEF next
  <2> QED
    BY <1>0, <2>1, <2>3, <2>4, Leaving DEF Calm, Storing
<1>12. ASSUME Success(r) PROVE Q
  <2> DEFINE next == [job EXCEPT !.op = "buildLogin", !.success = audits[job.target]]
  <2>1. job.op = "Success" /\ (Leave(r) \/ Proceed(r, next))
    BY <1>12 DEF Success, At
  <2>2. DOMAIN job = DriveFields
    BY <1>0, <2>1 DEF Sound, Shaped
  <2>4. next.op = "buildLogin"
    BY <2>2 DEF DriveFields
  <2> HIDE DEF next
  <2> QED
    BY <1>0, <2>1, <2>4, Leaving DEF Calm, Storing
<1>13. ASSUME buildLogin(r) PROVE Q
  <2> DEFINE next == [job EXCEPT !.op = job.next, !.login = StoredLogin(job)]
  <2>1. job.op = "buildLogin" /\ (Leave(r) \/ Proceed(r, next))
    BY <1>13 DEF buildLogin, At
  <2>2. "op" \in DOMAIN job /\ job.next \in {"drive", "crawl"}
    BY <1>0, <2>1 DEF Sound, Shaped, DriveFields, CrawlFields
  <2>3. next.op = job.next
    BY <2>2
  <2> HIDE DEF next
  <2> QED
    BY <1>0, <2>1, <2>2, <2>3, Leaving DEF Calm, Storing
<1> HIDE DEF Q, job
<1>14. Q
  BY <1>1, <1>2, <1>3, <1>4, <1>5, <1>6, <1>7, <1>8, <1>9, <1>10, <1>11, <1>12, <1>13 DEF ConfigStep
<1> QED
  BY <1>14 DEF Q

LEMMA TokensCalm ==
  ASSUME NEW r \in Request,
         \/ \E t \in PushTarget : handleRotatePluginToken(r, t)
         \/ UpdateToken(r) \/ InsertToken(r) \/ handlePluginPush(r)
  PROVE  \E x : Calm(r, x) /\ x.op # "cell"
<1>1. Over.op = "over"
  BY DEF Over
<1>2. ASSUME NEW t \in PushTarget, handleRotatePluginToken(r, t) PROVE \E x : Calm(r, x) /\ x.op # "cell"
  <2>1. PICK next : Begin(r, next) /\ next.op \in {"UpdateToken", "over"}
    BY <1>1, <1>2 DEF handleRotatePluginToken
  <2> QED
    BY <1>2, <2>1, Starting DEF handleRotatePluginToken, push
<1>3. CASE UpdateToken(r)
  <2>1. inflight[r].op = "UpdateToken" /\ UNCHANGED <<pages, store>>
    BY <1>3 DEF UpdateToken, At
  <2>2. Leave(r) \/ \E next : Proceed(r, next) /\ next.op = "InsertToken"
    BY <1>3 DEF UpdateToken
  <2> QED
    BY <2>1, <2>2, Leaving DEF Calm, Storing
<1>4. CASE InsertToken(r)
  BY <1>4, Leaving DEF InsertToken
<1>5. CASE handlePluginPush(r)
  <2>1. PICK next : Begin(r, next) /\ next.op \in {"persist", "over"}
    BY <1>1, <1>5 DEF handlePluginPush
  <2> QED
    BY <1>5, <2>1, Starting DEF handlePluginPush, push
<1> QED
  BY <1>2, <1>3, <1>4, <1>5

LEMMA Digests ==
  /\ IsDigest(NoDigest) /\ Sane(NoDigest)
  /\ \A d : IsDigest(d) => IsDigest(NormalizeA11yDigest(d)) /\ Sane(NormalizeA11yDigest(d))
<1>1. /\ NoDigest.interactive = <<>> /\ NoDigest.forms = <<>> /\ DOMAIN <<>> = {}
  BY DEF NoDigest
<1>2. Rows(NoDigest) = {}
  BY <1>1 DEF Rows, Lists!Range
<1>3. IsDigest(NoDigest) /\ Sane(NoDigest)
  BY <1>1, <1>2 DEF IsDigest, Sane, Conflicting
<1>4. ASSUME NEW d, IsDigest(d), ~Conflicting(d) PROVE IsDigest(Derived(d)) /\ Sane(Derived(d))
  <2> DEFINE e == Derived(d)
  <2>1. DOMAIN d = {"interactive", "forms", "landmarks"}
    BY <1>4 DEF IsDigest, NoDigest
  <2>2. /\ DOMAIN e = DOMAIN d /\ e.interactive = d.interactive
        /\ e.forms = [i \in DOMAIN d.forms |-> [d.forms[i] EXCEPT !.hasLabel = d.forms[i].source \in Programmatic]]
    BY <2>1 DEF Derived
  <2> HIDE DEF e
  <2>3. ASSUME NEW i \in DOMAIN d.forms
        PROVE  /\ i \in DOMAIN e.forms /\ DOMAIN e.forms[i] = DOMAIN d.forms[i]
               /\ e.forms[i].sel = d.forms[i].sel /\ e.forms[i].source = d.forms[i].source
               /\ e.forms[i].hasLabel = (d.forms[i].source \in Programmatic)
    <3>1. {"sel", "hasLabel"} \subseteq DOMAIN d.forms[i]
      BY <1>4 DEF IsDigest
    <3> DEFINE c == d.forms[i]
               x == [c EXCEPT !.hasLabel = c.source \in Programmatic]
    <3>2. e.forms[i] = x /\ i \in DOMAIN e.forms
      BY <2>2
    <3>3. DOMAIN x = DOMAIN c /\ x.sel = c.sel /\ x.hasLabel = (c.source \in Programmatic)
      BY <3>1
    <3>4. x.source = c.source
      BY <3>1
    <3> HIDE DEF c, x
    <3> QED
      BY <3>2, <3>3, <3>4 DEF c
  <2>4. DOMAIN e.forms = DOMAIN d.forms
    BY <2>2
  <2>5. IsDigest(e)
    BY <1>4, <2>2, <2>3, <2>4 DEF IsDigest
  <2>6. ASSUME NEW x \in Rows(e) PROVE \E y \in Rows(d) : x.sel = y.sel /\ x.source = y.source
    <3>1. CASE x \in Lists!Range(e.interactive)
      BY <2>2, <3>1 DEF Rows
    <3>2. CASE x \in Lists!Range(e.forms)
      <4>1. PICK i \in DOMAIN d.forms : x = e.forms[i]
        BY <2>4, <3>2 DEF Lists!Range
      <4>2. d.forms[i] \in Rows(d)
        BY DEF Rows, Lists!Range
      <4> QED
        BY <2>3, <4>1, <4>2
    <3> QED
      BY <3>1, <3>2 DEF Rows
  <2>7. ~Conflicting(e)
    BY <1>4, <2>6 DEF Conflicting
  <2> QED
    BY <2>3, <2>4, <2>5, <2>7 DEF Sane, e
<1> QED
  BY <1>3, <1>4 DEF NormalizeA11yDigest

\* An object of a run's page, stored over what was there.
LEMMA Stores ==
  ASSUME Filed, NEW r \in Request, NEW page, NEW put, NEW d, IsDigest(d),
         store' = Put(r, page, put, d)
  PROVE  /\ Filed'
         /\ \A x : x # r => OfRun(x)' = OfRun(x) /\ \A key \in OfRun(x) : store'[key] = store[key]
         /\ Sane(d) /\ (\A key \in OfRun(r) : Sane(store[key])) =>
              \A key \in OfRun(r)' : Sane(store'[key])
<1> DEFINE new == {Key(r, page, k) : k \in put}
<1>1. /\ DOMAIN store' = DOMAIN store \cup new
      /\ \A key \in DOMAIN store' :
           IF key \in new THEN store'[key] \in {d, NoDigest} ELSE store'[key] = store[key]
  <2>1. store' = [key \in DOMAIN store \cup new |->
                    IF key \notin new THEN store[key]
                    ELSE IF key = Key(r, page, "a11y") THEN d ELSE NoDigest]
    BY DEF Put
  <2> HIDE DEF new
  <2> QED
    BY <2>1
<1>2. \A key \in new : key[1] = r
  BY DEF Key
<1> HIDE DEF new
<1>3. Filed'
  BY <1>1, Digests DEF Filed
<1>4. \A x : x # r => OfRun(x)' = OfRun(x) /\ \A key \in OfRun(x) : store'[key] = store[key]
  BY <1>1, <1>2 DEF OfRun
<1>5. ASSUME Sane(d), \A key \in OfRun(r) : Sane(store[key])
      PROVE  \A key \in OfRun(r)' : Sane(store'[key])
  BY <1>1, <1>5, Digests DEF OfRun
<1> QED
  BY <1>3, <1>4, <1>5

\* A push that is under way, or a crawl, goes on.
LEMMA StoringKeeps ==
  ASSUME DOMAIN inflight = Request, GateInv, NEW r \in Request, NEW page, NEW put, NEW d, IsDigest(d),
         store' = Put(r, page, put, d),
         NEW job, Proceed(r, job), job.op \in {inflight[r].op, "over"},
         NEW row, row.run = r, pages' = pages \/ pages' = pages \cup {row},
         \/ At(r, "persist") /\ Sane(d)
         \/ At(r, "crawl") /\ ~row.pushed
  PROVE  GateInv'
<1>1. /\ \A c \in Cells' : Judged(c)
      /\ \A x \in Request : inflight'[x] = IF x = r THEN job ELSE inflight[x]
  BY CellsKept DEF GateInv, At
<1>2. /\ Filed'
      /\ \A x : x # r => OfRun(x)' = OfRun(x) /\ \A key \in OfRun(x) : store'[key] = store[key]
      /\ Sane(d) /\ (\A key \in OfRun(r) : Sane(store[key])) =>
           \A key \in OfRun(r)' : Sane(store'[key])
  BY Stores DEF GateInv
<1>3. At(r, "persist") => \A key \in OfRun(r)' : Sane(store'[key])
  BY <1>2 DEF GateInv, Sourced, At
<1>4. At(r, "crawl") => \A p \in pages' : p.run = r => ~p.pushed
  BY DEF GateInv, Sourced, At
<1>5. Harnessed'
  <2>1. ASSUME NEW p \in pages', p.pushed PROVE \A key \in OfRun(p.run)' : Sane(store'[key])
    <3>1. CASE p.run = r
      BY <1>3, <1>4, <2>1, <3>1
    <3>2. CASE p.run # r
      <4>1. p \in pages
        BY <3>2
      <4> QED
        BY <1>2, <2>1, <3>2, <4>1 DEF GateInv, Harnessed
    <3> QED
      BY <3>1, <3>2
  <2> QED
    BY <2>1 DEF Harnessed
<1>6. ASSUME NEW x \in Request PROVE Sourced(x)'
  <2>1. CASE x # r
    <3>1. inflight'[x] = inflight[x] /\ OfRun(x)' = OfRun(x)
      BY <1>1, <1>2, <2>1
    <3>2. \A key \in OfRun(x) : store'[key] = store[key]
      BY <1>2, <2>1
    <3>3. \A p \in pages' : p.run = x => p \in pages
      BY <2>1
    <3>4. Sourced(x)
      BY DEF GateInv
    <3> QED
      BY <3>1, <3>2, <3>3, <3>4 DEF Sourced, At
  <2>2. CASE x = r
    <3>1. inflight'[r] = job
      BY <1>1
    <3>2. \/ job.op = "over"
          \/ job.op = "persist" /\ \A key \in OfRun(r)' : Sane(store'[key])
          \/ job.op = "crawl" /\ \A p \in pages' : p.run = r => ~p.pushed
      BY <1>3, <1>4 DEF At
    <3> QED
      BY <2>2, <3>1, <3>2 DEF Sourced, At, Storing
  <2> QED
    BY <2>1, <2>2
<1> QED
  BY <1>1, <1>2, <1>5, <1>6 DEF GateInv

LEMMA persistPushedPageGate ==
  ASSUME Stored, GateInv, NEW r \in Request, persistPushedPage(r)
  PROVE  GateInv'
<1> DEFINE job  == inflight[r]
           p    == job.payload
           page == p.pages[job.next]
           next == [job EXCEPT !.next = job.next + 1]
           d    == normalized(p, page)
<1>1. job.op = "persist" /\ Sound(job)
  BY DEF Stored, JobsSound, Sound, persistPushedPage, At
<1>2. /\ DOMAIN job = {"op", "target", "payload", "next"}
      /\ p \in Payloads /\ ValidatePayload(p) /\ job.next \in DOMAIN p.pages
  BY <1>1 DEF Sound, Shaped
<1>3. Leave(r) \/ Proceed(r, next)
  BY <1>2 DEF persistPushedPage
<1>4. next.op = "persist" /\ Over.op = "over"
  BY <1>1, <1>2 DEF Over
<1>5. \E x : Proceed(r, x) /\ x.op \in {job.op, "over"}
  BY <1>1, <1>3, <1>4 DEF Leave
<1>6. PICK put \in SUBSET DOMAIN page.files, inserted \in BOOLEAN :
        LET kept == IF "screenshot" \in put THEN put ELSE {}
        IN  /\ store' = Put(r, page, kept, d)
            /\ pages' = IF ~inserted \/ kept = {} THEN pages
                        ELSE pages \cup {Row(r, page, TRUE, put, MapPage(page, p.environment))}
  BY DEF persistPushedPage, KeysOf
<1> DEFINE row == Row(r, page, TRUE, put, MapPage(page, p.environment))
           kept == IF "screenshot" \in put THEN put ELSE {}
<1>7. row.run = r
  BY DEF Row
<1>8. IsDigest(d) /\ Sane(d)
  <2>1. CASE "a11y" \in DOMAIN page.files
    <3>1. page.files["a11y"] \in fileRefs(page)
      BY <2>1 DEF fileRefs
    <3>2. page.files["a11y"] \in DOMAIN p.uploaded
      BY <1>2, <3>1 DEF ValidatePayload
    <3>3. IsDigest(File(p, page, "a11y").digest)
      BY <1>2, <3>2, PageAssumption DEF File
    <3>4. d = NormalizeA11yDigest(File(p, page, "a11y").digest)
      BY <2>1 DEF normalized
    <3> HIDE DEF d
    <3> QED
      BY <3>3, <3>4, Digests
  <2>2. CASE "a11y" \notin DOMAIN page.files
    BY <2>2, Digests DEF normalized
  <2> QED
    BY <2>1, <2>2
<1>9. /\ store' = Put(r, page, kept, d)
      /\ pages' = pages \/ pages' = pages \cup {row}
  BY <1>6
<1>10. DOMAIN inflight = Request /\ At(r, "persist")
  BY <1>1 DEF Stored, At
<1> HIDE DEF row, kept, d, page
<1> QED
  BY <1>5, <1>7, <1>8, <1>9, <1>10, StoringKeeps

LEMMA persistPageGate ==
  ASSUME Stored, GateInv, NEW r \in Request, persistPage(r)
  PROVE  GateInv'
<1> DEFINE job == inflight[r]
<1>1. job.op = "crawl" /\ Sound(job)
  BY DEF Stored, JobsSound, Sound, persistPage, At
<1>2. DOMAIN job = CrawlFields
  BY <1>1 DEF Sound, Shaped
<1>3. PICK page \in Crawled : \E put \in SUBSET page.captured, inserted \in BOOLEAN :
        /\ Proceed(r, [job EXCEPT !.done = job.done \cup {page}])
        /\ store' = Put(r, page, put, page.digest)
        /\ pages' = IF ~inserted THEN pages
                    ELSE pages \cup {Row(r, page, FALSE, page.captured \cup {"screenshot"}, pageFindings(page))}
  BY <1>2 DEF persistPage, CrawlFields
<1> DEFINE next == [job EXCEPT !.done = job.done \cup {page}]
           row  == Row(r, page, FALSE, page.captured \cup {"screenshot"}, pageFindings(page))
<1>4. Proceed(r, next) /\ (pages' = pages \/ pages' = pages \cup {row})
  BY <1>3
<1>5. PICK put : store' = Put(r, page, put, page.digest)
  BY <1>3
<1>6. next.op = job.op
  BY <1>2 DEF CrawlFields
<1>7. row.run = r /\ ~row.pushed
  BY DEF Row
<1>8. IsDigest(page.digest)
  BY PageAssumption
<1>9. DOMAIN inflight = Request /\ At(r, "crawl")
  BY <1>1 DEF Stored, At
<1> HIDE DEF row, next
<1> QED
  BY <1>4, <1>5, <1>6, <1>7, <1>8, <1>9, StoringKeeps

(***************************************************************************)
(* A cell: the draft is well-formed, and the digest is one of the objects  *)
(* of the page's run.                                                      *)
(***************************************************************************)
LEMMA DraftRead ==
  ASSUME NEW draft \in Drafts, NEW reply \in Replies
  PROVE  IsDraft(applyVerification(ParseEvaluation(draft), reply))
<1> DEFINE read(pe) == ParseEvaluation(pe)
           v == read(reply)
           marked == [i \in DOMAIN v.findings |-> [v.findings[i] EXCEPT !.verified = TRUE]]
           top == IF v.topFix = NoFinding THEN read(draft).topFix ELSE v.topFix
<1>1. ASSUME NEW pe, IsDraft(pe) PROVE IsDraft(read(pe))
  <2> DEFINE some == Lists!RestrictValues(pe.findings, LAMBDA f : f.issue)
  <2>1. DOMAIN some \subseteq DOMAIN pe.findings /\ \A i \in DOMAIN some : some[i] = pe.findings[i]
    BY DEF Lists!RestrictValues, Lists!Restrict
  <2>2. read(pe).findings = some /\ read(pe).topFix = pe.topFix
    BY DEF ParseEvaluation
  <2> HIDE DEF some, read
  <2> QED
    BY <1>1, <2>1, <2>2 DEF IsDraft
<1>2. IsDraft(read(draft)) /\ IsDraft(v)
  BY <1>1, DraftAssumption
<1> HIDE DEF read
<1>3. ASSUME NEW i \in DOMAIN v.findings PROVE IsFinding(marked[i])
  <2> DEFINE f == v.findings[i]
             g == [f EXCEPT !.verified = TRUE]
  <2>1. IsFinding(f) /\ DOMAIN f = {"sel", "missingLabel", "notOperable", "verified", "issue"}
    BY <1>2 DEF IsDraft, IsFinding, NoFinding
  <2>2. DOMAIN g = DOMAIN f /\ g.sel = f.sel
    BY <2>1
  <2>3. marked[i] = g
    OBVIOUS
  <2> HIDE DEF f, g, marked
  <2> QED
    BY <2>1, <2>2, <2>3 DEF IsFinding
<1>4. IsFinding(top)
  BY <1>2 DEF IsDraft
<1>5. DOMAIN marked = DOMAIN v.findings
  OBVIOUS
<1> HIDE DEF marked, top
<1>6. IsDraft([findings |-> marked, topFix |-> top])
  BY <1>3, <1>4, <1>5 DEF IsDraft
<1>7. applyVerification(read(draft), reply) = IF ~reply.readable THEN read(draft)
                                              ELSE [findings |-> marked, topFix |-> top]
  BY DEF applyVerification, marked, top, read
<1> QED
  BY <1>2, <1>6, <1>7 DEF read

LEMMA evalCellGate ==
  ASSUME Stored, GateInv, NEW r \in Request, evalCell(r)
  PROVE  GateInv'
<1>1. PICK run \in Request, draft \in Drafts, reply \in Replies :
        \E work \in plan(run) :
          LET digest == loadDigest(work.digestKeys)
              before == applyVerification(ParseEvaluation(draft), reply)
          IN  Begin(r, [op |-> "cell", page |-> work.page, rules |-> work.rules, smells |-> work.smells,
                        digest |-> digest, before |-> before, after |-> applyDOMGate(before, digest)])
  BY DEF evalCell
<1> DEFINE before == applyVerification(ParseEvaluation(draft), reply)
           job(work) == [op |-> "cell", page |-> work.page, rules |-> work.rules, smells |-> work.smells,
                         digest |-> loadDigest(work.digestKeys), before |-> before,
                         after |-> applyDOMGate(before, loadDigest(work.digestKeys))]
<1>2. PICK work \in plan(run) : Begin(r, job(work))
  BY <1>1
<1>3. PICK u \in {p.url : p \in ListPages(run)} : work = Unit(RowsOf(run, u), u)
  BY DEF plan
<1> DEFINE rows == RowsOf(run, u)
           keys == work.digestKeys
           d    == loadDigest(keys)
<1>4. rows # {} /\ \A p \in rows : p \in pages /\ p.run = run
  BY DEF RowsOf, ListPages
<1>5. work.page = (CHOOSE p \in rows : Desktop(rows) # {} => p \in Desktop(rows)) /\ keys = DigestKeys(rows)
  BY <1>3 DEF Unit
<1> HIDE DEF rows
<1>6. work.page \in rows
  <2>1. \E p \in rows : Desktop(rows) # {} => p \in Desktop(rows)
    BY <1>4 DEF Desktop
  <2> QED
    BY <1>5, <2>1
<1>7. \A k \in keys : k[1] = run
  BY <1>4, <1>5 DEF DigestKeys
<1> HIDE DEF keys
<1>8. d = NoDigest \/ \E k \in OfRun(run) : d = store[k]
  <2>1. CASE keys \cap DOMAIN store = {}
    BY <2>1 DEF loadDigest
  <2>2. CASE keys \cap DOMAIN store # {}
    <3> DEFINE k == CHOOSE x \in keys : x \in DOMAIN store
    <3>1. d = store[k]
      BY <2>2 DEF loadDigest
    <3>2. k \in keys /\ k \in DOMAIN store
      BY <2>2
    <3> HIDE DEF k, d
    <3> QED
      BY <1>7, <3>1, <3>2 DEF OfRun
  <2> QED
    BY <2>1, <2>2
<1> HIDE DEF d
<1>9. IsDigest(d)
  BY <1>8, Digests DEF GateInv, Filed, OfRun
<1>10. work.page.pushed => Sane(d)
  BY <1>4, <1>6, <1>8, Digests DEF GateInv, Harnessed
<1>11. /\ job(work).op = "cell" /\ job(work).page = work.page /\ job(work).digest = d
       /\ job(work).before = before /\ job(work).after = applyDOMGate(before, d)
  BY DEF d, keys
<1>12. IsDraft(before)
  BY DraftRead
<1> HIDE DEF job, before
<1>13. Judged(job(work))
  BY <1>9, <1>10, <1>11, <1>12 DEF Judged
<1>14. Calm(r, job(work))
  <2>1. inflight[r].op = "idle" /\ Proceed(r, job(work))
    BY <1>2 DEF Begin, Idle, Proceed
  <2>2. UNCHANGED <<pages, store>>
    BY DEF evalCell, push
  <2> QED
    BY <2>1, <2>2 DEF Calm, Storing
<1> QED
  BY <1>13, <1>14, CalmKeeps DEF Stored

LEMMA GateNext ==
  ASSUME Stored, GateInv, NEW r \in Request, Step(r)
  PROVE  GateInv'
<1>1. ASSUME NEW x, Calm(r, x), x.op # "cell" PROVE GateInv'
  BY <1>1, CalmKeeps DEF Stored
<1>2. CASE ConfigStep(r) /\ UNCHANGED push
  BY <1>1, <1>2, ConfigCalm
<1>3. CASE PushStep(r) \/ evalCell(r)
  BY <1>1, <1>3, TokensCalm, persistPushedPageGate, persistPageGate, evalCellGate DEF PushStep
<1>4. CASE UNCHANGED push /\ ((\E key \in ApiKey : ReadAPI(r, key)) \/ Abandon(r))
  <2>1. Over.op # "cell" /\ UNCHANGED <<pages, store>>
    BY <1>4 DEF Over, push
  <2> QED
    BY <1>1, <1>4, <2>1, Starting, Leaving DEF ReadAPI, Abandon
<1> QED
  BY <1>2, <1>3, <1>4 DEF Step

\* Whatever pushes, crawls and verifications come before a cell, the gate leaves
\* opinions alone, keeps no claim about the DOM that is unlisted or refuted,
\* drops a listed one only against the digest, and is done after one passage.
THEOREM GatesAreSound == Spec => []GateSound
<1>1. Init => GateInv
  <2> SUFFICES ASSUME Init PROVE GateInv
    OBVIOUS
  <2>1. pages = {} /\ DOMAIN store = {} /\ \A r \in Request : inflight[r].op = "idle"
    BY DEF Init, InitPush, InitService, Nothing, Idle
  <2>2. Cells = {} /\ \A r \in Request : Sourced(r)
    BY <2>1 DEF Cells, At, Sourced, OfRun, Storing
  <2> QED
    BY <2>1, <2>2 DEF GateInv, Filed, Harnessed
<1>2. RequestsInv /\ GateInv /\ [Next]_vars => GateInv'
  <2>1. RequestsInv /\ GateInv /\ Next => GateInv'
    BY GateNext DEF Next, RequestsInv
  <2>2. GateInv /\ UNCHANGED vars => GateInv'
    BY DEF vars, service, push, GateInv, Filed, Harnessed, Sourced, Cells, OfRun, At
  <2> QED
    BY <2>1, <2>2
<1>3. GateInv => GateSound
  BY Judgement DEF GateInv, GateSound
<1> QED
  BY <1>1, <1>2, <1>3, Invariance, PTL DEF Spec
=============================================================================
