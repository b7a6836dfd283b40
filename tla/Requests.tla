------------------------------ MODULE Requests ------------------------------
(***************************************************************************)
(* The requests of a service in any interleaving: configuration, login     *)
(* tests, pushes, token rotations, API reads, and the crawls and the       *)
(* evaluation cells that run beside them.                                  *)
(***************************************************************************)
EXTENDS TargetConfig, Evaluation

vars == <<service, config, push>>

Init == InitService /\ InitConfig /\ InitPush

Step(r) ==
  \/ ConfigStep(r) /\ UNCHANGED push
  \/ (PushStep(r) \/ evalCell(r)) /\ UNCHANGED config
  \/ ((\E key \in ApiKey : ReadAPI(r, key)) \/ Abandon(r)) /\ UNCHANGED <<config, push>>

Next == \E r \in Request : Step(r)

Spec == Init /\ [][Next]_vars

\* Types: what the tables and the limiters hold.
Goals    == {form.goal : form \in AuditForms} \cup Drafted \cup {""}
AuditRow == [goal : Goals, success : BOOLEAN, inferred : BOOLEAN, confirmed : BOOLEAN]
TypeOK ==
  /\ targets \in [Target -> [mode : {"none", "login", "plugin"}, driving : BOOLEAN, real : BOOLEAN]]
  /\ DOMAIN inflight = Request
  /\ DOMAIN recipes = Target /\ \A t \in Target : DOMAIN recipes[t].creds = Refs
  /\ audits \in [Target -> AuditRow]
  /\ tokens \in [PushTarget -> PushTarget \cup Request \cup {NoToken}]
  /\ now \in Instants
  /\ \A p \in pages : p.viewport \in {"mobile", "desktop"} /\ p.run \in Request
  /\ \A k \in DOMAIN limits.api : limits.api[k].tokens \in -Delay .. Burst

(* Logins.                                                                 *)
Armed(row) ==
  /\ Validate(row.steps) /\ RequiredRefs(row.steps) \subseteq Map(row.creds)
  /\ \A u \in GotoURLs(row.steps) : hostAllowed(u.host)

\* Whatever saves, clears and deletions overlap, a target is in login mode
\* exactly when it has a recipe, and every recipe that a login test, a crawl or
\* a drive has taken up is complete: valid, on the target's hosts, with a value for
\* every credential it fills (auth_recipe.go, db/login_recipes.go, buildLogin).
LoginsArmed ==
  /\ \A t \in Target : targets[t].mode = "login" <=> recipes[t] # NoRecipe
  /\ \A t \in Target : recipes[t] # NoRecipe => Armed(recipes[t])
  /\ \A r \in Request : At(r, "probe") \/ At(r, "crawl") \/ At(r, "drive") =>
       LET job == inflight[r] IN job.mode = "login" => Armed(job.login)

\* A walkthrough is driven only to a goal that a person has saved, and stopped
\* only by a success condition that a person has saved: an inference that lands
\* after the save, or between any two reads of the start and of the drive, takes
\* the condition away with the confirmation (audit_config.go,
\* handleStartWalkthrough, walkthrough/generator.go Run).
DrivenGoalsAuthored ==
  /\ \A t \in Target : audits[t].success => audits[t].confirmed
  /\ \A r \in Request : At(r, "drive") =>
       /\ inflight[r].goal.confirmed /\ inflight[r].goal.goal # ""
       /\ inflight[r].success.confirmed /\ inflight[r].success.success

\* What the record of a request in flight says of the statements behind it: what
\* TypeOK, LoginsArmed and DrivenGoalsAuthored rest on.
CrawlFields == {"op", "next", "target", "mode", "login", "done"}
DriveFields == {"op", "next", "target", "goal", "success", "dry", "mode", "login"}
OfTarget == {"SetLoginRecipe", "buildLogin", "StoreDraft", "SetTargetAuditConfig",
             "SetDrivingConfig", "GetTargetAuditConfig", "Run", "Success"}

Shaped(job) ==
  /\ job.op \in OfTarget => job.target \in Target
  /\ job.op = "SetLoginRecipe" => DOMAIN job.row.creds = Refs
  /\ job.op = "StoreDraft" => job.goal \in Goals
  /\ job.op \in {"SetTargetAuditConfig", "SetDrivingConfig"} =>
       /\ DOMAIN job = {"op", "target", "driving", "real", "row"}
       /\ job.driving \in BOOLEAN /\ job.real \in BOOLEAN /\ job.row \in AuditRow
  /\ job.op \in {"Run", "Success"} => DOMAIN job = DriveFields /\ job.next = "drive"
  /\ job.op = "buildLogin" => \/ DOMAIN job = DriveFields /\ job.next = "drive"
                              \/ DOMAIN job = CrawlFields /\ job.next = "crawl"
  /\ job.op = "crawl" => DOMAIN job = CrawlFields
  /\ job.op \in {"UpdateToken", "InsertToken"} => job.target \in PushTarget
  /\ job.op = "persist" => /\ DOMAIN job = {"op", "target", "payload", "next"}
                           /\ job.payload \in Payloads /\ ValidatePayload(job.payload)
                           /\ job.next \in DOMAIN job.payload.pages

LoginTaken(job) ==
  /\ job.op = "SetLoginRecipe" => Armed(job.row)
  /\ job.op \in {"probe", "crawl", "drive"} /\ job.mode = "login" => Armed(job.login)

Saved   == {row \in AuditRow : row.confirmed}
Stated  == {row \in Saved : row.goal # ""}
Checked == {row \in Saved : row.success}
GoalTaken(job) ==
  LET driving == job.op = "buildLogin" /\ job.next = "drive"
  IN  /\ job.op = "SetTargetAuditConfig" => job.row \in Saved
      /\ job.op \in {"Run", "Success", "drive"} \/ driving => job.goal \in Stated
      /\ job.op = "drive" \/ driving => job.success \in Checked

JobsSound == \A r \in Request :
  Shaped(inflight[r]) /\ LoginTaken(inflight[r]) /\ GoalTaken(inflight[r])

(* Pushes and limiters.                                                    *)
\* A pushed row names no object that is not stored, and always its screenshot.
KeysResolve == \A p \in {x \in pages : x.pushed} :
  p.keys \subseteq DOMAIN store /\ <<p.run, p.url, p.viewport>> \in p.keys
\* A measured block and the findings written by hand, which agree among
\* themselves, never say two things of a metric or a smell.
Agreeing(findings) == \A f, g \in findings :
  f.type \in {"perf", "layout"} /\ f.type = g.type /\ f.about = g.about => f = g
OneVoice == \A p \in pages : Agreeing(p.findings)
HandWrittenAgree == \A p \in Payloads : \A i \in DOMAIN p.pages :
  Agreeing({Mapped(f) : f \in p.pages[i].findings})
\* What forgetting stale entries changes in the answers still to come, those to
\* calls that others have overtaken included: a minimum interval nothing, unless
\* calls wait for nine of them; a bucket is never poorer for it, and richer by
\* what comes in twice the wait at most (ratelimit.go).
LimitersRemember == \A t \in {x \in Instants : x + Delay >= now} :
  /\ Delay <= 9 * MinInterval =>
       \A k \in Target : /\ Spaced(limits.login, k, t) = Spaced(heard.login, k, t)
                         /\ Spaced(limits.push, k, t) = Spaced(heard.push, k, t)
  /\ \A k \in ApiKey : LET exact == Tokens(heard.api, k, t)
                        IN  Tokens(limits.api, k, t) \in exact .. exact + 2 * Delay

\* Uploads fail one by one and viewports share objects: still every reference of
\* a pushed page resolves and its findings agree (plugins.go persistPushedPage,
\* plugin/map.go).
PushSound == KeysResolve /\ OneVoice

\* What LimitersRemember rests on: two memories of a minimum interval differ only in
\* entries that were forgotten when they no longer mattered, and two levels of a
\* bucket by less than twice the wait; no level owes more than the wait.
Faded(last, full, t) ==
  /\ DOMAIN last \subseteq Target
  /\ \A k \in Target :
       /\ k \in DOMAIN full => full[k] \in Nat /\ full[k] <= t
       /\ k \in DOMAIN last => k \in DOMAIN full /\ last[k] = full[k]
       /\ k \in DOMAIN full /\ k \notin DOMAIN last => t - full[k] > 10 * MinInterval
Level(b, t) ==
  /\ b.tokens \in -Delay .. Burst /\ b.last \in Nat /\ b.last <= t
  /\ b.tokens + (t - b.last) >= 0
FadedBuckets(few, all, t) ==
  /\ DOMAIN few \subseteq ApiKey
  /\ \A k \in ApiKey :
       /\ k \in DOMAIN all => Level(all[k], t)
       /\ k \in DOMAIN few => /\ Level(few[k], t)
                              /\ k \in DOMAIN all /\ few[k].last = all[k].last
                              /\ few[k].tokens \in all[k].tokens .. all[k].tokens + 2 * Delay
       /\ k \in DOMAIN all /\ k \notin DOMAIN few =>
            all[k].tokens + (t - all[k].last) + Delay >= Burst
Memories ==
  /\ DOMAIN limits = {"login", "push", "api"} /\ DOMAIN heard = {"login", "push", "api"}
  /\ Faded(limits.login, heard.login, now) /\ Faded(limits.push, heard.push, now)
  /\ FadedBuckets(limits.api, heard.api, now)

(* The gate.                                                               *)
Cells == {inflight[r] : r \in {x \in Request : At(x, "cell")}}
Held(c)  == {c.after.findings[i] : i \in DOMAIN c.after.findings}
Claims(c) == {c.before.findings[i] : i \in DOMAIN c.before.findings}
Dropped(c) == {f \in Claims(c) : isListed(c.digest, f.sel) /\ f \notin Held(c)}
Labelled(d, k) == \A e \in Rows(d) : k \in ConcreteKeys(e.sel) => e.source \in Programmatic

\* What the gate does to an evaluation: nothing to an opinion; a claim about the
\* DOM that it keeps is listed and not refuted; one it drops though it is
\* listed is refuted, and by a pushed digest only where no row of that digest
\* speaks for it; and a second passage changes nothing (ground.go, verify.go,
\* plugin/a11y.go).
GateSound == \A c \in Cells :
  /\ Opinions(c.after.findings) = Opinions(c.before.findings)
  /\ IsEmpty(c.digest) => c.after = c.before
  /\ \A f \in Held(c) \cup {c.after.topFix} :
       /\ mechanical(f) /\ digestVocabularyComplete(c.digest) => isListed(c.digest, f.sel)
       /\ IsEmpty(c.digest) \/ ~contradicts(c.digest, f)
  /\ \A f \in Dropped(c) :
       /\ mechanical(f)
       /\ c.page.pushed /\ ~f.notOperable => \E k \in ConcreteKeys(f.sel) : Labelled(c.digest, k)
  /\ applyDOMGate(c.after, c.digest) = c.after
=============================================================================
