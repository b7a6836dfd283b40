----------------------------- MODULE MCRequests -----------------------------
(* An instance of Requests: a crawled target and a push-only one, three      *)
(* requests.  The second payload's digest contradicts itself under two       *)
(* spellings of one anchor; the third comes from a lab and names its files   *)
(* badly or sends what is no image.                                          *)
EXTENDS Requests, TLC

CONSTANTS r1, r2, r3
MCRequest == {r1, r2, r3}
Symmetric == Permutations(MCRequest)

site == <<"site">>
U(host) == [scheme |-> "http", host |-> host, path |-> "/login", frag |-> ""]
Guided(u) == Compile([loginURL |-> u, username |-> "u", password |-> "p", submit |-> "s",
                      success |-> "ok", contains |-> "", timeout |-> 0])
Creds(u, p) == [r \in Refs |-> IF r = RefUsername THEN u ELSE p]
MCAuthForms == {[steps |-> <<Goto(U(site)), WaitFor("ok", "", 0)>>, creds |-> Creds("", "")],
                [steps |-> Guided(U(site)), creds |-> Creds("ann", "pw")],
                [steps |-> Guided(U(site)), creds |-> Creds("bob", "")],
                [steps |-> <<Goto(U(<<"other">>)), WaitFor("ok", "", 0)>>, creds |-> Creds("", "")]}
MCAuditForms == {[goal |-> "buy", success |-> TRUE, driving |-> TRUE, real |-> TRUE],
                 [goal |-> "buy", success |-> FALSE, driving |-> TRUE, real |-> FALSE]}
MCLiteral == [h \in {} |-> "public"]
MCAllowed == {site}
MCAnswers == {<<"public">>, <<"link-local">>}

Sel(raw, keys, lits) == [raw |-> raw, keys |-> keys, lits |-> lits]
pay   == <<"pay ", "now ", "plea">>
long  == <<"pay ", "now ", "plea", "se">>
email == Sel("#email", <<"id:email">>, <<>>)
input == Sel("input#email", <<"id:email">>, <<>>)
btn   == Sel("#pay", <<"id:pay">>, <<>>)
text  == Sel("button 'pay now'", <<>>, <<pay>>)
ghost == Sel("#ghost", <<"id:ghost">>, <<>>)
none  == Sel("", <<>>, <<>>)

Button(s, n, src, ok) == [sel |-> s, name |-> n, tag |-> "button", source |-> src, focusable |-> TRUE, disabled |-> ~ok]
Field(s, n, src, has) == [sel |-> s, name |-> n, source |-> src, hasLabel |-> has]
clear     == [interactive |-> <<Button(btn, long, "text-content", TRUE)>>,
              forms |-> <<Field(input, <<"emai">>, "aria-label", FALSE)>>, landmarks |-> 0]
contested == [interactive |-> <<Button(email, <<>>, "none", TRUE)>>,
              forms |-> <<Field(input, <<"emai">>, "for", TRUE)>>, landmarks |-> 0]
truncated == [interactive |-> <<Button(btn, long, "text-content", FALSE), Button(email, <<>>, "none", TRUE)>>,
              forms |-> <<>>, landmarks |-> 0]

Claim(s, label, op) == [sel |-> s, missingLabel |-> label, notOperable |-> op, verified |-> FALSE, issue |-> TRUE]
unlabelled == Claim(email, TRUE, FALSE)
dead       == Claim(text, FALSE, TRUE)
phantom    == Claim(ghost, TRUE, FALSE)
opinion    == Claim(none, FALSE, FALSE)
MCDrafts == {[findings |-> <<unlabelled, opinion, dead>>, topFix |-> phantom],
             [findings |-> <<phantom, [opinion EXCEPT !.issue = FALSE]>>, topFix |-> unlabelled]}
MCReplies == {Unreadable, [findings |-> <<opinion, unlabelled>>, topFix |-> NoFinding, readable |-> TRUE]}

poor == [NoPerf EXCEPT !.LCP = "poor", !.heavy = TRUE]
Said(type, sev, id, note) == [type |-> type, severity |-> sev, structured |-> id, text |-> note]
Page(view, files, found, measured) ==
  [url |-> "/", viewport |-> view, files |-> files, findings |-> found, hasPerf |-> measured, perf |-> poor,
   hasLayout |-> TRUE, smells |-> {"small-tap-targets", "small-text"}]
Shot(name) == [k \in {"screenshot"} |-> name]
Both(name, d) == [k \in {"screenshot", "a11y"} |-> IF k = "a11y" THEN d ELSE name]
Upload(d) == [f \in {"m.png", "d.png", "d.json"} |->
                IF f = "d.json" THEN [kind |-> "digest", digest |-> d] ELSE [kind |-> "image", digest |-> NoDigest]]
\* Two viewports, the second with the digest.
Pushed(env, d) ==
  [environment |-> env, uploaded |-> Upload(d),
   pages |-> <<Page("mobile", Shot("m.png"), {Said("perf", "minor", "", "LCP"), Said("a11y", "", "", "label")}, TRUE),
               Page("desktop", Both("d.png", "d.json"), {Said("a11y", "serious", "label", "x"), Said("perf", "serious", "", "LCP")}, FALSE)>>]
Lab(p) == [p EXCEPT !.environment = "lab", !.pages = <<p.pages[2]>>,
                    !.uploaded = [f \in {"d.png", "d.json"} |-> p.uploaded[f]]]
MCPayloads == {Pushed("", clear), Pushed("", contested), Lab(Pushed("", clear)),
               [Pushed("", clear) EXCEPT !.uploaded["m.png"].kind = "digest"],
               [Pushed("", clear) EXCEPT !.pages = <<Head(@)>>]}
Shown(view, kinds, d) ==
  [url |-> "/", viewport |-> view, captured |-> kinds, digest |-> d,
   violations |-> {[impact |-> "", rule |-> "label"]}, console |-> {TRUE},
   network |-> {[status |-> "4xx", first |-> FALSE]}, perf |-> poor, smells |-> {"small-text"}]
MCCrawled == {Shown("desktop", {"a11y"}, truncated)}
=============================================================================
