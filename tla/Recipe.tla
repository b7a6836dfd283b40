------------------------------- MODULE Recipe -------------------------------
(***************************************************************************)
(* Login recipes (internal/recipe): the steps of a form login, the guided  *)
(* form that compiles to them, and the checks that gate saving one.  Texts *)
(* are trimmed; "" is the empty text, NoUrl the empty URL.  Times are in    *)
(* seconds.                                                                *)
(***************************************************************************)
EXTENDS AddressGuard, Integers
LOCAL Seqs == INSTANCE SequencesExt

RefUsername == "username"
RefPassword == "password"
Refs == {RefUsername, RefPassword}
DefaultWaitTimeout == 15
MaxWaitTimeout == 120
MaxSteps == 50

\* A step has the fields of every type, empty where its type has none.
Goto(u)           == [type |-> "goto", url |-> u, selector |-> "", ref |-> "", contains |-> "", timeout |-> 0]
Fill(s, r)        == [type |-> "fill", url |-> NoUrl, selector |-> s, ref |-> r, contains |-> "", timeout |-> 0]
Click(s)          == [type |-> "click", url |-> NoUrl, selector |-> s, ref |-> "", contains |-> "", timeout |-> 0]
WaitFor(s, c, to) == [type |-> "waitFor", url |-> NoUrl, selector |-> s, ref |-> "", contains |-> c, timeout |-> to]

waitTimeout(to) == IF to <= 0 THEN DefaultWaitTimeout ELSE to

Compile(f) == <<Goto(f.loginURL), Fill(f.username, RefUsername), Fill(f.password, RefPassword),
                Click(f.submit), WaitFor(f.success, f.contains, waitTimeout(f.timeout))>>

\* The steps of one kind, in their order; a guided form is read off them wherever they stand.
Of(steps, type)  == SelectSeq(steps, LAMBDA s : s.type = type)
Fills(steps, r)  == SelectSeq(steps, LAMBDA s : s.type = "fill" /\ s.ref = r)
Pages(steps)     == SelectSeq(steps, LAMBDA s : s.type = "goto" /\ s.url # NoUrl)
GuidedShape(steps) ==
  /\ Len(steps) = 5 /\ Pages(steps) # <<>>
  /\ \A r \in Refs : Fills(steps, r) # <<>>
  /\ Of(steps, "click") # <<>> /\ Of(steps, "waitFor") # <<>>
DeriveGuided(steps) ==
  LET wait == Seqs!Last(Of(steps, "waitFor"))
  IN  [loginURL |-> Head(Pages(steps)).url,
       username |-> Seqs!Last(Fills(steps, RefUsername)).selector,
       password |-> Seqs!Last(Fills(steps, RefPassword)).selector,
       submit   |-> Head(Of(steps, "click")).selector,
       success  |-> wait.selector, contains |-> wait.contains, timeout |-> wait.timeout]

ParseSteps(steps) == Len(steps) \in 1 .. MaxSteps

ValidStep(s) ==
  \/ s.type = "goto" /\ s.url # NoUrl
  \/ s.type = "fill" /\ s.selector # "" /\ s.ref \in Refs
  \/ s.type = "click" /\ s.selector # ""
  \/ s.type = "waitFor" /\ (s.selector # "" \/ s.contains # "") /\ s.timeout \in 0 .. MaxWaitTimeout

\* The success condition may stand anywhere after the first step.
Validate(steps) ==
  /\ steps # <<>> /\ \A i \in DOMAIN steps : ValidStep(steps[i])
  /\ steps[1].type = "goto"
  /\ \E i \in DOMAIN steps : steps[i].type = "waitFor"

GotoURLs(steps) == {Pages(steps)[i].url : i \in DOMAIN Pages(steps)}
RequiredRefs(steps) == {steps[i].ref : i \in {j \in DOMAIN steps : 
  steps[j].type = "fill" /\ steps[j].ref # ""}}

\* The references a pair of credentials supplies.
Map(creds) == {r \in Refs : creds[r] # ""}
=============================================================================
