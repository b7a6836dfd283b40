-------------------------------- MODULE Gate --------------------------------
(***************************************************************************)
(* What becomes of a persona's draft evaluation of one page (internal/eval *)
(* ground.go, verify.go, parse.go) and of the DOM digest it is judged by   *)
(* (internal/report/a11y.go, internal/plugin/a11y.go).                     *)
(*                                                                         *)
(* A selector has its normalised text (raw, "" when blank), its concrete   *)
(* anchors (keys, in the order id, name) and the names it quotes (lits).   *)
(* A name is a sequence of tokens of four characters, <<>> when there is   *)
(* none or it is too short to compare.  A finding carries the verdicts of  *)
(* the two classifiers of its text instead of the text.  What is left of a *)
(* list keeps its place: a list is a function on some of the positions of  *)
(* the list it was taken from.                                             *)
(***************************************************************************)
EXTENDS Sequences, FiniteSets, Integers
Lists == INSTANCE SequencesExt

CONSTANTS MaxA11yInteractive, MaxA11yFormControls, MaxA11yLandmarks

minPrefixMatch == 3  \* twelve characters

Programmatic == {"for", "aria-label", "aria-labelledby", "wrapping-label"}
KnownLabelSource == Programmatic \cup {"placeholder", "text-content", "value", "none", ""}

NoDigest  == [interactive |-> <<>>, forms |-> <<>>, landmarks |-> 0]
NoFinding == [sel |-> [raw |-> "", keys |-> <<>>, lits |-> <<>>], missingLabel |-> FALSE,
              notOperable |-> FALSE, verified |-> FALSE, issue |-> FALSE]

First(list) == list[Lists!Min(DOMAIN list)]
Final(list) == list[Lists!Max(DOMAIN list)]

\* A selector's lists are in order, and records have their fields.
Ordered(sel) == DOMAIN sel.keys \subseteq Nat /\ DOMAIN sel.lits \subseteq Nat
IsFinding(f) == DOMAIN f = DOMAIN NoFinding /\ Ordered(f.sel)
IsDraft(pe)  == IsFinding(pe.topFix) /\ \A i \in DOMAIN pe.findings : IsFinding(pe.findings[i])
IsDigest(d)  == /\ DOMAIN d = DOMAIN NoDigest
                /\ \A i \in DOMAIN d.interactive : Ordered(d.interactive[i].sel)
                /\ \A i \in DOMAIN d.forms : /\ {"sel", "hasLabel"} \subseteq DOMAIN d.forms[i]
                                             /\ Ordered(d.forms[i].sel)

IsEmpty(d) == d.interactive = <<>> /\ d.forms = <<>> /\ d.landmarks = 0

ConcreteKeys(sel) == Lists!Range(sel.keys)
Rows(d)           == Lists!Range(d.interactive) \cup Lists!Range(d.forms)
Anchored(rows, k) == Lists!RestrictValues(rows, LAMBDA e : k \in ConcreteKeys(e.sel))

(* A digest that an external harness pushes.                               *)
Conflicting(d) ==
  \E e, f \in Rows(d) : /\ ConcreteKeys(e.sel) \cap ConcreteKeys(f.sel) # {}
                        /\ (e.source \in Programmatic) # (f.source \in Programmatic)
Derived(d) == [d EXCEPT !.forms = [i \in DOMAIN d.forms |->
                 [d.forms[i] EXCEPT !.hasLabel = d.forms[i].source \in Programmatic]]]
Fits(d) == /\ Len(d.interactive) <= MaxA11yInteractive
           /\ Len(d.forms) <= MaxA11yFormControls
           /\ d.landmarks <= MaxA11yLandmarks
\* NoDigest stands for the refusal of the push.
NormalizeA11yDigest(d) ==
  IF /\ Fits(d) /\ ~IsEmpty(d) /\ ~Conflicting(d)
     /\ \A e \in Rows(d) : e.sel.raw # "" /\ e.source \in KnownLabelSource
  THEN Derived(d) ELSE NoDigest

(* Grounding: a mechanical claim must cite the digest's own vocabulary.    *)
mechanical(f) == f.missingLabel \/ f.notOperable
Named(d)    == {e \in Rows(d) : e.sel.raw # "" /\ e.name # <<>>}
Holders(d, n) == {e.sel : e \in {x \in Named(d) : x.name = n}}
Akin(m, n)  == Len(m) >= minPrefixMatch /\ (Lists!IsPrefix(m, n) \/ Lists!IsPrefix(n, m))
\* The selectors a quoted name may stand for; one that is shared stands for none.
Candidates(d, n) ==
  IF Cardinality(Holders(d, n)) = 1 THEN Holders(d, n)
  ELSE IF Len(n) < minPrefixMatch THEN {}
  ELSE {e.sel : e \in {x \in Named(d) : Akin(x.name, n)}}
Hits(d, sel) == Lists!RestrictValues(sel.lits, LAMBDA n : n # <<>> /\ Cardinality(Candidates(d, n)) = 1)
reanchor(d, sel) == CHOOSE s \in Candidates(d, First(Hits(d, sel))) : TRUE

digestVocabularyComplete(d) ==
  /\ Len(d.interactive) < MaxA11yInteractive
  /\ Len(d.forms) < MaxA11yFormControls
  /\ d.landmarks < MaxA11yLandmarks
  /\ \E e \in Rows(d) : e.sel.raw # ""

isListed(d, sel) ==
  /\ sel.raw # ""
  /\ \E e \in Rows(d) : e.sel.raw = sel.raw \/ ConcreteKeys(e.sel) \cap ConcreteKeys(sel) # {}

Grounded(d, f) == ~mechanical(f) \/ isListed(d, f.sel)
Quotes(d, sel) == DOMAIN Hits(d, sel) # {}
Kept(d, f)     == Grounded(d, f) \/ Quotes(d, f.sel) \/ ~digestVocabularyComplete(d)
ground(d, f)   ==
  IF ~Grounded(d, f) /\ Quotes(d, f.sel) THEN [f EXCEPT !.sel = reanchor(d, f.sel)] ELSE f

\* The top fix goes through as a finding; NoFinding is none.
groundSelectors(pe, d) ==
  IF IsEmpty(d) THEN pe
  ELSE LET some == Lists!RestrictValues(pe.findings, LAMBDA f : Kept(d, f))
       IN  [findings |-> [i \in DOMAIN some |-> ground(d, some[i])],
            topFix   |-> IF Kept(d, pe.topFix) THEN ground(d, pe.topFix) ELSE NoFinding]

(* Refutation: the rows that share an anchor are merged, labels by any,    *)
(* operability by all; the last row that gives a tag gives the tag.        *)
hasProgLabel(d, k) == \/ \E e \in Lists!Range(Anchored(d.interactive, k)) : e.source \in Programmatic
                      \/ \E c \in Lists!Range(Anchored(d.forms, k)) : c.hasLabel
operable(d, k) ==
  LET rows == Lists!Range(Anchored(d.interactive, k))
  IN  rows # {} /\ \A e \in rows : e.focusable /\ ~e.disabled
tag(d, k) ==
  LET tagged == Lists!RestrictValues(Anchored(d.interactive, k), LAMBDA e : e.tag # "")
  IN  IF DOMAIN tagged = {} THEN "" ELSE Final(tagged).tag

lookup(d, sel) == Lists!RestrictValues(sel.keys, LAMBDA k : \E e \in Rows(d) : k \in ConcreteKeys(e.sel))
contradicts(d, f) ==
  /\ mechanical(f) /\ DOMAIN lookup(d, f.sel) # {}
  /\ LET k == First(lookup(d, f.sel))
     IN  \/ f.missingLabel /\ hasProgLabel(d, k)
         \/ f.notOperable /\ tag(d, k) \in {"a", "button"} /\ operable(d, k)

dropContradicted(pe, d) ==
  IF IsEmpty(d) THEN pe
  ELSE [findings |-> Lists!RestrictValues(pe.findings, LAMBDA f : ~contradicts(d, f)),
        topFix   |-> IF contradicts(d, pe.topFix) THEN NoFinding ELSE pe.topFix]

\* What is no claim about the DOM.
Opinions(findings) == Lists!RestrictValues(findings, LAMBDA f : ~mechanical(f))

\* Mutant: the stages the other way round.
GateSwapped(pe, d) == groundSelectors(dropContradicted(pe, d), d)
applyDOMGate(pe, d) == dropContradicted(groundSelectors(pe, d), d)

(* The model's replies.  What is read of one: a finding without an issue   *)
(* is dropped.                                                             *)
ParseEvaluation(reply) == [findings |-> Lists!RestrictValues(reply.findings, LAMBDA f : f.issue), topFix |-> reply.topFix]

\* The verification pass: a reply that cannot be read leaves the draft.
Unreadable == [findings |-> <<>>, topFix |-> NoFinding, readable |-> FALSE]
applyVerification(draft, reply) ==
  IF ~reply.readable THEN draft
  ELSE LET v == ParseEvaluation(reply)
       IN  [findings |-> [i \in DOMAIN v.findings |-> [v.findings[i] EXCEPT !.verified = TRUE]],
            topFix   |-> IF v.topFix = NoFinding THEN draft.topFix ELSE v.topFix]
=============================================================================
