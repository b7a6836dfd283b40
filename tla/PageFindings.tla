---------------------------- MODULE PageFindings ----------------------------
(***************************************************************************)
(* The findings that the deterministic signals of a page give, for a page  *)
(* that was crawled (internal/worker, pageFindings) and for one that was   *)
(* pushed (internal/plugin, MapPage).  A finding is a type, a severity and *)
(* what it is about: the rule of an a11y finding, the metric or smell of a *)
(* computed one.  A measurement is its grade against the two thresholds.   *)
(***************************************************************************)
EXTENDS FiniteSets

Finding(type, severity, about) == [type |-> type, severity |-> severity, about |-> about]

Metrics == {"LCP", "CLS", "TBT"}
NoPerf == [LCP |-> "none", CLS |-> "none", TBT |-> "none", heavy |-> FALSE]

\* perf: the grade of each metric, "none" for a page without the block.
PerfFindings(perf) ==
  {Finding("perf", "moderate", m) : m \in {x \in Metrics : perf[x] = "needs-improvement"}} \cup
  {Finding("perf", "serious", m) : m \in {x \in Metrics : perf[x] = "poor"}} \cup
  {Finding("perf", "minor", m) : m \in {x \in {"page-weight"} : perf.heavy}}

Smells == {"horizontal-overflow", "small-tap-targets", "small-text", "missing-viewport-meta",
           "images-without-dimensions"}
MobileOnly == {"horizontal-overflow", "small-tap-targets"}
LayoutFindings(smells, mobile) ==
  {Finding("layout", IF s \in {"small-text", "images-without-dimensions"} THEN "minor" ELSE "moderate", s) :
     s \in {x \in smells : mobile \/ x \notin MobileOnly}}

sevForNetwork(status, first) == IF status = "5xx" \/ first THEN "serious" ELSE "minor"

sevForConsole(first) == IF first THEN "serious" ELSE "info"

\* Every failed request and console error is a finding; status is "5xx", "4xx" or "failed".
pageFindings(pr) ==
  {Finding("a11y", IF v.impact = "" THEN "moderate" ELSE v.impact, v.rule) : v \in pr.violations} \cup
  {Finding("console", sevForConsole(first), "error") : first \in pr.console} \cup
  {Finding("network", sevForNetwork(e.status, e.first), e.status) : e \in pr.network} \cup
  PerfFindings(pr.perf) \cup LayoutFindings(pr.smells, pr.viewport = "mobile")

(* A pushed page has findings of its own beside the measured blocks, which *)
(* win over findings of their type; hasPerf and hasLayout say that the     *)
(* block is there.                                                         *)
Superseded(f, pg) == \/ f.type = "perf" /\ pg.hasPerf
                     \/ f.type = "layout" /\ pg.hasLayout
\* The rule is the id of a structured detail, else what stands before the dash.
a11yDetail(f) == IF f.structured # "" THEN f.structured ELSE f.text
Mapped(f) == Finding(f.type, IF f.severity = "" THEN "info" ELSE f.severity,
                     IF f.type = "a11y" THEN a11yDetail(f) ELSE f.text)
MapPage(pg, env) ==
  {Mapped(f) : f \in {x \in pg.findings : ~Superseded(x, pg)}} \cup
  (IF pg.hasPerf /\ env # "lab" THEN PerfFindings(pg.perf) ELSE {}) \cup
  (IF pg.hasLayout THEN LayoutFindings(pg.smells, pg.viewport = "mobile") ELSE {})
=============================================================================
