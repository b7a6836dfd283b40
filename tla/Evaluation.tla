----------------------------- MODULE Evaluation -----------------------------
(***************************************************************************)
(* One cell of a persona evaluation (internal/eval, generator.go): a page  *)
(* of a finished run, its digest read back from the artifact store, the    *)
(* model's draft and its verification, and the gate between the reply and  *)
(* what is stored.  The pass around the cells is in LlmPass.               *)
(***************************************************************************)
EXTENDS PluginPush

CONSTANTS
  Drafts,  \* what the model may find of a page
  Replies  \* what the verification may answer; Unreadable when it is off or fails

ASSUME DraftAssumption == \A pe \in Drafts \cup Replies : IsDraft(pe)

ListPages(run)     == {p \in pages : p.run = run}
ListFindings(rows) == UNION {p.findings : p \in rows}

\* The pages of a run, one unit for each URL: the rows of its viewports
\* share a digest, and the desktop row is the one findings are filed under.
RowsOf(run, url) == {p \in ListPages(run) : p.url = url}
Desktop(rows)    == {p \in rows : p.viewport = "desktop"}
DigestKeys(rows) == (UNION {p.keys : p \in rows}) \cap {<<p.run, p.url, "a11y">> : p \in rows}
About(rows, type) == {f.about : f \in {x \in ListFindings(rows) : x.type = type}} \ {""}
Unit(rows, url) ==
  [url |-> url, page |-> CHOOSE p \in rows : Desktop(rows) # {} => p \in Desktop(rows),
   digestKeys |-> DigestKeys(rows), rules |-> About(rows, "a11y"), smells |-> About(rows, "layout")]
plan(run) == {Unit(RowsOf(run, u), u) : u \in {p.url : p \in ListPages(run)}}

\* A key without an object, like an unset one, leaves the page without a digest.
loadDigest(keys) == IF keys \cap DOMAIN store = {} THEN NoDigest
                    ELSE store[CHOOSE k \in keys : k \in DOMAIN store]

evalCell(r) ==
  /\ \E run \in Request, draft \in Drafts, reply \in Replies :
       /\ inflight[run] = Over
       /\ \E work \in plan(run) :
            LET digest == loadDigest(work.digestKeys)
                before == applyVerification(ParseEvaluation(draft), reply)
            IN  Begin(r, [op |-> "cell", page |-> work.page, rules |-> work.rules, smells |-> work.smells,
                          digest |-> digest, before |-> before, after |-> applyDOMGate(before, digest)])
  /\ UNCHANGED <<targets, limits, heard, now, push>>
=============================================================================
