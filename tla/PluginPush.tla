----------------------------- MODULE PluginPush -----------------------------
(***************************************************************************)
(* The push endpoint (handlers/plugins.go, internal/plugin): tokens, the   *)
(* validation of a payload, and the pages it stores; and the pages that a  *)
(* crawled run stores beside them (internal/worker, persistPage).  What a  *)
(* push does to its run and to the regression diff is in RunQueue.         *)
(*                                                                         *)
(* A file is its kind and, for a digest, what it says.  An object's key is *)
(* its run, its page and its kind: all viewports of a page share the axe,  *)
(* network and a11y objects, each has a screenshot of its own.             *)
(***************************************************************************)
EXTENDS Service, Gate, PageFindings

CONSTANTS
  Payloads,   \* what harnesses push
  Crawled,    \* what a crawl captures of a page
  MaxPages    \* of a payload (200)

\* A payload's pages are a list; the crawler has two viewports.
ASSUME PageAssumption ==
  /\ MaxPages \in Nat
  /\ \A p \in Payloads : p.pages \in Seq({p.pages[i] : i \in DOMAIN p.pages})
  /\ \A p \in Payloads : \A name \in DOMAIN p.uploaded : IsDigest(p.uploaded[name].digest)
  /\ \A page \in Crawled : page.viewport \in {"mobile", "desktop"} /\ IsDigest(page.digest)

VARIABLES
  tokens,  \* the plugin_tokens row of each push-only target
  pages,   \* rows of the pages table, with their findings
  store    \* the object under each key

push == <<tokens, pages, store>>

NoToken == "no token"
Key(run, page, kind) == IF kind = "screenshot" THEN <<run, page.url, page.viewport>>
                        ELSE <<run, page.url, kind>>
Nothing == [key \in {} |-> 0]

\* The objects of one run's page, stored over what was there.
Put(run, page, kinds, digest) ==
  LET written == {Key(run, page, k) : k \in kinds}
  IN  [key \in DOMAIN store \cup written |->
         IF key \notin written THEN store[key]
         ELSE IF key = Key(run, page, "a11y") THEN digest ELSE NoDigest]
Row(run, page, pushed, kinds, findings) ==
  [run |-> run, url |-> page.url, viewport |-> page.viewport, pushed |-> pushed,
   keys |-> {Key(run, page, k) : k \in kinds}, findings |-> findings]

\* A target whose creation failed half-way has no token.
InitPush ==
  /\ tokens \in [PushTarget -> PushTarget \cup {NoToken}] /\ \A t \in PushTarget : tokens[t] \in {t, NoToken}
  /\ pages = {} /\ store = Nothing

(* Tokens.  A request that mints one is named after it.                    *)
handleRotatePluginToken(r, t) ==
  /\ Begin(r, IF targets[t].mode = "plugin" THEN [op |-> "UpdateToken", target |-> t] ELSE Over)
  /\ UNCHANGED <<targets, limits, heard, now, push>>

UpdateToken(r) ==
  /\ At(r, "UpdateToken")
  /\ LET t == inflight[r].target
     IN  IF tokens[t] = NoToken THEN Proceed(r, [op |-> "InsertToken", target |-> t]) /\ UNCHANGED tokens
         ELSE Leave(r) /\ tokens' = [tokens EXCEPT ![t] = r]
  /\ UNCHANGED <<targets, limits, heard, now, pages, store>>

\* The row's key refuses a second insertion.
InsertToken(r) ==
  /\ At(r, "InsertToken") /\ Leave(r)
  /\ tokens' = [tokens EXCEPT ![inflight[r].target] = IF @ = NoToken THEN r ELSE @]
  /\ UNCHANGED <<targets, limits, heard, now, pages, store>>

PluginTokenLookup(token) == {t \in PushTarget : tokens[t] = token /\ targets[t].mode = "plugin"}

(* The payload.                                                            *)
fileRefs(page) == {page.files[k] : k \in DOMAIN page.files}
ValidatePayload(p) ==
  /\ p.environment \in {"", "lab", "staging", "prod"}
  /\ Len(p.pages) \in 1 .. MaxPages
  /\ \A i \in DOMAIN p.pages :
       LET page == p.pages[i]
       IN  /\ page.url # "" /\ page.viewport \in {"mobile", "desktop"}
           /\ "screenshot" \in DOMAIN page.files /\ fileRefs(page) \subseteq DOMAIN p.uploaded
           /\ \A f \in page.findings : f.type \in {"a11y", "console", "network", "perf", "layout", "other"}
  /\ DOMAIN p.uploaded = UNION {fileRefs(p.pages[i]) : i \in DOMAIN p.pages}

File(p, page, kind) == p.uploaded[page.files[kind]]
Sniffed(p) == \A i \in DOMAIN p.pages : File(p, p.pages[i], "screenshot").kind = "image"
Canonical(p) ==
  \A i \in DOMAIN p.pages : "a11y" \in DOMAIN p.pages[i].files =>
    NormalizeA11yDigest(File(p, p.pages[i], "a11y").digest) # NoDigest

\* What a page's a11y object will say: the normal form, never the file itself.
normalized(p, page) ==
  IF "a11y" \in DOMAIN page.files THEN NormalizeA11yDigest(File(p, page, "a11y").digest) ELSE NoDigest

\* The limiter counts a push before its payload is looked at.
handlePluginPush(r) ==
  /\ \E token \in PushTarget \cup Request, p \in Payloads, time \in Instants :
       LET t == CHOOSE x \in PluginTokenLookup(token) : TRUE
       IN  IF PluginTokenLookup(token) = {} THEN Begin(r, Over) /\ UNCHANGED <<limits, heard, now>>
           ELSE IF ~Admits("push", t, time) THEN Called(time) /\ Begin(r, Over) /\ UNCHANGED <<limits, heard>>
           ELSE /\ Called(time) /\ Pass("push", t, time)
                /\ Begin(r, IF ValidatePayload(p) /\ Sniffed(p) /\ Canonical(p)
                            THEN [op |-> "persist", target |-> t, payload |-> p, next |-> 1] ELSE Over)
  /\ UNCHANGED <<targets, push>>

\* Mutant: a key is recorded whether or not its object was stored.
KeysAnyway(page, put) == DOMAIN page.files
KeysOf(page, put) == put

\* Some of the uploads fail; without its screenshot a page is dropped.
persistPushedPage(r) ==
  /\ At(r, "persist")
  /\ LET p    == inflight[r].payload
         page == p.pages[inflight[r].next]
     IN  /\ \E put \in SUBSET DOMAIN page.files, inserted \in BOOLEAN :
              LET kept == IF "screenshot" \in put THEN put ELSE {}
              IN  /\ store' = Put(r, page, kept, normalized(p, page))
                  /\ pages' = IF ~inserted \/ kept = {} THEN pages
                              ELSE pages \cup {Row(r, page, TRUE, KeysOf(page, put), MapPage(page, p.environment))}
         /\ IF inflight[r].next = Len(p.pages) THEN Leave(r)
            ELSE Proceed(r, [inflight[r] EXCEPT !.next = @ + 1])
  /\ UNCHANGED <<targets, limits, heard, now, tokens>>

\* A crawled page records the key of whatever it captured, and of a screenshot, stored or not.
persistPage(r) ==
  /\ At(r, "crawl")
  /\ \E page \in Crawled \ inflight[r].done : \E put \in SUBSET page.captured, inserted \in BOOLEAN :
       /\ Proceed(r, [inflight[r] EXCEPT !.done = @ \cup {page}])
       /\ store' = Put(r, page, put, page.digest)
       /\ pages' = IF ~inserted THEN pages
                   ELSE pages \cup {Row(r, page, FALSE, page.captured \cup {"screenshot"}, pageFindings(page))}
  /\ UNCHANGED <<targets, limits, heard, now, tokens>>

PushStep(r) ==
  \/ \E t \in PushTarget : handleRotatePluginToken(r, t)
  \/ UpdateToken(r) \/ InsertToken(r) \/ handlePluginPush(r) \/ persistPushedPage(r) \/ persistPage(r)
=============================================================================
