------------------------------ MODULE MCCrawl ------------------------------
(* An instance of Crawl: a site of pages and a fragment, an internal   *)
(* subdomain, and a host that is not of the site.                           *)
EXTENDS Crawl

site  == <<"site">>
db    == <<"site", "db">>
other == <<"other">>
U(host, path) == [scheme |-> "http", host |-> host, path |-> path, frag |-> ""]
root == U(site, "/")
a    == U(site, "/a")
b    == U(db, "/b")
off  == U(other, "/")
c    == U(site, "/c")
ax   == [a EXCEPT !.frag = "x"]
MCUrls == {root, a, b, c, off, ax}
MCBase == [root EXCEPT !.frag = ""]
MCLinkLists == {<<>>, <<ax, off, a>>, <<b, a>>, <<c>>}
MCRecipes == {<<>>, Compile([loginURL |-> a, username |-> "u", password |-> "p", submit |-> "s",
                             success |-> "ok", contains |-> "", timeout |-> 0]),
              <<Goto(a), WaitFor("ok", "", 120), WaitFor("ok", "", 120), WaitFor("ok", "", 120)>>,
              <<Goto(off), WaitFor("ok", "", 5)>>,
              <<Goto(a), Fill("u", RefUsername), Fill("p", RefPassword), Click("s"), Click("t"), WaitFor("ok", "", 100)>>}
MCAnswers == {<<"public">>, <<"private", "public">>, <<"link-local">>}
MCLiteral == [h \in {<<"10.0.0.1">>} |-> "private"]
MCAllowed == {site}
MCInternal == {db}
=============================================================================
