---------------------------- MODULE AddressGuard ----------------------------
(***************************************************************************)
(* What the browser and the favicon fetch may reach (internal/crawler,     *)
(* GuardConfig).  A host is the sequence of its labels from the top level  *)
(* down, so that a subdomain extends its parent; a URL is a record of      *)
(* scheme ("http" for http and https), host, path and fragment; an address *)
(* is the range it lies in; an answer is what one name resolution gives,   *)
(* <<>> when it fails.  Each check resolves anew and takes the answer.     *)
(***************************************************************************)
EXTENDS Naturals, Sequences
LOCAL Seqs == INSTANCE SequencesExt

CONSTANTS
  AllowedHosts,        \* hosts a target was registered for
  InternalAllowHosts,  \* hosts whose private addresses the operator tolerates
  AllowLoopback,       \* development only
  Literal              \* the literal addresses among the hosts, each with its range

NoHost == <<>>
NoUrl  == [scheme |-> "", host |-> NoHost, path |-> "", frag |-> ""]
Soft == {"private", "loopback", "carrier-grade-nat"}
Hard == {"unspecified", "link-local", "multicast"}
Address == {"public"} \cup Soft \cup Hard

ASSUME GuardAssumption == \A h \in DOMAIN Literal : Literal[h] \in Address

isHardBlocked(range) == range \notin Soft

\* ipReasonForHost returns no reason.
ipAllowed(host, ip) ==
  \/ ip = "public"
  \/ ~isHardBlocked(ip) /\ host \in InternalAllowHosts
  \/ AllowLoopback /\ ip = "loopback"

Addresses(host, answer) == IF host \in DOMAIN Literal THEN <<Literal[host]>> ELSE answer

\* One address out of policy refuses the whole answer.
checkHostIP(host, answer) ==
  LET ips == Addresses(host, answer)
  IN  ips # <<>> /\ \A i \in DOMAIN ips : ipAllowed(host, ips[i])

hostAllowed(host) == \E a \in AllowedHosts : a # NoHost /\ Seqs!IsPrefix(a, host)

Web(u) == u.scheme = "http" /\ u.host # NoHost

CheckURL(u, answer) == Web(u) /\ hostAllowed(u.host) /\ checkHostIP(u.host, answer)

\* The interceptor's decision on a document: about:blank and data: are left to the browser.
checkNav(u, answer)   == Web(u) => hostAllowed(u.host) /\ checkHostIP(u.host, answer)

\* The address a favicon connection is pinned to: the first that passes, or none.
FirstAddress(host, answer) ==  \* mutant
  LET ips == Addresses(host, answer) IN IF ips = <<>> THEN "none" ELSE ips[1]
pinnedIP(host, answer) ==
  LET ips  == Addresses(host, answer)
      good == {i \in DOMAIN ips : ipAllowed(host, ips[i])}
  IN  IF good = {} THEN "none" ELSE ips[CHOOSE i \in good : \A j \in good : i <= j]

hostAllowedIn(u) == hostAllowed(u.host)
=============================================================================
