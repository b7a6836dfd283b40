------------------------------ MODULE Service ------------------------------
(***************************************************************************)
(* What the handlers of one web process share: the targets table, the      *)
(* requests in flight and the limiters' memory.  A request runs on its own *)
(* goroutine; one action is one statement with the local work around it.   *)
(***************************************************************************)
EXTENDS RateLimit

CONSTANTS
  Target,      \* the targets of one user
  PushTarget,  \* those created push-only, with a label that is no URL
  Request,     \* the requests and jobs of a behaviour
  ApiKey,      \* the keys of the read API
  Instants,    \* the times that the clock may read
  Delay        \* bound: how long a call waits for a limiter's mutex

ASSUME ServiceAssumption ==
  PushTarget \subseteq Target /\ Instants \subseteq Nat /\ 0 \in Instants /\ Delay \in Nat

VARIABLES
  targets,   \* the row of each target: auth_mode, driving_enabled, allow_real_submit
  inflight,  \* the record of each request: op is the statement it is about to execute
  limits,    \* the memory of the limiters: login tests, pushes, API reads
  heard,     \* history: the same calls, remembered for ever
  now        \* the latest time that a limiter was called with

service == <<targets, inflight, limits, heard, now>>

Idle == [op |-> "idle"]
Over == [op |-> "over"]
\* Where a request is idle, over, or goes on in another module.
Ended == {"idle", "over", "probe", "drive", "cell"}

Begin(r, record)   == inflight[r] = Idle /\ inflight' = [inflight EXCEPT ![r] = record]
Proceed(r, record) == inflight' = [inflight EXCEPT ![r] = record]
Leave(r)           == Proceed(r, Over)
At(r, op)          == inflight[r].op = op

Unused == [login |-> Nobody, push |-> Nobody, api |-> Nobody]

InitService ==
  /\ targets = [t \in Target |-> [mode |-> IF t \in PushTarget THEN "plugin" ELSE "none",
                                  driving |-> FALSE, real |-> FALSE]]
  /\ inflight = [r \in Request |-> Idle]
  /\ limits = Unused /\ heard = Unused /\ now = 0

\* A limiter reads the clock before it takes its mutex.  The action is the call that
\* gets the mutex: it comes with the time it read then, and others that read the
\* clock later may have been before it.
Called(time) == time + Delay >= now /\ now' = IF time > now THEN time ELSE now

\* One call of a minimum-interval limiter; which is "login" or "push".
Admits(which, key, time) == Spaced(limits[which], key, time)
Pass(which, key, time) ==
  /\ limits' = [limits EXCEPT ![which] = Allow(@, key, time)]
  /\ heard'  = [heard EXCEPT ![which] = Set(@, key, time)]

\* A read of the API, which changes nothing but its key's bucket.
ReadAPI(r, key) == \E time \in Instants :
  /\ Called(time) /\ Begin(r, Over)
  /\ limits' = [limits EXCEPT !.api = Spend(@, key, time)]
  /\ heard'  = [heard EXCEPT !.api = Set(@, key, [tokens |-> Taken(Tokens(@, key, time)), last |-> time])]
  /\ UNCHANGED targets

\* A statement fails, the client goes away, the process ends, or the work is
\* over: the request is, at whatever statement it was.
Abandon(r) ==
  /\ inflight[r].op \notin Ended /\ Leave(r)
  /\ UNCHANGED <<targets, limits, heard, now>>
=============================================================================
