------------------------------ MODULE Startup ------------------------------
(***************************************************************************)
(* Every process brings the shared database to the schema of its release   *)
(* before it serves (internal/db, migrate; main.go).  A migration is two   *)
(* statements without a transaction: its DDL, then the row that records    *)
(* it.  An error ends the process, and a supervisor starts it again.       *)
(***************************************************************************)
EXTENDS Integers

CONSTANTS
  Proc,         \* processes that share the database
  Last,         \* the last migration of the newest release, at least the first
  Alter,        \* those of 2 .. Last that add a column; the others say IF NOT EXISTS
  MaxCrashes    \* bound: processes killed, and statements the database rejects

Migration == 1 .. Last

VARIABLES
  applied,   \* the DDL the schema has
  recorded,  \* schema_migrations
  place, m,  \* each process: where it stands, and the migration it is at
  release,   \* the migrations its binary knows
  crashes

vars == <<applied, recorded, place, m, release, crashes>>

Init ==
  /\ applied = {} /\ recorded = {} /\ crashes = 0
  /\ place = [p \in Proc |-> "down"] /\ m = [p \in Proc |-> 1]
  /\ release = [p \in Proc |-> 1]

Go(p, where) == place' = [place EXCEPT ![p] = where]

\* The supervisor starts the binary, perhaps a newer one; the tracking table is
\* made whether it is there or not.
Start(p) ==
  /\ place[p] = "down" /\ Go(p, "check")
  /\ m' = [m EXCEPT ![p] = 1]
  /\ \E v \in release[p] .. Last : release' = [release EXCEPT ![p] = v]
  /\ applied' = applied \cup {1}
  /\ UNCHANGED <<recorded, crashes>>

\* SELECT COUNT(*): a recorded migration is passed over.
Check(p) ==
  /\ place[p] = "check" /\ m[p] <= release[p]
  /\ IF m[p] \in recorded THEN m' = [m EXCEPT ![p] = @ + 1] /\ UNCHANGED place
     ELSE Go(p, "apply") /\ UNCHANGED m
  /\ UNCHANGED <<applied, recorded, release, crashes>>

\* A column that is there already is an error.
Apply(p) ==
  /\ place[p] = "apply"
  /\ IF m[p] \in Alter \cap applied THEN Go(p, "down") /\ UNCHANGED applied
     ELSE Go(p, "record") /\ applied' = applied \cup {m[p]}
  /\ UNCHANGED <<recorded, m, release, crashes>>

\* So is a row that another process has inserted.
Record(p) ==
  /\ place[p] = "record"
  /\ IF m[p] \in recorded THEN Go(p, "down") /\ UNCHANGED <<recorded, m>>
     ELSE Go(p, "check") /\ recorded' = recorded \cup {m[p]} /\ m' = [m EXCEPT ![p] = @ + 1]
  /\ UNCHANGED <<applied, release, crashes>>

Serve(p) ==
  /\ place[p] = "check" /\ m[p] > release[p] /\ Go(p, "serving")
  /\ UNCHANGED <<applied, recorded, m, release, crashes>>

\* A process ends at any point, killed or by an error of the database.
Crash(p) ==
  /\ place[p] # "down" /\ crashes < MaxCrashes
  /\ crashes' = crashes + 1 /\ Go(p, "down")
  /\ UNCHANGED <<applied, recorded, m, release>>

Boots(p) == Start(p) \/ Check(p) \/ Apply(p) \/ Record(p) \/ Serve(p)

Next == \E p \in Proc : Boots(p) \/ Crash(p)

Spec == Init /\ [][Next]_vars

\* The supervisor restarts a process that ended, and the process gets on.
FairSpec == Spec /\ \A p \in Proc : WF_vars(Boots(p))

TypeOK ==
  /\ applied \subseteq Migration /\ recorded \subseteq Migration
  /\ place \in [Proc -> {"down", "check", "apply", "record", "serving"}]
  /\ m \in [Proc -> 1 .. Last + 1] /\ release \in [Proc -> Migration]
  /\ crashes \in 0 .. MaxCrashes

\* Whatever processes start, race or end half-way, one that serves finds the
\* whole schema of its release (db.Open returns before NewRouter is called).
ServesWholeSchema == \A p \in Proc : place[p] = "serving" => 1 .. release[p] \subseteq applied

\* Migrations can be run again: once processes stop being killed, each comes
\* to serve, however far an earlier one had got (migrations.go: "ordered,
\* idempotent-at-the-runner-level").
BootsInTheEnd == \A p \in Proc : <>[](place[p] = "serving")
=============================================================================
