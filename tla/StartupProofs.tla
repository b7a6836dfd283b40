--------------------------- MODULE StartupProofs ---------------------------
(* That a process which serves has its whole schema, for any number of *)
(* processes, migrations and crashes.                                  *)
EXTENDS Startup, TLAPS

\* What each place implies: every migration before the one a process is at is in
\* the schema, the one it is about to record too, and one that serves is past the
\* last of its release.
Behind(p) == place[p] # "down" => \A i \in 1 .. m[p] - 1 : i \in applied
AtRecord(p) == place[p] = "record" => m[p] \in applied
Past(p) == place[p] = "serving" => m[p] > release[p]
SchemaInv ==
  /\ m \in [Proc -> Nat] /\ release \in [Proc -> Nat]
  /\ place \in [Proc -> {"down", "check", "apply", "record", "serving"}]
  /\ recorded \subseteq applied
  /\ \A p \in Proc : Behind(p) /\ AtRecord(p) /\ Past(p)

\* SchemaInv holds at first: nothing has started.
LEMMA SchemaInit == ASSUME Last \in Nat \ {0} PROVE Init => SchemaInv
BY DEF Init, SchemaInv, Behind, AtRecord, Past

\* Each step of migrate, each end of a process, keeps it.
LEMMA SchemaStep ==
  ASSUME Last \in Nat \ {0}, SchemaInv, [Next]_vars PROVE SchemaInv'
<1> USE DEF SchemaInv, Behind, AtRecord, Past, Go
<1>1. ASSUME NEW p \in Proc, Start(p) PROVE SchemaInv'
  BY <1>1 DEF Start
<1>2. ASSUME NEW p \in Proc, Check(p) PROVE SchemaInv'
  <2>1. CASE m[p] \in recorded
    BY <1>2, <2>1 DEF Check
  <2>2. CASE m[p] \notin recorded
    BY <1>2, <2>2 DEF Check
  <2> QED BY <2>1, <2>2
<1>3. ASSUME NEW p \in Proc, Apply(p) PROVE SchemaInv'
  BY <1>3 DEF Apply
<1>4. ASSUME NEW p \in Proc, Record(p) PROVE SchemaInv'
  BY <1>4 DEF Record
<1>5. ASSUME NEW p \in Proc, Serve(p) PROVE SchemaInv'
  BY <1>5 DEF Serve
<1>6. ASSUME NEW p \in Proc, Crash(p) PROVE SchemaInv'
  BY <1>6 DEF Crash
<1>7. CASE UNCHANGED vars
  BY <1>7 DEF vars
<1> QED BY <1>1, <1>2, <1>3, <1>4, <1>5, <1>6, <1>7 DEF Next, Boots

\* A process that serves finds every migration of its release in the schema,
\* whichever processes started, raced or ended half-way before.
THEOREM WholeSchema == ASSUME Last \in Nat \ {0} PROVE Spec => []ServesWholeSchema
<1>1. Init => SchemaInv
  BY SchemaInit
<1>2. SchemaInv /\ [Next]_vars => SchemaInv'
  BY SchemaStep
<1>3. SchemaInv => ServesWholeSchema
  <2> SUFFICES ASSUME SchemaInv, NEW p \in Proc, place[p] = "serving",
                      NEW i \in 1 .. release[p]
               PROVE  i \in applied
    BY DEF ServesWholeSchema
  <2>1. i \in 1 .. m[p] - 1
    BY DEF SchemaInv, Past
  <2> QED BY <2>1 DEF SchemaInv, Behind
<1> QED BY <1>1, <1>2, <1>3, PTL DEF Spec
=============================================================================
