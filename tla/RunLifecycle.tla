---------------------------- MODULE RunLifecycle ----------------------------
(***************************************************************************)
(* What the run queue promises about the status column of runs, whoever    *)
(* moves it: a run enters as queued (a crawl), running (a push) or done    *)
(* (the vessel of a walkthrough), is claimed at most once, settles once,   *)
(* and a settled run is never touched again.                               *)
(***************************************************************************)
CONSTANT Run

VARIABLE status

Status   == {"absent", "queued", "running", "done", "failed"}
Terminal == {"done", "failed"}

Init == status = [r \in Run |-> "absent"]

Move(r, from, to) ==
  /\ status[r] = from
  /\ status' = [status EXCEPT ![r] = to]

Submit(r) == \E entry \in {"queued", "running", "done"} : Move(r, "absent", entry)

Claim(r) == Move(r, "queued", "running")

Settle(r) == \E end \in Terminal : Move(r, "running", end)

\* A restart settles every run it interrupted in one statement.
Interrupt ==
  status' = [r \in Run |-> IF status[r] = "running" THEN "failed" ELSE status[r]]

Next == Interrupt \/ \E r \in Run : Submit(r) \/ Claim(r) \/ Settle(r)

Spec == Init /\ [][Next]_status
=============================================================================
