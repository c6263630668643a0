---------------------------- MODULE RunLifecycle ----------------------------
(***************************************************************************)
(* What the runner manager promises about a runner_runs row, whatever its  *)
(* workers, aborts, approvals and restarts do: the life of a row is a path *)
(*                                                                         *)
(*   none -> queued -> running <-> approval_required                       *)
(*              |          \            /                                  *)
(*              +-> aborted  -> finished                                   *)
(*                                                                         *)
(* that never leaves a finished status, and a row waiting for approval can *)
(* only be resumed or aborted.                                             *)
(***************************************************************************)
CONSTANT Runs

VARIABLE row

FinishedRows == {"succeeded", "failed", "aborted", "timed_out"}
RowStatuses  == FinishedRows \cup {"none", "queued", "running",
                                   "approval_required"}

Init == row = [r \in Runs |-> "none"]

Move(r, from, to) ==
  /\ row[r] \in from
  /\ row' = [row EXCEPT ![r] = to]

Enqueue(r)     == Move(r, {"none"}, "queued")
Claim(r)       == Move(r, {"queued"}, "running")
AbortQueued(r) == Move(r, {"queued"}, "aborted")
Pause(r)       == Move(r, {"running"}, "approval_required")
Resume(r)      == Move(r, {"approval_required"}, "running")
Finish(r, st)  == st \in FinishedRows /\ Move(r, {"running"}, st)

\* A paused row is finished in one way only: Abort and the restart end it.
AbortPaused(r) == Move(r, {"approval_required"}, "aborted")

Next ==
  \E r \in Runs :
    \/ Enqueue(r) \/ Claim(r) \/ AbortQueued(r) \/ AbortPaused(r)
    \/ Pause(r) \/ Resume(r)
    \/ \E st \in FinishedRows : Finish(r, st)

Spec == Init /\ [][Next]_row
=============================================================================
