---------------------------- MODULE TaskLifecycle ----------------------------
(***************************************************************************)
(* What a task is, to the kernel: its kind, how it gets ready, whether it  *)
(* is brought back, the states of a run and the pure functions on them     *)
(* (kernel/task.rs).                                                       *)
(*                                                                         *)
(* An exit is kept as far as the kernel tells exits apart: "ok" (code 0),  *)
(* "err" (any other code, a signal, or an error), "ready_timeout" (dekit   *)
(* stopped it because it was not ready in time).  A duration is kept only  *)
(* as whether there is one.                                                *)
(***************************************************************************)

TaskKind == {"Service", "Job"}

\* Ready at once, ready when the task reports it, or that with a timeout.
ReadyMode == {"Immediate", "Reported", "ReportedTimeout"}

RestartMode == {"Never", "OnFailure", "Always"}

ExitInfo == {"ok", "err", "ready_timeout"}
NoExit == "none"

success(info) == info = "ok"

Up == {"Starting", "Running", "Ready"}          \* a run no one has told to stop
Ended == {"Backoff", "Done", "Exited"}          \* the states that carry an exit
TaskState == {"Idle", "Stopping"} \cup Up \cup Ended

\* The task occupies its slot: it must wind down before its deps may stop.
is_active(s) == s \in Up \cup {"Stopping"}

has_timeout(ready) == ready = "ReportedTimeout"

\* The state a run is in once its process is up.
started_state(kind, ready) ==
  IF kind = "Service" /\ ready = "Immediate" THEN "Ready" ELSE "Running"

\* Whether a task in this state satisfies its dependents.
is_satisfied(kind, s) == s = (IF kind = "Service" THEN "Ready" ELSE "Done")

\* Where an exit lands, as the task is configured.
exit_state(kind, restart, info) ==
  IF kind = "Job" /\ success(info) THEN "Done"
  ELSE IF restart = "Always" \/ (restart = "OnFailure" /\ ~success(info))
  THEN "Backoff"
  ELSE "Exited"

\* The run is over and the kernel won't start another by itself.
has_ended(kind, restart, s, startFailed) ==
  \/ s \in {"Exited", "Done"}
  \/ /\ s = "Stopping"
     /\ startFailed
     /\ exit_state(kind, restart, "ready_timeout") = "Exited"

\* The states with a timer on them: stop grace or kill wait, restart delay,
\* ready timeout.
timed_state(s, ready) ==
  s \in {"Stopping", "Backoff"} \/ (s = "Running" /\ has_timeout(ready))
=============================================================================
