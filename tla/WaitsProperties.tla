--------------------------- MODULE WaitsProperties ---------------------------
(***************************************************************************)
(* What a wait promises its client.                                        *)
(***************************************************************************)
EXTENDS Waits, KernelProperties

\* Whenever the kernel waits for a message, what the client of an open wait last
\* heard of each task is where it stands by the graph as it is, computed anew:
\* no operation moves a standing without raising state_changed.  The watch has
\* told whether any task is active, one that waits to be restarted among them.
HeardIsCurrent ==
  pc = "recv" =>
    /\ Open(wait) =>
         /\ wait.begun
         /\ \A t \in wait.ids : wait.last[t] = Heard(g, wait, t)
    /\ watch = AnyActive(g)

\* What an open wait is on, t being one of its tasks.  For Down, a stop is under way
\* on t or on a task that needs it; for the others, t or one it needs runs, stops or
\* waits to be restarted.
CanEnd(cond, t) ==
  IF cond = "Down"
    THEN \E u \in g.tasks : g.state[u] = "Stopping" /\ t \in Closure(g, u)
    ELSE \E u \in Closure(g, t) : Active(g, u) \/ g.state[u] = "Backoff"

\* An open wait is on something that happens without anyone acting: is_live says
\* "Whether the kernel will run the task, or keep it running, without anyone acting"
\* (kernel.rs).  It does not: a job that is done satisfies the tasks that need it
\* when what the job needs is gone, but they are not supported, so nothing starts.
PendingEnds ==
  pc = "recv" /\ Open(wait) => \E t \in wait.ids \cap g.tasks : CanEnd(wait.cond, t)

\* A job is done, and what it needs is gone.
Outlives(t) == g.state[t] = "Done" /\ t \notin OracleSupported

\* The same, where no wait is on a task that needs such a job: for all else, what
\* wait_standing says, which knows nothing of what the reconciler does, agrees with it.
PendingCanEnd ==
  pc = "recv" /\ Open(wait) =>
    \E t \in wait.ids \cap g.tasks :
      \/ CanEnd(wait.cond, t)
      \/ wait.cond # "Down" /\ \E u \in Closure(g, t) : Outlives(u)

\* A stop that is waited on is answered, whatever the tasks do with their stop
\* and their kill: the verdict comes, or the runner ends.
DownAnswered ==
  (Open(wait) /\ wait.cond = "Down") ~> (~Open(wait) \/ wait.cond # "Down" \/ pc = "exited")
=============================================================================
