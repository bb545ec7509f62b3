------------------------ MODULE ProcessTaskProperties ------------------------
(***************************************************************************)
(* What the kernel says of a task against what its process is.             *)
(*                                                                         *)
(* A stop the kernel gave up on is the one way the two part for good: from *)
(* then on the kernel counts a run as over whose process may still run.    *)
(* gaveUp marks the behaviours in which that has happened, and the         *)
(* properties that fail there are stated of the others.                    *)
(***************************************************************************)
EXTENDS ProcessTask

TaskCommand == [cmd : {"Stop", "Kill", "Freeze", "Thaw"}] \cup [cmd : {"Start"}, run : Nat]
TaskReport == [what : {"Started", "Ready"}, run : Nat]
             \cup [what : {"Stopped"}, run : Nat, exit : ExitInfo]

\* Every variable has its type, and the graph is settled between two messages
\* (settle), unless the kernel is frozen.
TypeOK ==
  /\ g \in Graph
  /\ frozen \/ g.dirty = {}
  /\ toTask \in Seq(TaskCommand)
  /\ toKernel \in Seq(TaskReport)
  /\ h \in [process : BOOLEAN, run : Nat, exits : ExitInfo \cup {NoExit},
            exit : ExitInfo \cup {NoExit}, eof : BOOLEAN, readySent : BOOLEAN,
            stopSent : BOOLEAN, probe : BOOLEAN, frozen : BOOLEAN]
  /\ child \in [state : {"none", "running", "zombie"}, exit : ExitInfo \cup {NoExit}]
  /\ passed \subseteq 1 .. run

\* A report moves the task only when it is of the run the kernel started last:
\* the code's reports carry no run, the order of the two channels has to do.
ReportsOwnRun ==
  /\ toKernel # <<>>
  /\ toKernel' = Tail(toKernel)
  /\ ~gaveUp
  /\ g'.state # g.state
  => Head(toKernel).run = run

\* What a wait for `exit` calls met, of a task without deps: not active, not
\* live, and not ended badly (kernel.rs, wait_mark and ended_badly).
ExitMet ==
  \/ g.state[self] \in {"Exited", "Done"} /\ success(g.exit[self])
  \/ g.state[self] = "Idle" /\ self \notin g.wanted /\ self \notin g.stopTimedOut

NoProcess == ~h.process /\ \A i \in 1 .. Len(toTask) : toTask[i].cmd # "Start"

\* "met when the task has no process and isn't live": no process, and no start
\* on its way to the handler (docs/rpc/requests.md).
ExitMetMeansNoProcess == ~frozen /\ ExitMet => NoProcess

\* The same where every stop worked.
ExitTruthful == gaveUp \/ ExitMetMeansNoProcess

\* A service with a ready check is Ready only when the check passed in this
\* very run, never on what an earlier run printed or answered.
ReadyOfThisRun ==
  g.state[self] = "Ready" /\ check # "None" /\ ~gaveUp => run \in passed

\* A task the kernel waits on to become ready is being checked: once the
\* channels are empty, a polling check is polling, also after a freeze cut it
\* off (start_probe on Thaw).
ProbeWatching ==
  /\ g.state[self] = "Running" /\ g.kind[self] = "Service"
  /\ check = "Probe" /\ ~frozen /\ ~gaveUp
  /\ toTask = <<>> /\ toKernel = <<>>
  /\ h.process /\ h.exit = NoExit
  => h.probe

\* What the kernel believes of the task is so: that it has no process, that it
\* passed its check, that its check goes on.
BelievedIsSo == TypeOK /\ ExitTruthful /\ ReadyOfThisRun /\ ProbeWatching

\* No child is started beside another one of the task, alive or unreaped, and
\* no exit of the old one is left for the new one to find.
OneChild ==
  child'.state = "running" /\ h'.run # h.run
  => child.state = "none" /\ h.exits = NoExit

\* Two runs of a task are kept apart, though neither the reports nor the exits say
\* which run they are of.
RunsApart == [][ReportsOwnRun /\ OneChild]_vars

\* A start is answered: by Started, or by Stopped when it fails or the child
\* exits first.  Starting has no timer, so a lost answer would hold the task
\* for good.
StartingEnds ==
  (g.state[self] = "Starting" /\ ~gaveUp) ~> (g.state[self] # "Starting" \/ gaveUp)

\* An exit reaches the kernel, whatever else is going on: freezes stop the
\* reading of the output that the report waits for.
ExitReported ==
  (child.state = "zombie" /\ h.run = run) ~> (h.run # run \/ ~Active(g, self))

\* Both ends of a run are heard of.
RunsEnd == StartingEnds /\ ExitReported
=============================================================================
