----------------------------- MODULE ProcessTask -----------------------------
(***************************************************************************)
(* One task from the kernel's verbs down to its child process: the         *)
(* kernel's graph (KernelGraph) of a single task, the handler that runs    *)
(* beside it (task/process_task.rs, process_main) and the two channels     *)
(* between them.  The child, its terminal and the reaper are outside: a    *)
(* child may exit at any time or never, whatever it is sent.               *)
(*                                                                         *)
(* Reports carry no run number in the code.  Here every start has one, and *)
(* so has what the handler reports of it, for the properties to tell the   *)
(* runs apart; no guard reads it.                                          *)
(*                                                                         *)
(* A settle of one task is a step: no one else is in its graph.            *)
(***************************************************************************)
EXTENDS KernelGraph, Sequences

CONSTANTS
  self,       \* the task
  Defs,       \* how it may be defined
  VerbSet,    \* the verbs its users send
  MaxCmds,    \* bounds the model: verbs sent,
  MaxRuns,    \* runs after which the kernel brings it back no more,
  MaxFreezes  \* and freezes

\* The ready check: none, one that reads the output, one that waits on its own
\* (a poll, or the sd_notify socket).
ReadyCheck == {"None", "Log", "Probe"}

ASSUME ProcessAssumption ==
  /\ Task = {self}
  /\ Defs \subseteq TaskDef
  /\ \A def \in Defs : def.deps = {} /\ ~def.pinned
  /\ VerbSet \subseteq Verb \ {"Remove"}
  /\ MaxCmds \in Nat /\ MaxRuns \in Nat /\ MaxFreezes \in Nat

VARIABLES
  check,      \* its ready check
  g,          \* the graph
  frozen,     \* the kernel is frozen
  toTask,     \* commands on their way to the handler
  toKernel,   \* reports on their way to the kernel
  h,          \* the handler
  child,      \* the child of the handler's process
  run,        \* how many runs the kernel started
  passed,     \* the runs whose ready check passed
  gaveUp,     \* the kernel gave up on a stop
  cmds, freezes

vars == <<check, g, frozen, toTask, toKernel, h, child, run, passed, gaveUp, cmds,
          freezes>>

\* `exits` is what the reaper handed over, `exit` what the handler took.
NoInstance ==
  [process |-> FALSE, run |-> 0, exits |-> NoExit, exit |-> NoExit, eof |-> FALSE,
   readySent |-> FALSE, stopSent |-> FALSE, probe |-> FALSE, frozen |-> FALSE]

NoChild == [state |-> "none", exit |-> NoExit]

-----------------------------------------------------------------------------
(* The kernel *)

Round(gr) ==
  IF gr.dirty = {} THEN gr
  ELSE DriveTask(RecomputeCaches([gr EXCEPT !.dirty = {}], self), self)

\* No single task takes more rounds: TypeOK finds the queue empty after them.
Settle(gr) == Round(Round(Round(gr)))

Init ==
  /\ \E def \in Defs :
       /\ check \in {c \in ReadyCheck : c = "None" <=> def.ready = "Immediate"}
       /\ g = Settle(Register(EmptyGraph, self, def))
  /\ frozen = FALSE
  /\ toTask = <<>>
  /\ toKernel = <<>>
  /\ h = NoInstance
  /\ child = NoChild
  /\ run = 0
  /\ passed = {}
  /\ gaveUp = FALSE
  /\ cmds = MaxCmds
  /\ freezes = MaxFreezes

\* The command a step sent, from what it did; `killing` when it was a kill of
\* a task that may have been sent one.
Command(from, to, killing) ==
  CASE to.state[self] = "Starting" /\ from.state[self] # "Starting" ->
         <<[cmd |-> "Start", run |-> run + 1]>>
    [] to.state[self] = "Stopping" /\ from.state[self] \in Up ->
         <<[cmd |-> IF self \in to.killed THEN "Kill" ELSE "Stop"]>>
    [] to.state[self] = "Stopping" /\ from.state[self] = "Stopping"
         /\ (killing \/ to.killed # from.killed) -> <<[cmd |-> "Kill"]>>
    [] OTHER -> <<>>

\* The graph goes from g to `to`, `first` and then what that sends on its way.
Moves(to, first, killing) ==
  LET sent == Command(g, to, killing)
  IN /\ g' = to
     /\ toTask' = toTask \o first \o sent
     /\ run' = IF sent # <<>> /\ sent[1].cmd = "Start" THEN run + 1 ELSE run

\* One turn of the loop on a message that makes `dispatched` of the graph.
Dispatched(dispatched, killing) ==
  Moves(IF frozen THEN dispatched ELSE Settle(dispatched), <<>>, killing)

\* While the kernel is frozen it puts off verbs and timeouts, and only files
\* what tasks report.
UserVerb(verb) ==
  /\ ~frozen
  /\ cmds > 0
  /\ cmds' = cmds - 1
  /\ Dispatched(Act(verb, g, self), verb \in {"Kill", "ForceRestart"})
  /\ UNCHANGED <<check, frozen, toKernel, h, child, passed, gaveUp, freezes>>

Timeout ==
  /\ ~frozen
  /\ self \in g.timed
  /\ g.state[self] = "Backoff" => run < MaxRuns
  /\ Dispatched(OnStateTimeout(g, self), FALSE)
  /\ gaveUp' = (gaveUp \/ (g.state[self] = "Stopping" /\ self \in g.killed))
  /\ UNCHANGED <<check, frozen, toKernel, h, child, passed, cmds, freezes>>

TakeReport ==
  /\ toKernel # <<>>
  /\ toKernel' = Tail(toKernel)
  /\ LET report == Head(toKernel)
     IN Dispatched(
          CASE report.what = "Started" -> OnTaskStarted(g, self)
            [] report.what = "Ready"   -> OnTaskReady(g, self)
            [] report.what = "Stopped" -> OnTaskStopped(g, self, report.exit),
          FALSE)
  /\ UNCHANGED <<check, frozen, h, child, passed, gaveUp, cmds, freezes>>

\* A freeze, of an upgrade or of a quit that saves.
Freeze ==
  /\ ~frozen
  /\ freezes > 0
  /\ freezes' = freezes - 1
  /\ frozen' = TRUE
  /\ toTask' = Append(toTask, [cmd |-> "Freeze"])
  /\ UNCHANGED <<check, g, toKernel, h, child, run, passed, gaveUp, cmds>>

\* It failed, at any point: the kernel goes on from what it learnt meanwhile.
Thaw ==
  /\ frozen
  /\ frozen' = FALSE
  /\ Moves(Settle(g), <<[cmd |-> "Thaw"]>>, FALSE)
  /\ UNCHANGED <<check, toKernel, h, child, passed, gaveUp, cmds, freezes>>

-----------------------------------------------------------------------------
(* The handler: each action is one turn of process_main's select! *)

\* The ready check that waits, unless the instance is ready, is being stopped,
\* or has exited.
start_probe(hh) ==
  check = "Probe" /\ ~hh.readySent /\ ~hh.stopSent /\ hh.exit = NoExit

\* Mutant: the exit alone ends the run, the process goes with the output.
EndTurnAtExit(hh, reports) ==
  LET exits == hh.process /\ hh.exit # NoExit /\ h.exit = NoExit
  IN /\ h' = [hh EXCEPT !.process = @ /\ ~(hh.eof /\ hh.exit # NoExit)]
     /\ toKernel' = toKernel \o reports \o
          (IF exits THEN <<[what |-> "Stopped", run |-> hh.run, exit |-> hh.exit]>>
           ELSE <<>>)

\* Mutant: the end of the output is reported too, as an error.
EndTurnTwice(hh, reports) ==
  LET over == hh.process /\ hh.eof /\ hh.exit # NoExit
  IN /\ h' = IF over THEN [hh EXCEPT !.process = FALSE] ELSE hh
     /\ toKernel' = toKernel \o reports \o
          (IF over THEN <<[what |-> "Stopped", run |-> hh.run, exit |-> hh.exit],
                          [what |-> "Stopped", run |-> hh.run, exit |-> "err"]>>
           ELSE <<>>)

\* Mutant: a child whose output ended first is not noticed to exit.
EndTurnAtEnd(hh, reports) ==
  LET over == hh.process /\ hh.eof /\ ~h.eof /\ hh.exit # NoExit
  IN /\ h' = IF over THEN [hh EXCEPT !.process = FALSE] ELSE hh
     /\ toKernel' = toKernel \o reports \o
          (IF over THEN <<[what |-> "Stopped", run |-> hh.run, exit |-> hh.exit]>>
           ELSE <<>>)

\* The end of a turn: when the output has ended and the child has exited, the
\* process is over.  The turn's own reports go first.
EndTurn(hh, reports) ==
  LET over == hh.process /\ hh.eof /\ hh.exit # NoExit
  IN /\ h' = IF over THEN [hh EXCEPT !.process = FALSE] ELSE hh
     /\ toKernel' = toKernel \o reports \o
          (IF over THEN <<[what |-> "Stopped", run |-> hh.run, exit |-> hh.exit]>>
           ELSE <<>>)

Takes(cmd) ==
  /\ toTask # <<>>
  /\ Head(toTask).cmd = cmd
  /\ toTask' = Tail(toTask)

Unmoved == UNCHANGED <<check, g, frozen, run, gaveUp, cmds, freezes>>

\* A start while there is a process is ignored.
IgnoreStart ==
  /\ h.process
  /\ Takes("Start")
  /\ UNCHANGED <<toKernel, h, child, passed>>
  /\ Unmoved

\* start_instance: a fresh instance, its child running.
StartInstance ==
  /\ ~h.process
  /\ Takes("Start")
  /\ LET new == [NoInstance EXCEPT !.process = TRUE, !.run = Head(toTask).run,
                                   !.frozen = h.frozen]
     IN EndTurn([new EXCEPT !.probe = start_probe(new)],
                <<[what |-> "Started", run |-> Head(toTask).run]>>)
  /\ child' = [state |-> "running", exit |-> NoExit]
  /\ UNCHANGED passed
  /\ Unmoved

\* The definition cannot be read, its socket not be bound, or the program not
\* be spawned.
StartFails ==
  /\ ~h.process
  /\ Takes("Start")
  /\ EndTurn(h, <<[what |-> "Stopped", run |-> Head(toTask).run, exit |-> "err"]>>)
  /\ UNCHANGED <<child, passed>>
  /\ Unmoved

\* Stop and Kill signal the child, which may or may not exit of it.
HandleStop ==
  /\ Takes("Stop") \/ Takes("Kill")
  /\ EndTurn([h EXCEPT !.probe = FALSE, !.stopSent = TRUE], <<>>)
  /\ UNCHANGED <<child, passed>>
  /\ Unmoved

\* Takes an exit the reaper has handed over.
exited(hh) == [hh EXCEPT !.exit = hh.exits, !.exits = NoExit]

HandleFreeze ==
  /\ Takes("Freeze")
  /\ LET took == IF h.exits = NoExit THEN h ELSE exited(h)
     IN EndTurn([took EXCEPT !.frozen = TRUE, !.probe = FALSE], <<>>)
  /\ UNCHANGED <<child, passed>>
  /\ Unmoved

HandleThaw ==
  /\ Takes("Thaw")
  /\ EndTurn([h EXCEPT !.frozen = FALSE,
                       !.probe = IF h.process THEN start_probe(h) ELSE @], <<>>)
  /\ UNCHANGED <<child, passed>>
  /\ Unmoved

HandleExited ==
  /\ h.exits # NoExit
  /\ EndTurn([exited(h) EXCEPT !.probe = FALSE], <<>>)
  /\ UNCHANGED <<toTask, child, passed>>
  /\ Unmoved

BecomesReady(hh) ==
  /\ EndTurn([hh EXCEPT !.probe = FALSE, !.readySent = TRUE],
             <<[what |-> "Ready", run |-> h.run]>>)
  /\ passed' = passed \cup {h.run}

ProbeReady ==
  /\ h.probe
  /\ BecomesReady(h)
  /\ UNCHANGED <<toTask, child>>
  /\ Unmoved

Reads == h.process /\ ~h.eof /\ ~h.frozen

\* Output with the line the log check looks for; other output changes nothing
\* here.  It may be read after the child has exited.
ReadReady ==
  /\ Reads
  /\ check = "Log" /\ ~h.readySent
  /\ BecomesReady(h)
  /\ UNCHANGED <<toTask, child>>
  /\ Unmoved

\* The terminal is closed, which the child may do before it exits.
ReadEnd ==
  /\ Reads
  /\ EndTurn([h EXCEPT !.eof = TRUE], <<>>)
  /\ UNCHANGED <<toTask, child, passed>>
  /\ Unmoved

-----------------------------------------------------------------------------
(* The child, and the reaper *)

ChildExits ==
  /\ child.state = "running"
  /\ \E exit \in {"ok", "err"} : child' = [state |-> "zombie", exit |-> exit]
  /\ UNCHANGED <<toTask, toKernel, h, passed>>
  /\ Unmoved

\* The reaper hands the exit to the handler's channel.  (An upgrade pauses it
\* while it freezes: the exit waits.)
Reap ==
  /\ child.state = "zombie"
  /\ h' = [h EXCEPT !.exits = child.exit]
  /\ child' = NoChild
  /\ UNCHANGED <<toTask, toKernel, passed>>
  /\ Unmoved

-----------------------------------------------------------------------------

Kernel == \/ \E verb \in VerbSet : UserVerb(verb)
          \/ Timeout \/ TakeReport \/ Freeze \/ Thaw

TakeCommand == \/ IgnoreStart \/ StartInstance \/ StartFails
               \/ HandleStop \/ HandleFreeze \/ HandleThaw

Handler == TakeCommand \/ HandleExited \/ ProbeReady \/ ReadReady \/ ReadEnd

Next == Kernel \/ Handler \/ ChildExits \/ Reap

Spec == Init /\ [][Next]_vars

\* The loops take what is in their channels (a select! starves no branch), the
\* reaper runs on SIGCHLD, a failed freeze is thawed, and the terminal of a
\* child that exited is closed by the system.  No child need exit, no check
\* pass.  The first two are weak fairness of Thaw and of TakeReport, with what
\* enables them written out.
Fairness ==
  /\ []<>(~frozen)
  /\ []<>(toKernel = <<>>) \/ []<><<Len(toKernel') < Len(toKernel)>>_toKernel
  /\ WF_vars(TakeCommand)
  /\ WF_vars(HandleExited)
  /\ WF_vars(Reap)
  /\ WF_vars(h.exit # NoExit /\ ReadEnd)

FairSpec == Spec /\ Fairness
=============================================================================
