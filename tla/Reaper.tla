-------------------------------- MODULE Reaper --------------------------------
(***************************************************************************)
(* The children of the runner's tasks and the one reaper that collects     *)
(* them (process/unix_processes_waiter.rs), with what a task does about    *)
(* its child (task/process_task.rs): it starts one, runs commands beside   *)
(* it (ready and stop commands), kills it, and takes its exit.             *)
(*                                                                         *)
(* Every process started is a run, and has a number of its own.  The code  *)
(* knows it by its pid only, which the system gives out again: no guard    *)
(* reads a run's number.                                                   *)
(***************************************************************************)
EXTENDS Integers, FiniteSets, Sequences

CONSTANTS
  Task,   \* the tasks
  Pid     \* the process numbers the system gives out

ASSUME ReaperAssumption ==
  /\ IsFiniteSet(Task)
  /\ Pid \subseteq Nat \ {0}

VARIABLES
  procs,   \* the system's processes, by pid
  reaper,  \* the reaper of the image that runs
  task,    \* each task's handler
  heard    \* for each run so far, the exits handed to its owner

rvars == <<procs, reaper, task, heard>>

NoProcess == [st |-> "free", run |-> 0]

NewReaper == [listeners |-> [p \in Pid |-> 0],   \* the run whose owner is told
              unclaimed |-> [p \in Pid |-> [place |-> -1, run |-> 0]],
              reaped |-> 0,
              paused |-> FALSE]

Idle == [step |-> "idle",      \* or "forked", before the new process is registered
         kind |-> "child",     \* what is being spawned: the "child" or a "command"
         mark |-> 0,
         pid |-> 0,
         child |-> 0,          \* the child's pid,
         run |-> 0,            \* its run,
         exited |-> FALSE,     \* whether its exit was taken,
         exits |-> <<>>,       \* and the exits handed over and not taken
         command |-> 0,        \* the run of a command beside it
         cmds |-> <<>>,        \* Freeze and Thaw
         frozen |-> FALSE,
         adopt |-> FALSE]      \* in a new image: the child is not adopted yet

\* `present` are the tasks there are.
ReaperInit(present) ==
  /\ procs = [p \in Pid |-> NoProcess]
  /\ reaper = NewReaper
  /\ task = [t \in Task |-> [Idle EXCEPT !.step = IF t \in present THEN "idle" ELSE "none"]]
  /\ heard = <<>>

Started == Len(heard)

-----------------------------------------------------------------------------
(* The reaper *)

\* The owner of run n is handed the exit of run m.
Owner(n) == {t \in Task : task[t].run = n}

\* Mutant: any exit of this pid that nobody claimed is the new child's.
wait_for_unmarked(p, mark, n) ==
  LET found == reaper.unclaimed[p].place >= 0
  IN [reaper |-> [reaper EXCEPT !.unclaimed[p] = [place |-> -1, run |-> 0],
                                !.listeners[p] = IF found THEN @ ELSE n],
      told |-> IF found THEN <<reaper.unclaimed[p].run>> ELSE <<>>]

\* Registers for the exit of p, which may be in already.
wait_for(p, mark, n) ==
  LET found == reaper.unclaimed[p].place >= mark
  IN [reaper |-> [reaper EXCEPT !.unclaimed[p] = [place |-> -1, run |-> 0],
                                !.listeners[p] = IF found THEN @ ELSE n],
      told |-> IF found THEN <<reaper.unclaimed[p].run>> ELSE <<>>]

\* One waitpid of reap_now.
Reap(p) ==
  /\ procs[p].st = "zombie"
  /\ ~reaper.paused
  /\ procs' = [procs EXCEPT ![p] = NoProcess]
  /\ LET n == reaper.listeners[p]
         m == procs[p].run
     IN IF n # 0
        THEN /\ reaper' = [reaper EXCEPT !.reaped = @ + 1, !.listeners[p] = 0]
             /\ heard' = [heard EXCEPT ![n] = Append(@, m)]
             /\ task' = [t \in Task |-> IF t \in Owner(n)
                                        THEN [task[t] EXCEPT !.exits = Append(@, m)]
                                        ELSE task[t]]
        ELSE /\ reaper' = [reaper EXCEPT !.reaped = @ + 1,
                             !.unclaimed[p] = [place |-> reaper.reaped, run |-> m]]
             /\ UNCHANGED <<heard, task>>

\* Mutant: a failed upgrade leaves reaping paused.
resume_not(r) == r

\* Reaping goes on.
resume(r) == [r EXCEPT !.paused = FALSE]

\* The system: a process exits.
Exit(p) ==
  /\ procs[p].st = "alive"
  /\ procs' = [procs EXCEPT ![p].st = "zombie"]
  /\ UNCHANGED <<reaper, task, heard>>

-----------------------------------------------------------------------------
(* A task's handler *)

Acts(t) == task[t].step = "idle" /\ ~task[t].adopt

\* The system gives a pid out again only when those who knew its last holder
\* are done with it: its exit was taken, and a spawn under way is registered.
Reusable(p) ==
  /\ procs[p].st = "free"
  /\ \A t \in Task : (task[t].child = p => task[t].exited) /\ task[t].pid # p

\* UnixProcessesWaiter::fork, in the middle of a turn of the handler: the mark
\* and the fork,
Fork(t, kind) ==
  /\ Acts(t) /\ ~task[t].frozen
  /\ IF kind = "child" THEN task[t].child = 0
     ELSE task[t].child # 0 /\ task[t].command = 0
  /\ \E p \in Pid :
       /\ Reusable(p)
       /\ procs' = [procs EXCEPT ![p] = [st |-> "alive", run |-> Started + 1]]
       /\ task' = [task EXCEPT ![t].step = "forked", ![t].kind = kind, ![t].pid = p,
                     ![t].mark = reaper.reaped,
                     ![t].run = IF kind = "child" THEN Started + 1 ELSE @,
                     ![t].command = IF kind = "child" THEN @ ELSE Started + 1]
  /\ heard' = Append(heard, <<>>)
  /\ UNCHANGED reaper

\* and the registration, which may find the exit.
Register(t) ==
  /\ task[t].step = "forked"
  /\ LET isChild == task[t].kind = "child"
         n == IF isChild THEN task[t].run ELSE task[t].command
         registered == wait_for(task[t].pid, task[t].mark, n)
     IN /\ reaper' = registered.reaper
        /\ heard' = [heard EXCEPT ![n] = @ \o registered.told]
        /\ task' = [task EXCEPT ![t].step = "idle", ![t].pid = 0, ![t].mark = 0,
                      ![t].child = IF isChild THEN task[t].pid ELSE @,
                      ![t].exits = IF isChild THEN registered.told ELSE @,
                      ![t].exited = IF isChild THEN FALSE ELSE @]
  /\ UNCHANGED procs

\* A new image's task takes over its child, unless its exit is known.
Adopt(t) ==
  /\ task[t].adopt
  /\ IF task[t].exited
     THEN /\ task' = [task EXCEPT ![t].adopt = FALSE]
          /\ UNCHANGED <<reaper, heard>>
     ELSE LET adopted == wait_for(task[t].child, 0, task[t].run)
          IN /\ reaper' = adopted.reaper
             /\ heard' = [heard EXCEPT ![task[t].run] = @ \o adopted.told]
             /\ task' = [task EXCEPT ![t].adopt = FALSE, ![t].exits = adopted.told]
  /\ UNCHANGED procs

\* A command's exit ends the wait for it, and so does dropping that wait.
Forget(t) ==
  /\ Acts(t)
  /\ task[t].command # 0
  /\ task' = [task EXCEPT ![t].command = 0]
  /\ UNCHANGED <<procs, reaper, heard>>

TakeExit(t) ==
  /\ Acts(t)
  /\ task[t].exits # <<>>
  /\ task' = [task EXCEPT ![t].exits = Tail(@), ![t].exited = TRUE]
  /\ UNCHANGED <<procs, reaper, heard>>

\* The output has ended as well: the task has no child.  A frozen task does
\* not read.
OutputEnds(t) ==
  /\ Acts(t) /\ ~task[t].frozen
  /\ task[t].child # 0 /\ task[t].exited
  /\ task' = [task EXCEPT ![t].child = 0, ![t].run = 0, ![t].exited = FALSE]
  /\ UNCHANGED <<procs, reaper, heard>>

\* The pid a kill reaches: none once the reaper has collected it.
KillTarget(t) == IF reaper.listeners[task[t].child] = 0 THEN {} ELSE {task[t].child}

\* A child's own kill, by a stop or a kill command; it may ignore the signal.
Kill(t) ==
  /\ Acts(t) /\ ~task[t].frozen
  /\ task[t].child # 0
  /\ procs' = [p \in Pid |-> IF p \in KillTarget(t) THEN [procs[p] EXCEPT !.st = "zombie"]
                             ELSE procs[p]]
  /\ UNCHANGED <<reaper, task, heard>>

\* An exit already handed over is in the snapshot; a command is cut off.
FrozenTask(k) ==
  [k EXCEPT !.cmds = Tail(@), !.frozen = TRUE, !.command = 0,
            !.exited = @ \/ k.exits # <<>>, !.exits = <<>>]

\* TaskCmd::Freeze and TaskCmd::Thaw.
FreezeTask(t) ==
  /\ Acts(t)
  /\ task[t].cmds # <<>> /\ Head(task[t].cmds) = "Freeze"
  /\ task' = [task EXCEPT ![t] = FrozenTask(@)]
  /\ UNCHANGED <<procs, reaper, heard>>

ThawTask(t) ==
  /\ Acts(t)
  /\ task[t].cmds # <<>> /\ Head(task[t].cmds) = "Thaw"
  /\ task' = [task EXCEPT ![t].cmds = Tail(@), ![t].frozen = FALSE]
  /\ UNCHANGED <<procs, reaper, heard>>

TaskStep(t) ==
  \/ Register(t) \/ Adopt(t) \/ TakeExit(t) \/ OutputEnds(t)
  \/ FreezeTask(t) \/ ThawTask(t)

=============================================================================
