------------------------------- MODULE Kernel -------------------------------
(***************************************************************************)
(* The kernel's loop over its task graph (kernel/kernel.rs): it takes one  *)
(* message, dispatches it, and settles the graph before it takes the next. *)
(*                                                                         *)
(* Settling is modelled at the grain of the code's own loop, so that what  *)
(* holds between two of its turns can be stated and proved: one step per   *)
(* queued effect, one per task whose caches are recomputed, one per task   *)
(* driven.  No message is taken in between.                                *)
(*                                                                         *)
(* Tasks run outside: at any time any of them may report anything, in any  *)
(* order, late or twice, and a timer may run out at any time it is set.    *)
(* A timer is the mark on its task; the delay queue behind it, with its    *)
(* epochs, is left out.  The freeze is in Freeze.                          *)
(***************************************************************************)
EXTENDS KernelGraph

CONSTANTS
  Def,        \* for each task, the definitions it may be given
  Selection,  \* the sets of tasks a selector may name
  VerbSet,    \* the verbs the users of this instance send
  Mortal,     \* the tasks whose handler may end
  MaxCmds     \* how many user commands a behaviour has: bounds the model

ASSUME KernelAssumption ==
  /\ Def \in [Task -> SUBSET TaskDef]
  /\ Selection \subseteq SUBSET Task
  /\ VerbSet \subseteq Verb
  /\ Mortal \subseteq Task
  /\ MaxCmds \in Nat

VARIABLES
  g,        \* the graph
  pc,       \* where the loop is
  todo,     \* the tasks the message being dispatched has still to act on
  apply,    \* what it does to each
  toDrive,  \* the tasks of this reconcile round still to be driven
  fresh,    \* the task ids not allocated yet
  cmds      \* user commands left

vars == <<g, pc, todo, apply, toDrive, fresh, cmds>>

NoApply == [verb |-> "none"]

Init ==
  /\ g = EmptyGraph
  /\ pc = "recv"
  /\ todo = {}
  /\ apply = NoApply
  /\ toDrive = {}
  /\ fresh = Task
  /\ cmds = MaxCmds

-----------------------------------------------------------------------------
(* Messages *)

UserCommand == pc = "recv" /\ cmds > 0 /\ cmds' = cmds - 1

\* What a message is to do, and to which tasks.
BeginDispatch(S, what) ==
  /\ todo' = S
  /\ apply' = IF S = {} THEN NoApply ELSE what
  /\ pc' = IF S = {} THEN "settle" ELSE "dispatch"

\* RegisterTask: refused, with the id spent, when a dep is not registered.
RecvRegister(t, def) ==
  /\ pc = "recv"
  /\ t \in fresh
  /\ fresh' = fresh \ {t}
  /\ g' = IF def.deps \subseteq g.tasks THEN Register(g, t, def) ELSE g
  /\ pc' = "settle"
  /\ UNCHANGED <<todo, apply, toDrive, cmds>>

\* A verb (or Unpin, or Remove) on the selector's matches; `up` adds the
\* tasks with a saved pin.
RecvAct(verb, S) ==
  /\ UserCommand
  /\ BeginDispatch((S \cap g.tasks) \cup (IF verb = "Up" THEN g.savedPin ELSE {}),
                   [verb |-> verb])
  /\ UNCHANGED <<g, toDrive, fresh>>

\* Update: every match is checked before any is changed.
UpdateAccepted(S, def) ==
  /\ def.deps \subseteq g.tasks
  /\ \A t \in S, d \in def.deps : ~Requires(g, d, t)

RecvUpdate(S, def) ==
  /\ UserCommand
  /\ BeginDispatch(IF UpdateAccepted(S \cap g.tasks, def) THEN S \cap g.tasks ELSE {},
                   [verb |-> "Update", def |-> def])
  /\ UNCHANGED <<g, toDrive, fresh>>

\* The dispatch acts on its matches one after the other.
ActOn(t) ==
  /\ pc = "dispatch"
  /\ t \in todo
  /\ g' = IF apply.verb = "Update" THEN UpdateTask(g, t, apply.def)
          ELSE Act(apply.verb, g, t)
  /\ BeginDispatch(todo \ {t}, apply)
  /\ UNCHANGED <<toDrive, fresh, cmds>>

\* Quit without a save; a second one ends the loop at once.
RecvQuit ==
  /\ UserCommand
  /\ g' = IF g.quitting THEN g
          ELSE Enqueue([g EXCEPT !.quitting = TRUE], g.tasks)
  /\ pc' = IF g.quitting THEN "exited" ELSE "settle"
  /\ UNCHANGED <<todo, apply, toDrive, fresh>>

Report == {"Started", "Ready", "StoppedOk", "StoppedErr"}

RecvReport(t, report) ==
  /\ pc = "recv"
  /\ t \in g.tasks
  /\ g' = CASE report = "Started"    -> OnTaskStarted(g, t)
            [] report = "Ready"      -> OnTaskReady(g, t)
            [] report = "StoppedOk"  -> OnTaskStopped(g, t, "ok")
            [] report = "StoppedErr" -> OnTaskStopped(g, t, "err")
  /\ pc' = "settle"
  /\ UNCHANGED <<todo, apply, toDrive, fresh, cmds>>

RecvTimeout(t) ==
  /\ pc = "recv"
  /\ t \in g.tasks \cap g.timed
  /\ g' = OnStateTimeout(g, t)
  /\ pc' = "settle"
  /\ UNCHANGED <<todo, apply, toDrive, fresh, cmds>>

\* The future behind a task ends or panics: its command channel is closed.
HandlerEnds(t) ==
  /\ pc # "exited"
  /\ t \in g.tasks \ g.dead
  /\ g' = [g EXCEPT !.dead = @ \cup {t}]
  /\ UNCHANGED <<pc, todo, apply, toDrive, fresh, cmds>>

-----------------------------------------------------------------------------
(* Settling *)

\* Effects go before any driving.
ApplyEffect(t) ==
  /\ pc = "settle"
  /\ t \in g.effects
  /\ g' = OnTaskStopped([g EXCEPT !.effects = @ \ {t}], t, "err")
  /\ UNCHANGED <<pc, todo, apply, toDrive, fresh, cmds>>

\* A round first brings the caches to a fixed point ...
Recompute(t) ==
  /\ pc = "propagate" \/ (pc = "settle" /\ g.effects = {})
  /\ t \in g.dirty
  /\ g' = RecomputeCaches([g EXCEPT !.dirty = @ \ {t}], t)
  /\ toDrive' = toDrive \cup {t}
  /\ pc' = IF g'.dirty = {} THEN "drive" ELSE "propagate"
  /\ UNCHANGED <<todo, apply, fresh, cmds>>

\* ... then drives the tasks it looked at.
Drive(t) ==
  /\ pc = "drive"
  /\ t \in toDrive
  /\ g' = DriveTask(g, t)
  /\ toDrive' = toDrive \ {t}
  /\ pc' = IF toDrive' = {} THEN "settle" ELSE "drive"
  /\ UNCHANGED <<todo, apply, fresh, cmds>>

\* Nothing left to do: the next message, or the end of a quit.
Settled ==
  /\ pc = "settle"
  /\ g.effects = {}
  /\ g.dirty = {}
  /\ pc' = IF g.quitting /\ NoActiveTasks(g) THEN "exited" ELSE "recv"
  /\ UNCHANGED <<g, todo, apply, toDrive, fresh, cmds>>

-----------------------------------------------------------------------------

Message ==
  \/ \E t \in fresh : \E def \in Def[t] : RecvRegister(t, def)
  \/ \E verb \in VerbSet, S \in Selection : RecvAct(verb, S)
  \/ \E S \in Selection : \E def \in UNION {Def[t] : t \in S} : RecvUpdate(S, def)
  \/ RecvQuit
  \/ \E t \in Task, report \in Report : RecvReport(t, report)
  \/ \E t \in Task : RecvTimeout(t)

Turn ==
  \/ \E t \in Task : ActOn(t) \/ ApplyEffect(t) \/ Recompute(t) \/ Drive(t)
  \/ Settled

\* Waiting for a message, or ended: the only places where the loop stands.
Stand == pc \in {"recv", "exited"} /\ UNCHANGED vars

Next == Message \/ (\E t \in Mortal : HandlerEnds(t)) \/ Turn \/ Stand

Spec == Init /\ [][Next]_vars

\* The loop runs whenever it can, and its select! polls the timers fairly.
Fairness == WF_vars(Turn) /\ \A t \in Task : SF_vars(RecvTimeout(t))

FairSpec == Spec /\ Fairness
=============================================================================
