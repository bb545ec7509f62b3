----------------------------- MODULE KernelGraph -----------------------------
(***************************************************************************)
(* The kernel's task graph and the operations on it: kernel/kernel.rs,     *)
(* struct Graph.  A graph is a record; an operation that takes `&mut self` *)
(* in the code is an operator from a graph to a graph here, with the same  *)
(* name in camel case, so that a handler that makes several calls is their *)
(* composition.                                                            *)
(*                                                                         *)
(* Per task flags are the set of the tasks that have them.  `edges` holds  *)
(* <<a, b>> when a requires b; the pins are the edges from Init.  The code *)
(* keeps the same relation twice (`edges`, `redges`).  `dirty` is a FIFO   *)
(* in the code, filled in the iteration order of hash sets; here it is the *)
(* set, and the reconciler may take its members in any order.  So is the   *)
(* queue of effects: the only effect of a task outside the tests is the    *)
(* stop report of an ended handler, the queue is emptied before anything   *)
(* is driven, and a second report on the same task finds it down already.  *)
(***************************************************************************)
EXTENDS Integers, FiniteSets, TaskLifecycle

CONSTANTS
  Task,       \* the task ids that are ever allocated
  Init0,      \* INIT_TASK_ID, the source of the pins
  Listener    \* the tasks subscribed to every path (a console)

ASSUME TaskAssumption ==
  /\ IsFiniteSet(Task)
  /\ Init0 \notin Task
  /\ Listener \subseteq Task

\* A definition as a registration or an update brings it; a saved pin is
\* never on a task registered pinned, and a job takes no ready check.
TaskDef ==
  {def \in [kind : TaskKind, ready : ReadyMode, restart : RestartMode,
            deps : SUBSET Task, pinned : BOOLEAN, savedPin : BOOLEAN,
            restartRunning : BOOLEAN] :
     /\ ~(def.pinned /\ def.savedPin)
     /\ def.kind = "Job" => def.ready = "Immediate" /\ def.restart # "Always"}

\* What the next run starts from, when a redefinition waits for it.
NoNext == [kind |-> "none", ready |-> "none"]
NextRun == [kind : TaskKind, ready : ReadyMode]

Graph ==
  [tasks : SUBSET Task, edges : SUBSET ((Task \cup {Init0}) \X Task),
   state : [Task -> TaskState], exit : [Task -> ExitInfo \cup {NoExit}],
   kind : [Task -> TaskKind], ready : [Task -> ReadyMode],
   restart : [Task -> RestartMode], next : [Task -> NextRun \cup {NoNext}],
   vetoed : SUBSET Task, killed : SUBSET Task, startFailed : SUBSET Task,
   stopTimedOut : SUBSET Task, savedPin : SUBSET Task, dead : SUBSET Task,
   timed : SUBSET Task, wanted : SUBSET Task, supported : SUBSET Task,
   wantedParents : [Task -> Int], activeDependents : [Task -> Int],
   dirty : SUBSET Task, effects : SUBSET Task, quitting : BOOLEAN]

EmptyGraph ==
  [tasks |-> {}, edges |-> {},
   state |-> [t \in Task |-> "Idle"], exit |-> [t \in Task |-> NoExit],
   kind |-> [t \in Task |-> "Service"], ready |-> [t \in Task |-> "Immediate"],
   restart |-> [t \in Task |-> "Never"], next |-> [t \in Task |-> NoNext],
   vetoed |-> {}, killed |-> {}, startFailed |-> {}, stopTimedOut |-> {},
   savedPin |-> {}, dead |-> {}, timed |-> {}, wanted |-> {}, supported |-> {},
   wantedParents |-> [t \in Task |-> 0], activeDependents |-> [t \in Task |-> 0],
   dirty |-> {}, effects |-> {}, quitting |-> FALSE]

-----------------------------------------------------------------------------
(* Reading the graph *)

Deps(g, t) == {d \in Task : <<t, d>> \in g.edges}
Dependents(g, t) == {p \in Task : <<p, t>> \in g.edges}
Pinned(g, t) == <<Init0, t>> \in g.edges
Active(g, t) == is_active(g.state[t])
Satisfied(g, t) == is_satisfied(g.kind[t], g.state[t])
NoActiveTasks(g) == \A t \in g.tasks : ~Active(g, t)

\* The task and every task it needs: the least set with t in it that the
\* edges do not lead out of.
Closure(g, t) ==
  {u \in Task : \A S \in SUBSET Task :
     (t \in S /\ \A e \in g.edges : e[1] \in S => e[2] \in S) => u \in S}

Requires(g, from, to) == to \in Closure(g, from)

\* Whether t should be up, from its own veto and its counted wanted parents.
ComputeWanted(g, t) == ~g.quitting /\ t \notin g.vetoed /\ g.wantedParents[t] > 0

\* Whether t may run right now, from the caches of its immediate deps.
ComputeSupported(g, t) ==
  t \in g.wanted /\ \A d \in Deps(g, t) : d \in g.supported /\ Satisfied(g, d)

-----------------------------------------------------------------------------
(* Bookkeeping *)

Enqueue(g, S) == [g EXCEPT !.dirty = @ \cup (S \cap g.tasks)]

\* A notification is a command to its listener; a listener whose handler is
\* gone answers with a stop report.
Notify(g) == [g EXCEPT !.effects = @ \cup (Listener \cap g.tasks \cap g.dead)]

\* A command to a task whose handler is gone: ChannelTask reports it stopped.
SendCmd(g, t) == IF t \in g.dead THEN [g EXCEPT !.effects = @ \cup {t}] ELSE g

\* Sets the timer on the task's state.
Schedule(g, t) == [g EXCEPT !.timed = @ \cup {t}]

\* A counter of every task in S moves by n.
Bump(count, S, n) == [d \in Task |-> IF d \in S THEN count[d] + n ELSE count[d]]

SetState(g, t, s, info) ==
  LET wasActive == Active(g, t)
      wasSatisfied == Satisfied(g, t)
      nowSatisfied == is_satisfied(g.kind[t], s)
      gate == wasActive # is_active(s)
  IN IF g.state[t] = s /\ g.exit[t] = info THEN g ELSE
     Notify(
     [g EXCEPT
        !.state[t] = s, !.exit[t] = info,
        !.killed = @ \ {t}, !.startFailed = @ \ {t},
        !.stopTimedOut = @ \ {t}, !.timed = @ \ {t},
        !.activeDependents =
           IF gate THEN Bump(@, Deps(g, t), IF is_active(s) THEN 1 ELSE -1) ELSE @,
        !.dirty = @ \cup {t}
                    \cup (IF wasSatisfied # nowSatisfied
                          THEN Dependents(g, t) ELSE {})
                    \cup (IF gate THEN Deps(g, t) ELSE {})])

ToIdle(g, t) == SetState(g, t, "Idle", NoExit)

-----------------------------------------------------------------------------
(* Edges *)

ParentWanted(g, from) == from = Init0 \/ from \in g.wanted
ParentActive(g, from) == from # Init0 /\ Active(g, from)

\* add_edge(from, to) for each `to` of S.
AddEdges(g, from, S) ==
  LET valid == {to \in S \cap g.tasks : to # from}
      new == {to \in valid : <<from, to>> \notin g.edges}
  IN IF valid = {} \/ from \notin g.tasks \cup {Init0} THEN g ELSE
     Enqueue(
     [g EXCEPT
        !.edges = @ \cup {<<from, to>> : to \in new},
        !.wantedParents = IF ParentWanted(g, from) THEN Bump(@, new, 1) ELSE @,
        !.activeDependents = IF ParentActive(g, from) THEN Bump(@, new, 1) ELSE @],
     valid \cup {from})

\* Mutant: the counters are left alone.
RemoveEdgesUncounted(g, from, S) ==
  IF S = {} THEN g ELSE
  Enqueue([g EXCEPT !.edges = @ \ {<<from, to>> : to \in S}], S \cup {from})

\* remove_edge(from, to) for each `to` of S.
RemoveEdges(g, from, S) ==
  LET old == {to \in S : <<from, to>> \in g.edges}
  IN IF S = {} THEN g ELSE
     Enqueue(
     [g EXCEPT
        !.edges = @ \ {<<from, to>> : to \in old},
        !.wantedParents = IF ParentWanted(g, from) THEN Bump(@, old, -1) ELSE @,
        !.activeDependents = IF ParentActive(g, from) THEN Bump(@, old, -1) ELSE @],
     S \cup {from})

-----------------------------------------------------------------------------
(* Registration, removal, redefinition *)

\* A registration of t under definition def, its deps all registered and its
\* path free (else the code refuses it before anything changes).
Register(g, t, def) ==
  LET added == [g EXCEPT
                  !.tasks = @ \cup {t},
                  !.kind[t] = def.kind, !.ready[t] = def.ready,
                  !.restart[t] = def.restart,
                  !.savedPin = IF def.savedPin THEN @ \cup {t} ELSE @]
      linked == AddEdges(added, t, def.deps)
      pinned == IF def.pinned THEN AddEdges(linked, Init0, {t}) ELSE linked
  IN Notify(Enqueue(pinned, {t}))

\* What the handle of t remembers goes.
Forget(g, t) ==
  [g EXCEPT
     !.exit[t] = NoExit, !.kind[t] = "Service", !.ready[t] = "Immediate",
     !.restart[t] = "Never", !.next[t] = NoNext, !.vetoed = @ \ {t},
     !.killed = @ \ {t}, !.startFailed = @ \ {t}, !.stopTimedOut = @ \ {t},
     !.savedPin = @ \ {t}, !.dead = @ \ {t}, !.timed = @ \ {t},
     !.supported = @ \ {t}]

\* Mutant: the edges of the task stay behind.
RemoveTaskOnly(g, t) == Notify([Forget(g, t) EXCEPT !.tasks = @ \ {t}, !.state[t] = "Idle"])

\* t goes, with its edges; a run under way is sent a kill, whose report is
\* dropped with it.
RemoveTask(g, t) ==
  LET deps == Deps(g, t)
  IN Notify(
     [Forget(g, t) EXCEPT
        !.tasks = @ \ {t},
        !.edges = {e \in @ : e[1] # t /\ e[2] # t},
        !.state[t] = "Idle",
        !.wanted = @ \ {t},
        !.wantedParents =
           [IF t \in g.wanted THEN Bump(@, deps, -1) ELSE @ EXCEPT ![t] = 0],
        !.activeDependents =
           [IF Active(g, t) THEN Bump(@, deps, -1) ELSE @ EXCEPT ![t] = 0],
        !.dirty = (@ \cup deps \cup Dependents(g, t)) \ {t}])

-----------------------------------------------------------------------------
(* Driving a task *)

\* Mutant: what waits for the next run is adopted without asking whether
\* anything does.
StartTaskAdopting(g, t) ==
  SendCmd(SetState([g EXCEPT !.kind[t] = g.next[t].kind, !.ready[t] = g.next[t].ready,
                             !.next[t] = NoNext], t, "Starting", NoExit), t)

StartTask(g, t) ==
  LET next == g.next[t]
      adopted == IF next = NoNext THEN g ELSE
                 [g EXCEPT !.kind[t] = next.kind, !.ready[t] = next.ready,
                           !.next[t] = NoNext]
      changed == IF adopted.kind[t] # g.kind[t] THEN Notify(adopted) ELSE adopted
  IN SendCmd(SetState(changed, t, "Starting", NoExit), t)

StopTask(g, t, failed) ==
  LET stopping == SetState(g, t, "Stopping", NoExit)
  IN SendCmd(Schedule([stopping EXCEPT
                         !.startFailed = IF failed THEN @ \cup {t} ELSE @ \ {t}],
                      t), t)

\* Mutant: nothing waits for the kill to work.
HardKillUntimed(g, t) == SendCmd([g EXCEPT !.killed = @ \cup {t}], t)

HardKill(g, t) == Schedule(SendCmd([g EXCEPT !.killed = @ \cup {t}], t), t)

StopIfActive(g, t) == IF g.state[t] \in Up THEN StopTask(g, t, FALSE) ELSE g

-----------------------------------------------------------------------------
(* What tasks report, and timers that run out *)

\* Mutant: a restart does not wait.
LandExitAtOnce(g, t, info) ==
  LET s == exit_state(g.kind[t], g.restart[t], info)
  IN IF s = "Backoff" THEN ToIdle(g, t) ELSE SetState(g, t, s, info)

LandExit(g, t, info) ==
  LET s == exit_state(g.kind[t], g.restart[t], info)
      landed == SetState(g, t, s, info)
  IN IF s = "Backoff" THEN Schedule(landed, t) ELSE landed

\* Mutant: a commanded stop is filed like an exit.
LandStopAsExit(g, t, info) == LandExit(g, t, info)

LandStop(g, t, info) ==
  IF t \in g.startFailed THEN LandExit(g, t, "ready_timeout") ELSE ToIdle(g, t)

OnTaskStarted(g, t) ==
  LET s == started_state(g.kind[t], g.ready[t])
      up == SetState(g, t, s, NoExit)
  IN IF t \notin g.tasks \/ g.state[t] # "Starting" THEN g
     ELSE IF s = "Running" /\ has_timeout(g.ready[t]) THEN Schedule(up, t) ELSE up

OnTaskReady(g, t) ==
  IF t \in g.tasks /\ g.state[t] = "Running"
  THEN SetState(g, t, "Ready", NoExit) ELSE g

OnTaskStopped(g, t, info) ==
  IF t \notin g.tasks THEN g
  ELSE IF g.state[t] = "Stopping" THEN LandStop(g, t, info)
  ELSE IF g.state[t] \in Up THEN LandExit(g, t, info)
  ELSE g

\* Mutant: a task that survives its kill is killed again, forever.
OnStateTimeoutPatient(g, t) ==
  LET out == [g EXCEPT !.timed = @ \ {t}]
  IN CASE g.state[t] = "Backoff"  -> ToIdle(out, t)
       [] g.state[t] = "Stopping" -> HardKill(out, t)
       [] g.state[t] = "Running"  -> StopTask(out, t, TRUE)
       [] OTHER -> out

\* The timer set on t's state has run out (one set on an earlier state fails
\* the epoch check).
OnStateTimeout(g, t) ==
  LET out == [g EXCEPT !.timed = @ \ {t}]
      gone == LandStop(out, t, "err")
  IN CASE g.state[t] = "Backoff" -> ToIdle(out, t)
       [] g.state[t] = "Stopping" /\ t \in g.killed ->
            IF t \notin g.startFailed
            THEN [gone EXCEPT !.stopTimedOut = @ \cup {t}] ELSE gone
       [] g.state[t] = "Stopping" /\ t \notin g.killed -> HardKill(out, t)
       [] g.state[t] = "Running" /\ has_timeout(g.ready[t]) ->
            StopTask(out, t, TRUE)
       [] OTHER -> out

-----------------------------------------------------------------------------
(* Intent: the verbs *)

SetPin(g, t, pinned) ==
  LET latest == [g EXCEPT !.savedPin = @ \ {t}]
  IN IF pinned THEN AddEdges(latest, Init0, {t}) ELSE RemoveEdges(latest, Init0, {t})

\* A start demands the whole closure: vetoes are lifted and ended tasks go
\* back to Idle, but a done job stays done unless it is t and rerunDone.  One
\* notification stands for one per revived task.
Demand(g, t, rerunDone) ==
  LET C == Closure(g, t) \cap g.tasks
      revive == {u \in C : \/ g.state[u] \in {"Backoff", "Exited"}
                           \/ g.state[u] = "Done" /\ rerunDone /\ u = t}
      parents == UNION {Dependents(g, u) : u \in {r \in revive : Satisfied(g, r)}}
      idle == [g EXCEPT
                 !.state = [u \in Task |-> IF u \in revive THEN "Idle" ELSE @[u]],
                 !.exit = [u \in Task |-> IF u \in revive THEN NoExit ELSE @[u]],
                 !.killed = @ \ revive, !.stopTimedOut = @ \ revive,
                 !.timed = @ \ revive, !.startFailed = @ \ C, !.vetoed = @ \ C,
                 !.dirty = @ \cup (C \cap g.vetoed) \cup revive \cup parents]
  IN IF revive = {} THEN idle ELSE Notify(idle)

SetVetoed(g, t) ==
  IF t \in g.vetoed THEN g ELSE Enqueue([g EXCEPT !.vetoed = @ \cup {t}], {t})

CmdStart(g, t) == Demand(SetPin(g, t, TRUE), t, TRUE)
CmdUp(g, t) == Demand(SetPin(g, t, TRUE), t, FALSE)
CmdStop(g, t) == StopIfActive(SetPin(g, t, FALSE), t)
CmdRestart(g, t) == StopIfActive(CmdStart(g, t), t)
CmdVeto(g, t) == SetVetoed(SetPin(g, t, FALSE), t)

CmdKill(g, t) ==
  LET unpinned == SetPin(g, t, FALSE)
  IN CASE g.state[t] \in Up -> HardKill(SetState(unpinned, t, "Stopping", NoExit), t)
       [] g.state[t] = "Stopping" -> HardKill(unpinned, t)
       [] OTHER -> unpinned

Verb == {"Up", "Start", "Restart", "ForceRestart", "Stop", "Kill", "Veto", "Unpin",
         "Remove"}

Act(verb, g, t) ==
  CASE verb = "Up"           -> CmdUp(g, t)
    [] verb = "Start"        -> CmdStart(g, t)
    [] verb = "Restart"      -> CmdRestart(g, t)
    [] verb = "ForceRestart" -> CmdStart(CmdKill(g, t), t)
    [] verb = "Stop"         -> CmdStop(g, t)
    [] verb = "Kill"         -> CmdKill(g, t)
    [] verb = "Veto"         -> CmdVeto(g, t)
    [] verb = "Unpin"        -> SetPin(g, t, FALSE)
    [] verb = "Remove"       -> RemoveTask(g, t)

\* Redefines t.  A run, under way or ended, goes on as it started: the new
\* definition is the next one's; the restart mode and the deps follow at once.
UpdateTask(g, t, def) ==
  LET redefined ==
        IF g.state[t] = "Idle"
        THEN [g EXCEPT !.kind[t] = def.kind, !.ready[t] = def.ready,
                       !.next[t] = NoNext, !.restart[t] = def.restart]
        ELSE [g EXCEPT !.next[t] = [kind |-> def.kind, ready |-> def.ready],
                       !.restart[t] = def.restart]
      unlinked == RemoveEdges(redefined, t, Deps(g, t) \ def.deps)
      linked == AddEdges(unlinked, t, def.deps)
      told == Enqueue(Notify(linked), {t})
  IN IF def.restartRunning /\ Active(told, t) THEN CmdRestart(told, t) ELSE told

-----------------------------------------------------------------------------
(* Reconciliation *)

\* Mutant: a change is not passed on.
RecomputeCachesAlone(g, t) ==
  LET now == ComputeWanted(g, t)
      g1 == [g EXCEPT
               !.wanted = IF now THEN @ \cup {t} ELSE @ \ {t},
               !.wantedParents = IF now = (t \in g.wanted) THEN @
                                 ELSE Bump(@, Deps(g, t), IF now THEN 1 ELSE -1)]
  IN [g1 EXCEPT !.supported = IF ComputeSupported(g1, t) THEN @ \cup {t} ELSE @ \ {t}]

\* Recomputes t's caches from its neighbours' and passes a change on.
RecomputeCaches(g, t) ==
  LET nowWanted == ComputeWanted(g, t)
      turned == nowWanted # (t \in g.wanted)
      g1 == IF ~turned THEN g ELSE
            Enqueue([g EXCEPT
              !.wanted = IF nowWanted THEN @ \cup {t} ELSE @ \ {t},
              !.wantedParents = Bump(@, Deps(g, t), IF nowWanted THEN 1 ELSE -1)],
              Deps(g, t))
      nowSupported == ComputeSupported(g1, t)
  IN IF nowSupported = (t \in g1.supported) THEN g1 ELSE
     Enqueue([g1 EXCEPT
       !.supported = IF nowSupported THEN @ \cup {t} ELSE @ \ {t}],
       Dependents(g, t))

\* Mutant: a task is stopped under its dependents.
DriveTaskEagerly(g, t) ==
  CASE t \in g.supported /\ g.state[t] = "Idle" -> StartTask(g, t)
    [] t \notin g.supported /\ g.state[t] \in Up -> StopTask(g, t, FALSE)
    [] t \notin g.supported /\ g.state[t] = "Backoff" -> ToIdle(g, t)
    [] OTHER -> g

\* Mutant: a task is started as soon as it is wanted.
DriveTaskWanted(g, t) ==
  CASE t \in g.wanted /\ g.state[t] = "Idle" -> StartTask(g, t)
    [] t \notin g.supported /\ g.state[t] \in Up /\ g.activeDependents[t] = 0 ->
         StopTask(g, t, FALSE)
    [] t \notin g.supported /\ g.state[t] = "Backoff" -> ToIdle(g, t)
    [] OTHER -> g

\* Moves t toward its intent, given its cached `supported`.
DriveTask(g, t) ==
  CASE t \in g.supported /\ g.state[t] = "Idle" -> StartTask(g, t)
    [] t \notin g.supported /\ g.state[t] \in Up /\ g.activeDependents[t] = 0 ->
         StopTask(g, t, FALSE)
    [] t \notin g.supported /\ g.state[t] = "Backoff" -> ToIdle(g, t)
    [] OTHER -> g
=============================================================================
