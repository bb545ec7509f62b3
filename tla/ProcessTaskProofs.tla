------------------------- MODULE ProcessTaskProofs -------------------------
(***************************************************************************)
(* Theorems on a task and its process, for every definition of the task    *)
(* and any number of verbs, runs and freezes: the reports the kernel acts  *)
(* on are of the run it started last, no two children are alive at once,   *)
(* and what the kernel believes of the process is so.                      *)
(***************************************************************************)
EXTENDS ProcessTaskProperties, TLAPS

-----------------------------------------------------------------------------
(* The graph of a single task *)

Down == {"Idle"} \cup Ended

\* The graph has the task alone, pinned or not, with its definition in force.
Lone(gr) ==
  /\ gr \in Graph /\ gr.tasks = {self}
  /\ gr.edges \subseteq {<<Init0, self>>}
  /\ gr.next[self] = NoNext /\ gr.dead = {}
  /\ gr.activeDependents[self] = 0

\* k is a graph of the task under the definition it has in gr.
Keeps(gr, k) ==
  /\ Lone(k)
  /\ k.kind[self] = gr.kind[self] /\ k.ready[self] = gr.ready[self]

\* k is gr but for its flags: the state stays.
Alike(gr, k) == Keeps(gr, k) /\ k.state = gr.state

\* What follows from Keeps and Alike, twice.
LEMMA KeepsTwice ==
  ASSUME NEW gr, NEW k, NEW m, Keeps(gr, k), Keeps(k, m)
  PROVE  Keeps(gr, m)
BY DEF Keeps

\* Two changes of flags are one.
LEMMA AlikeTwice ==
  ASSUME NEW gr, NEW k, NEW m, Alike(gr, k), Alike(k, m)
  PROVE  Alike(gr, m)
BY DEF Keeps, Alike

\* A graph is like itself.
LEMMA AlikeSelf ==
  ASSUME NEW gr, Lone(gr)
  PROVE  Alike(gr, gr)
BY DEF Keeps, Alike

\* The task is the only one there is.
LEMMA OneTask == Task = {self} /\ self \in Task /\ self # Init0
BY ProcessAssumption, TaskAssumption

\* It needs no task, and none needs it.
LEMMA NoNeighbours ==
  ASSUME NEW gr, Lone(gr)
  PROVE  Deps(gr, self) = {} /\ Dependents(gr, self) = {}
<1>1. ASSUME NEW x \in Task PROVE <<self, x>> \notin gr.edges /\ <<x, self>> \notin gr.edges
  <2>1. <<self, x>> # <<Init0, self>> /\ <<x, self>> # <<Init0, self>>
    BY OneTask
  <2> QED
    BY <2>1 DEF Lone
<1> QED
  BY <1>1 DEF Deps, Dependents

\* Its state is one.
LEMMA StateAt ==
  ASSUME NEW gr, Lone(gr)
  PROVE  gr.state[self] \in TaskState /\ gr.state = [x \in {self} |-> gr.state[self]]
BY OneTask DEF Lone, Graph

\* Queueing, notifying, sending and timing change flags only.
LEMMA EnqueueLone ==
  ASSUME NEW gr, Lone(gr), NEW S
  PROVE  Alike(gr, Enqueue(gr, S))
BY DEF Enqueue, Alike, Keeps, Lone, Graph

\* Telling the listeners changes flags only.
LEMMA NotifyLone ==
  ASSUME NEW gr, Lone(gr)
  PROVE  Alike(gr, Notify(gr)) /\ Notify(gr).dirty = gr.dirty
BY DEF Notify, Alike, Keeps, Lone, Graph

\* A command is sent: the handler lives.
LEMMA SendLone ==
  ASSUME NEW gr, Lone(gr)
  PROVE  SendCmd(gr, self) = gr
BY DEF SendCmd, Lone

\* Setting a timer changes flags only.
LEMMA ScheduleLone ==
  ASSUME NEW gr, Lone(gr)
  PROVE  Alike(gr, Schedule(gr, self)) /\ Schedule(gr, self).dirty = gr.dirty
BY OneTask DEF Schedule, Alike, Keeps, Lone, Graph

-----------------------------------------------------------------------------
(* Its state *)

\* SetState sets the state, and queues the task if that changes anything.
LEMMA SetStateLone ==
  ASSUME NEW gr, Lone(gr), NEW s \in TaskState, NEW info \in ExitInfo \cup {NoExit}
  PROVE  LET k == SetState(gr, self, s, info) IN
         /\ Keeps(gr, k) /\ k.state[self] = s
         /\ k.wanted = gr.wanted /\ k.supported = gr.supported
         /\ k.wantedParents = gr.wantedParents /\ k.vetoed = gr.vetoed
         /\ k.quitting = gr.quitting
<1> DEFINE k == SetState(gr, self, s, info)
           gate == Active(gr, self) # is_active(s)
           count == IF gate THEN Bump(gr.activeDependents, Deps(gr, self),
                                      IF is_active(s) THEN 1 ELSE -1)
                    ELSE gr.activeDependents
           dirt == gr.dirty \cup {self}
                     \cup (IF Satisfied(gr, self) # is_satisfied(gr.kind[self], s)
                           THEN Dependents(gr, self) ELSE {})
                     \cup (IF gate THEN Deps(gr, self) ELSE {})
           m == [gr EXCEPT
                   !.state[self] = s, !.exit[self] = info,
                   !.killed = @ \ {self}, !.startFailed = @ \ {self},
                   !.stopTimedOut = @ \ {self}, !.timed = @ \ {self},
                   !.activeDependents = count, !.dirty = dirt]
<1>0. gr \in Graph /\ self \in Task /\ gr.activeDependents \in [Task -> Int]
  BY OneTask DEF Lone, Graph
<1>1. count \in [Task -> Int] /\ count[self] = 0
  BY <1>0, NoNeighbours, OneTask DEF Bump, Lone
<1>2. dirt \in SUBSET Task
  BY <1>0, NoNeighbours DEF Graph
<1> HIDE DEF count, dirt
<1>3. m \in Graph
  BY <1>0, <1>1, <1>2 DEF Graph
<1>4. /\ m.tasks = gr.tasks /\ m.edges = gr.edges /\ m.next = gr.next /\ m.dead = gr.dead
      /\ m.activeDependents = count /\ m.kind = gr.kind /\ m.ready = gr.ready
      /\ m.state = [gr.state EXCEPT ![self] = s]
      /\ m.wanted = gr.wanted /\ m.supported = gr.supported
      /\ m.wantedParents = gr.wantedParents /\ m.vetoed = gr.vetoed
      /\ m.quitting = gr.quitting
  BY <1>0 DEF Graph
<1>5. m.state[self] = s
  BY <1>0, <1>4 DEF Graph
<1>6. Keeps(gr, m)
  BY <1>1, <1>3, <1>4 DEF Keeps, Lone
<1> HIDE DEF m
<1>7. Keeps(gr, Notify(m)) /\ Notify(m).state = m.state
  BY <1>6, NotifyLone, KeepsTwice DEF Keeps, Alike
<1>8. /\ Notify(m).wanted = m.wanted /\ Notify(m).supported = m.supported
      /\ Notify(m).wantedParents = m.wantedParents /\ Notify(m).vetoed = m.vetoed
      /\ Notify(m).quitting = m.quitting
  BY <1>3 DEF Notify, Graph
<1>9. k = IF gr.state[self] = s /\ gr.exit[self] = info THEN gr ELSE Notify(m)
  BY DEF SetState, m, count, dirt
<1> QED
  BY <1>4, <1>5, <1>7, <1>8, <1>9 DEF Keeps

\* StartTask: the definition is in force already, so only the state changes.
LEMMA StartTaskLone ==
  ASSUME NEW gr, Lone(gr)
  PROVE  LET k == StartTask(gr, self) IN
         /\ Keeps(gr, k) /\ k.state[self] = "Starting"
         /\ k.wanted = gr.wanted /\ k.supported = gr.supported
         /\ k.wantedParents = gr.wantedParents /\ k.vetoed = gr.vetoed
         /\ k.quitting = gr.quitting
<1> DEFINE up == SetState(gr, self, "Starting", NoExit)
<1>1. Keeps(gr, up) /\ up.state[self] = "Starting"
      /\ up.wanted = gr.wanted /\ up.supported = gr.supported
      /\ up.wantedParents = gr.wantedParents /\ up.vetoed = gr.vetoed
      /\ up.quitting = gr.quitting
  <2>1. "Starting" \in TaskState
    BY DEF TaskState, Up
  <2> QED
    BY <2>1, SetStateLone
<1>2. StartTask(gr, self) = SendCmd(up, self)
  BY DEF StartTask, Lone
<1>3. SendCmd(up, self) = up
  BY <1>1, SendLone DEF Keeps
<1> QED
  BY <1>1, <1>2, <1>3

\* StopTask: the task is being stopped.
LEMMA StopTaskLone ==
  ASSUME NEW gr, Lone(gr), NEW failed \in BOOLEAN
  PROVE  LET k == StopTask(gr, self, failed) IN
         /\ Keeps(gr, k) /\ k.state[self] = "Stopping"
         /\ k.wanted = gr.wanted /\ k.supported = gr.supported
         /\ k.wantedParents = gr.wantedParents /\ k.vetoed = gr.vetoed
         /\ k.quitting = gr.quitting
<1> DEFINE stopping == SetState(gr, self, "Stopping", NoExit)
           m == [stopping EXCEPT !.startFailed = IF failed THEN @ \cup {self} ELSE @ \ {self}]
<1>1. Keeps(gr, stopping) /\ stopping.state[self] = "Stopping"
      /\ stopping.wanted = gr.wanted /\ stopping.supported = gr.supported
      /\ stopping.wantedParents = gr.wantedParents /\ stopping.vetoed = gr.vetoed
      /\ stopping.quitting = gr.quitting
  <2>1. "Stopping" \in TaskState
    BY DEF TaskState
  <2> QED
    BY <2>1, SetStateLone
<1> HIDE DEF stopping
<1>2. /\ Alike(stopping, m) /\ m.wanted = stopping.wanted /\ m.supported = stopping.supported
      /\ m.wantedParents = stopping.wantedParents /\ m.vetoed = stopping.vetoed
      /\ m.quitting = stopping.quitting
  BY <1>1, OneTask DEF Alike, Keeps, Lone, Graph
<1> HIDE DEF m
<1>3. Lone(m)
  BY <1>2 DEF Alike, Keeps
<1>4. Alike(m, Schedule(m, self))
      /\ Schedule(m, self).wanted = m.wanted /\ Schedule(m, self).supported = m.supported
      /\ Schedule(m, self).wantedParents = m.wantedParents
      /\ Schedule(m, self).vetoed = m.vetoed /\ Schedule(m, self).quitting = m.quitting
  <2>1. Alike(m, Schedule(m, self))
    BY <1>3, ScheduleLone
  <2>2. m \in Graph
    BY <1>3 DEF Lone
  <2> QED
    BY <2>1, <2>2 DEF Schedule, Graph
<1>5. StopTask(gr, self, failed) = SendCmd(Schedule(m, self), self)
  BY DEF StopTask, m, stopping
<1>6. SendCmd(Schedule(m, self), self) = Schedule(m, self)
  BY <1>4, SendLone DEF Alike, Keeps
<1>7. Keeps(gr, Schedule(m, self))
  BY <1>1, <1>2, <1>4, KeepsTwice DEF Alike
<1> QED
  BY <1>1, <1>2, <1>4, <1>5, <1>6, <1>7 DEF Alike

\* A kill changes flags only.
LEMMA HardKillLone ==
  ASSUME NEW gr, Lone(gr)
  PROVE  Alike(gr, HardKill(gr, self))
<1> DEFINE m == [gr EXCEPT !.killed = @ \cup {self}]
<1>1. Alike(gr, m)
  BY OneTask DEF Alike, Keeps, Lone, Graph
<1> HIDE DEF m
<1>2. Lone(m)
  BY <1>1 DEF Alike, Keeps
<1>3. HardKill(gr, self) = Schedule(m, self)
  BY <1>2, SendLone DEF HardKill, m
<1> QED
  BY <1>1, <1>2, <1>3, ScheduleLone, AlikeTwice

\* An exit lands the task in one of the states that carry one.
LEMMA LandExitLone ==
  ASSUME NEW gr, Lone(gr), NEW info \in ExitInfo
  PROVE  LET k == LandExit(gr, self, info) IN Keeps(gr, k) /\ k.state[self] \in Ended
<1> DEFINE s == exit_state(gr.kind[self], gr.restart[self], info)
           landed == SetState(gr, self, s, info)
<1>1. s \in Ended /\ s \in TaskState
  BY DEF exit_state, Ended, TaskState
<1>2. Keeps(gr, landed) /\ landed.state[self] = s
  BY <1>1, SetStateLone
<1>3. Alike(landed, Schedule(landed, self))
  BY <1>2, ScheduleLone DEF Keeps
<1>4. Keeps(gr, Schedule(landed, self)) /\ Schedule(landed, self).state[self] = s
  BY <1>2, <1>3, KeepsTwice DEF Alike
<1>5. LandExit(gr, self, info) = IF s = "Backoff" THEN Schedule(landed, self) ELSE landed
  BY DEF LandExit
<1> QED
  BY <1>1, <1>2, <1>4, <1>5

\* Back to Idle.
LEMMA ToIdleLone ==
  ASSUME NEW gr, Lone(gr)
  PROVE  LET k == ToIdle(gr, self) IN
         /\ Keeps(gr, k) /\ k.state[self] = "Idle"
         /\ k.wanted = gr.wanted /\ k.supported = gr.supported
         /\ k.wantedParents = gr.wantedParents /\ k.vetoed = gr.vetoed
         /\ k.quitting = gr.quitting
<1>1. "Idle" \in TaskState
  BY DEF TaskState
<1> QED
  BY <1>1, SetStateLone DEF ToIdle

\* A stop lands the task in a state without a run.
LEMMA LandStopLone ==
  ASSUME NEW gr, Lone(gr), NEW info \in ExitInfo
  PROVE  LET k == LandStop(gr, self, info) IN Keeps(gr, k) /\ k.state[self] \in Down
<1>1. "ready_timeout" \in ExitInfo
  BY DEF ExitInfo
<1> QED
  BY <1>1, LandExitLone, ToIdleLone DEF LandStop, Down

-----------------------------------------------------------------------------
(* Reports, timers and verbs *)

\* What a report of a run makes of the state: it takes a run from Starting up,
\* from Running to Ready, or down.
LEMMA StartedLone ==
  ASSUME NEW gr, Lone(gr)
  PROVE  LET k == OnTaskStarted(gr, self) IN
         /\ Keeps(gr, k)
         /\ IF gr.state[self] = "Starting"
            THEN \/ k.state[self] = "Running"
                 \/ k.state[self] = "Ready" /\ gr.ready[self] = "Immediate"
            ELSE k = gr
<1> DEFINE s == started_state(gr.kind[self], gr.ready[self])
           up == SetState(gr, self, s, NoExit)
<1>1. /\ s \in TaskState
      /\ s = "Running" \/ (s = "Ready" /\ gr.ready[self] = "Immediate")
  BY DEF started_state, TaskState, Up
<1>2. Keeps(gr, up) /\ up.state[self] = s
  BY <1>1, SetStateLone
<1>3. Alike(up, Schedule(up, self))
  BY <1>2, ScheduleLone DEF Keeps
<1>4. Keeps(gr, Schedule(up, self)) /\ Schedule(up, self).state[self] = s
  BY <1>2, <1>3, KeepsTwice DEF Alike
<1>5. OnTaskStarted(gr, self) =
        IF gr.state[self] # "Starting" THEN gr
        ELSE IF s = "Running" /\ has_timeout(gr.ready[self]) THEN Schedule(up, self) ELSE up
  BY DEF OnTaskStarted, Lone
<1>6. Keeps(gr, gr)
  BY DEF Keeps
<1> HIDE DEF s, up
<1> QED
  BY <1>1, <1>2, <1>4, <1>5, <1>6

\* Ready is heard while Running, else it changes nothing.
LEMMA ReadyLone ==
  ASSUME NEW gr, Lone(gr)
  PROVE  LET k == OnTaskReady(gr, self) IN
         /\ Keeps(gr, k)
         /\ IF gr.state[self] = "Running" THEN k.state[self] = "Ready" ELSE k = gr
<1>1. "Ready" \in TaskState
  BY DEF TaskState, Up
<1>2. Keeps(gr, gr)
  BY DEF Keeps
<1> QED
  BY <1>1, <1>2, SetStateLone DEF OnTaskReady, Lone

\* Stopped lands a run that is up or being stopped, else it changes nothing.
LEMMA StoppedLone ==
  ASSUME NEW gr, Lone(gr), NEW info \in ExitInfo
  PROVE  LET k == OnTaskStopped(gr, self, info) IN
         /\ Keeps(gr, k)
         /\ IF gr.state[self] = "Stopping" THEN k.state[self] \in Down
            ELSE IF gr.state[self] \in Up THEN k.state[self] \in Ended
            ELSE k = gr
<1>1. Keeps(gr, gr)
  BY DEF Keeps
<1> QED
  BY <1>1, LandStopLone, LandExitLone DEF OnTaskStopped, Lone

\* What a verb or a timer may do to the state before the settle.
Turned(gr, k) ==
  /\ Keeps(gr, k)
  /\ \/ k.state[self] = gr.state[self]
     \/ gr.state[self] \in Down /\ k.state[self] \in Down
     \/ gr.state[self] \in Up /\ k.state[self] = "Stopping"

\* Two turns are one, since none leads from Stopping.
LEMMA TurnedTwice ==
  ASSUME NEW gr, NEW k, NEW m, Turned(gr, k), Turned(k, m)
  PROVE  Turned(gr, m)
<1>1. Keeps(gr, m)
  BY KeepsTwice DEF Turned
<1> QED
  BY <1>1 DEF Turned, Down, Ended, Up

\* Flags are no turn.
LEMMA AlikeTurned ==
  ASSUME NEW gr, NEW k, Alike(gr, k)
  PROVE  Turned(gr, k)
BY DEF Alike, Turned

\* A timer that runs out turns the state, unless it gives up on a stop.
LEMMA TimeoutLone ==
  ASSUME NEW gr, Lone(gr)
  PROVE  LET k == OnStateTimeout(gr, self) IN
         /\ Keeps(gr, k)
         /\ ~(gr.state[self] = "Stopping" /\ self \in gr.killed) => Turned(gr, k)
<1> DEFINE out == [gr EXCEPT !.timed = @ \ {self}]
           gone == LandStop(out, self, "err")
           m == [gone EXCEPT !.stopTimedOut = @ \cup {self}]
<1>1. Alike(gr, out)
  BY OneTask DEF Alike, Keeps, Lone, Graph
<1> HIDE DEF out
<1>2. Lone(out) /\ out.state = gr.state
  BY <1>1 DEF Alike, Keeps
<1>3. "err" \in ExitInfo /\ TRUE \in BOOLEAN
  BY DEF ExitInfo
<1>4. Keeps(out, gone)
  BY <1>2, <1>3, LandStopLone
<1> HIDE DEF gone
<1>5. Alike(gone, m)
  <2>1. Lone(gone) /\ gone \in Graph
    BY <1>4 DEF Keeps, Lone
  <2>2. /\ m \in Graph /\ m.tasks = gone.tasks /\ m.edges = gone.edges /\ m.next = gone.next
        /\ m.dead = gone.dead /\ m.activeDependents = gone.activeDependents
        /\ m.kind = gone.kind /\ m.ready = gone.ready /\ m.state = gone.state
    BY <2>1, OneTask DEF Graph
  <2> HIDE DEF m
  <2> QED
    BY <2>1, <2>2 DEF Alike, Keeps, Lone
<1> HIDE DEF m
<1>6. Keeps(gr, gone) /\ Keeps(gr, m)
  BY <1>1, <1>4, <1>5, KeepsTwice DEF Alike
<1>7. Keeps(out, ToIdle(out, self)) /\ ToIdle(out, self).state[self] = "Idle"
  BY <1>2, ToIdleLone
<1>8. Alike(out, HardKill(out, self))
  BY <1>2, HardKillLone
<1>9. /\ Keeps(out, StopTask(out, self, TRUE))
      /\ StopTask(out, self, TRUE).state[self] = "Stopping"
  BY <1>2, <1>3, StopTaskLone
<1>10. CASE gr.state[self] = "Backoff"
  <2>1. OnStateTimeout(gr, self) = ToIdle(out, self)
    BY <1>10 DEF OnStateTimeout, out
  <2>2. gr.state[self] \in Down /\ "Idle" \in Down
    BY <1>10 DEF Down, Ended
  <2> QED
    BY <1>1, <1>7, <2>1, <2>2, KeepsTwice DEF Alike, Turned
<1>11. CASE gr.state[self] = "Stopping" /\ self \in gr.killed
  <2>1. OnStateTimeout(gr, self) = IF self \notin gr.startFailed THEN m ELSE gone
    BY <1>11 DEF OnStateTimeout, out, gone, m
  <2> QED
    BY <1>6, <1>11, <2>1
<1>12. CASE gr.state[self] = "Stopping" /\ self \notin gr.killed
  <2>1. OnStateTimeout(gr, self) = HardKill(out, self)
    BY <1>12 DEF OnStateTimeout, out
  <2> QED
    BY <1>1, <1>8, <2>1, AlikeTwice, AlikeTurned DEF Turned
<1>13. CASE gr.state[self] = "Running" /\ has_timeout(gr.ready[self])
  <2>1. OnStateTimeout(gr, self) = StopTask(out, self, TRUE)
    BY <1>13 DEF OnStateTimeout, out
  <2>2. gr.state[self] \in Up
    BY <1>13 DEF Up
  <2> QED
    BY <1>1, <1>9, <2>1, <2>2, KeepsTwice DEF Alike, Turned
<1>14. CASE /\ gr.state[self] \notin {"Backoff", "Stopping"}
            /\ ~(gr.state[self] = "Running" /\ has_timeout(gr.ready[self]))
  <2>1. OnStateTimeout(gr, self) = out
    BY <1>14 DEF OnStateTimeout, out
  <2> QED
    BY <1>1, <2>1, AlikeTurned DEF Turned
<1> QED
  BY <1>10, <1>11, <1>12, <1>13, <1>14

\* Pinning and unpinning change flags, and the one edge there may be.
LEMMA SetPinLone ==
  ASSUME NEW gr, Lone(gr), NEW pinned \in BOOLEAN
  PROVE  Alike(gr, SetPin(gr, self, pinned))
<1> DEFINE latest == [gr EXCEPT !.savedPin = @ \ {self}]
<1>1. Alike(gr, latest)
  BY OneTask DEF Alike, Keeps, Lone, Graph
<1> HIDE DEF latest
<1>2. Lone(latest)
  BY <1>1 DEF Alike, Keeps
<1>3. latest \in Graph /\ latest.wantedParents \in [Task -> Int]
  BY <1>2 DEF Lone, Graph
<1>4. ~ParentActive(latest, Init0)
  BY DEF ParentActive
<1>5. Alike(latest, AddEdges(latest, Init0, {self}))
  <2> DEFINE valid == {to \in {self} \cap latest.tasks : to # Init0}
             new == {to \in valid : <<Init0, to>> \notin latest.edges}
             count == IF ParentWanted(latest, Init0) THEN Bump(latest.wantedParents, new, 1)
                      ELSE latest.wantedParents
             m == [latest EXCEPT !.edges = @ \cup {<<Init0, to>> : to \in new},
                                 !.wantedParents = count,
                                 !.activeDependents = @]
  <2>1. count \in [Task -> Int]
    BY <1>3 DEF Bump
  <2>2. new \subseteq {self} /\ {<<Init0, to>> : to \in new} \subseteq {<<Init0, self>>}
    OBVIOUS
  <2> HIDE DEF new, count
  <2>3. Alike(latest, m)
    <3>1. /\ m.tasks = latest.tasks /\ m.next = latest.next /\ m.dead = latest.dead
          /\ m.activeDependents = latest.activeDependents /\ m.kind = latest.kind
          /\ m.ready = latest.ready /\ m.state = latest.state
          /\ m.edges = latest.edges \cup {<<Init0, to>> : to \in new}
      BY <1>3 DEF Graph
    <3>2. {<<Init0, to>> : to \in new} \subseteq (Task \cup {Init0}) \X Task
      BY <2>2, OneTask
    <3>3. m \in Graph
      BY <1>3, <2>1, <3>2 DEF Graph
    <3> HIDE DEF m
    <3> QED
      BY <1>2, <2>2, <3>1, <3>3 DEF Alike, Keeps, Lone
  <2>4. AddEdges(latest, Init0, {self}) =
          IF valid = {} \/ Init0 \notin latest.tasks \cup {Init0} THEN latest
          ELSE Enqueue(m, valid \cup {Init0})
    BY <1>4 DEF AddEdges, new, count, m, valid
  <2>5. Alike(m, Enqueue(m, valid \cup {Init0}))
    BY <2>3, EnqueueLone DEF Alike, Keeps
  <2> HIDE DEF m, valid
  <2> QED
    BY <1>2, <2>3, <2>4, <2>5, AlikeTwice, AlikeSelf
<1>6. Alike(latest, RemoveEdges(latest, Init0, {self}))
  <2> DEFINE old == {to \in {self} : <<Init0, to>> \in latest.edges}
             count == IF ParentWanted(latest, Init0) THEN Bump(latest.wantedParents, old, -1)
                      ELSE latest.wantedParents
             m == [latest EXCEPT !.edges = @ \ {<<Init0, to>> : to \in old},
                                 !.wantedParents = count,
                                 !.activeDependents = @]
  <2>1. count \in [Task -> Int]
    BY <1>3 DEF Bump
  <2> HIDE DEF old, count
  <2>3. Alike(latest, m)
    <3>1. /\ m.tasks = latest.tasks /\ m.next = latest.next /\ m.dead = latest.dead
          /\ m.activeDependents = latest.activeDependents /\ m.kind = latest.kind
          /\ m.ready = latest.ready /\ m.state = latest.state
          /\ m.edges = latest.edges \ {<<Init0, to>> : to \in old}
      BY <1>3 DEF Graph
    <3>2. m \in Graph
      BY <1>3, <2>1 DEF Graph
    <3> HIDE DEF m
    <3> QED
      BY <1>2, <3>1, <3>2 DEF Alike, Keeps, Lone
  <2>4. RemoveEdges(latest, Init0, {self}) = Enqueue(m, {self} \cup {Init0})
    BY <1>4 DEF RemoveEdges, old, count, m
  <2>5. Alike(m, Enqueue(m, {self} \cup {Init0}))
    BY <2>3, EnqueueLone DEF Alike, Keeps
  <2> HIDE DEF m
  <2> QED
    BY <2>3, <2>4, <2>5, AlikeTwice
<1> QED
  BY <1>1, <1>5, <1>6, AlikeTwice DEF SetPin, latest

\* A demand revives the task from a state it ended in, and changes no other.
LEMMA DemandLone ==
  ASSUME NEW gr, Lone(gr), NEW rerun \in BOOLEAN
  PROVE  Turned(gr, Demand(gr, self, rerun))
<1> DEFINE C == Closure(gr, self) \cap gr.tasks
           revive == {u \in C : \/ gr.state[u] \in {"Backoff", "Exited"}
                                \/ gr.state[u] = "Done" /\ rerun /\ u = self}
           parents == UNION {Dependents(gr, u) : u \in {r \in revive : Satisfied(gr, r)}}
           state == [u \in Task |-> IF u \in revive THEN "Idle" ELSE gr.state[u]]
           exit == [u \in Task |-> IF u \in revive THEN NoExit ELSE gr.exit[u]]
           dirt == gr.dirty \cup (C \cap gr.vetoed) \cup revive \cup parents
           idle == [gr EXCEPT
                 !.state = state, !.exit = exit,
                 !.killed = @ \ revive, !.stopTimedOut = @ \ revive,
                 !.timed = @ \ revive, !.startFailed = @ \ C, !.vetoed = @ \ C,
                 !.dirty = dirt]
<1>1. C \subseteq {self} /\ revive \subseteq {self}
  BY DEF Lone
<1>2. gr \in Graph /\ gr.state \in [Task -> TaskState]
      /\ gr.exit \in [Task -> ExitInfo \cup {NoExit}]
  BY DEF Lone, Graph
<1>3. state \in [Task -> TaskState]
  BY <1>2 DEF TaskState
<1>4. exit \in [Task -> ExitInfo \cup {NoExit}]
  BY <1>2
<1>5. dirt \in SUBSET Task
  <2>1. parents = {}
    BY <1>1, NoNeighbours
  <2> QED
    BY <1>1, <1>2, <2>1, OneTask DEF Graph
<1>6. \/ state[self] = gr.state[self]
      \/ gr.state[self] \in Down /\ state[self] \in Down
  BY OneTask DEF Down, Ended
<1> HIDE DEF C, revive, parents, state, exit, dirt
<1>7. idle \in Graph
  BY <1>2, <1>3, <1>4, <1>5 DEF Graph
<1>8. /\ idle.tasks = gr.tasks /\ idle.edges = gr.edges /\ idle.next = gr.next
      /\ idle.dead = gr.dead /\ idle.activeDependents = gr.activeDependents
      /\ idle.kind = gr.kind /\ idle.ready = gr.ready /\ idle.state = state
  BY <1>2 DEF Graph
<1>9. Keeps(gr, idle)
  BY <1>7, <1>8 DEF Keeps, Lone
<1> HIDE DEF idle
<1>10. Turned(gr, idle) /\ Lone(idle)
  BY <1>6, <1>8, <1>9 DEF Turned, Keeps
<1>11. Turned(idle, Notify(idle))
  BY <1>10, NotifyLone, AlikeTurned
<1>12. Demand(gr, self, rerun) = IF revive = {} THEN idle ELSE Notify(idle)
  BY DEF Demand, idle, dirt, state, exit, parents, revive, C
<1> QED
  BY <1>10, <1>11, <1>12, TurnedTwice

\* A veto changes flags only.
LEMMA SetVetoedLone ==
  ASSUME NEW gr, Lone(gr)
  PROVE  Alike(gr, SetVetoed(gr, self))
<1> DEFINE m == [gr EXCEPT !.vetoed = @ \cup {self}]
<1>1. Alike(gr, m)
  BY OneTask DEF Alike, Keeps, Lone, Graph
<1> HIDE DEF m
<1>2. Alike(m, Enqueue(m, {self}))
  BY <1>1, EnqueueLone DEF Alike, Keeps
<1>3. SetVetoed(gr, self) = IF self \in gr.vetoed THEN gr ELSE Enqueue(m, {self})
  BY DEF SetVetoed, m
<1> QED
  BY <1>1, <1>2, <1>3, AlikeTwice, AlikeSelf

\* The pin, then the demand.
LEMMA CmdStartLone ==
  ASSUME NEW gr, Lone(gr)
  PROVE  Turned(gr, CmdStart(gr, self)) /\ Turned(gr, CmdUp(gr, self))
<1> DEFINE m == SetPin(gr, self, TRUE)
<1>1. Alike(gr, m)
  BY SetPinLone
<1>2. Turned(gr, m) /\ Lone(m)
  BY <1>1, AlikeTurned DEF Alike, Keeps
<1>3. Turned(m, Demand(m, self, TRUE)) /\ Turned(m, Demand(m, self, FALSE))
  BY <1>2, DemandLone
<1> QED
  BY <1>2, <1>3, TurnedTwice DEF CmdStart, CmdUp

\* A stop of a task that is up.
LEMMA StopIfActiveLone ==
  ASSUME NEW gr, Lone(gr)
  PROVE  Turned(gr, StopIfActive(gr, self))
BY StopTaskLone, AlikeSelf, AlikeTurned DEF StopIfActive, Turned

\* A kill: a task that is up is being stopped from then on.
LEMMA CmdKillLone ==
  ASSUME NEW gr, Lone(gr)
  PROVE  Turned(gr, CmdKill(gr, self))
<1> DEFINE unpinned == SetPin(gr, self, FALSE)
           stopping == SetState(unpinned, self, "Stopping", NoExit)
<1>1. Alike(gr, unpinned)
  BY SetPinLone
<1>2. Lone(unpinned) /\ unpinned.state = gr.state /\ Turned(gr, unpinned)
  BY <1>1, AlikeTurned DEF Alike, Keeps
<1> HIDE DEF unpinned
<1>3. Turned(unpinned, HardKill(unpinned, self))
  BY <1>2, HardKillLone, AlikeTurned
<1>4. CASE gr.state[self] \in Up
  <2>1. "Stopping" \in TaskState
    BY DEF TaskState
  <2>2. Keeps(unpinned, stopping) /\ stopping.state[self] = "Stopping"
    BY <1>2, <2>1, SetStateLone
  <2>3. Turned(unpinned, stopping) /\ Lone(stopping)
    BY <1>2, <1>4, <2>2 DEF Turned, Keeps
  <2>4. Turned(stopping, HardKill(stopping, self))
    BY <2>3, HardKillLone, AlikeTurned
  <2>5. CmdKill(gr, self) = HardKill(stopping, self)
    BY <1>4 DEF CmdKill, unpinned, Up
  <2> QED
    BY <1>2, <2>3, <2>4, <2>5, TurnedTwice
<1>5. CASE gr.state[self] \notin Up
  <2>1. CmdKill(gr, self) = IF gr.state[self] = "Stopping" THEN HardKill(unpinned, self)
                            ELSE unpinned
    BY <1>5 DEF CmdKill, unpinned
  <2> QED
    BY <1>2, <1>3, <2>1, TurnedTwice
<1> QED
  BY <1>4, <1>5

\* Every verb but a removal turns the state.
LEMMA ActLone ==
  ASSUME NEW gr, Lone(gr), NEW verb \in Verb \ {"Remove"}
  PROVE  Turned(gr, Act(verb, gr, self))
<1>1. Turned(gr, CmdStart(gr, self)) /\ Turned(gr, CmdUp(gr, self))
  BY CmdStartLone
<1>2. Turned(gr, CmdStop(gr, self))
  <2>1. Turned(gr, SetPin(gr, self, FALSE)) /\ Lone(SetPin(gr, self, FALSE))
    BY SetPinLone, AlikeTurned DEF Alike, Keeps
  <2> QED
    BY <2>1, StopIfActiveLone, TurnedTwice DEF CmdStop
<1>3. Turned(gr, CmdRestart(gr, self))
  <2>1. Lone(CmdStart(gr, self))
    BY <1>1 DEF Turned, Keeps
  <2> QED
    BY <1>1, <2>1, StopIfActiveLone, TurnedTwice DEF CmdRestart
<1>4. Turned(gr, CmdKill(gr, self))
  BY CmdKillLone
<1>5. Turned(gr, CmdStart(CmdKill(gr, self), self))
  <2>1. Lone(CmdKill(gr, self))
    BY <1>4 DEF Turned, Keeps
  <2> QED
    BY <1>4, <2>1, CmdStartLone, TurnedTwice
<1>6. Turned(gr, SetPin(gr, self, FALSE))
  BY SetPinLone, AlikeTurned
<1>7. Turned(gr, CmdVeto(gr, self))
  <2>1. Lone(SetPin(gr, self, FALSE))
    BY <1>6 DEF Turned, Keeps
  <2> QED
    BY <1>6, <2>1, SetVetoedLone, AlikeTurned, TurnedTwice DEF CmdVeto
<1>8. Act(verb, gr, self) \in
        {CmdStart(gr, self), CmdUp(gr, self), CmdStop(gr, self), CmdRestart(gr, self),
         CmdKill(gr, self), CmdStart(CmdKill(gr, self), self), SetPin(gr, self, FALSE),
         CmdVeto(gr, self)}
  BY DEF Act, Verb
<1> HIDE DEF Turned
<1> QED
  BY <1>1, <1>2, <1>3, <1>4, <1>5, <1>6, <1>7, <1>8

-----------------------------------------------------------------------------
(* The settle *)

\* The caches say what the intent and the counters say.
Current(gr) ==
  /\ self \in gr.wanted <=> ComputeWanted(gr, self)
  /\ self \in gr.supported <=> self \in gr.wanted

\* There is nothing to drive.
Quiet(gr) ==
  /\ self \in gr.supported => gr.state[self] # "Idle"
  /\ self \notin gr.supported => gr.state[self] \notin Up \cup {"Backoff"}

\* What the reconciler does to the state.
Driven(gr, k) ==
  /\ Keeps(gr, k)
  /\ \/ k.state[self] = gr.state[self]
     \/ gr.state[self] = "Idle" /\ k.state[self] = "Starting"
     \/ gr.state[self] \in Up /\ k.state[self] = "Stopping"
     \/ gr.state[self] = "Backoff" /\ k.state[self] = "Idle"

\* RecomputeCaches makes the caches current, and queues nothing.
LEMMA RecomputeLone ==
  ASSUME NEW gr, Lone(gr)
  PROVE  LET k == RecomputeCaches(gr, self) IN
         /\ Alike(gr, k) /\ Current(k) /\ k.dirty = gr.dirty
         /\ Current(gr) => k.wanted = gr.wanted /\ k.supported = gr.supported
<1> DEFINE now == ComputeWanted(gr, self)
           moved == [gr EXCEPT
              !.wanted = IF now THEN @ \cup {self} ELSE @ \ {self},
              !.wantedParents = Bump(@, {}, IF now THEN 1 ELSE -1)]
           g1 == IF now = (self \in gr.wanted) THEN gr ELSE moved
           m == [g1 EXCEPT
              !.supported = IF self \in g1.wanted THEN @ \cup {self} ELSE @ \ {self}]
           k == IF (self \in g1.wanted) = (self \in g1.supported) THEN g1 ELSE m
<1>0. gr \in Graph /\ gr.wantedParents \in [Task -> Int] /\ self \in Task
  BY OneTask DEF Lone, Graph
<1>1. Bump(gr.wantedParents, {}, IF now THEN 1 ELSE -1) = gr.wantedParents
  BY <1>0 DEF Bump
<1>2. Alike(gr, moved)
  <2>1. moved = [gr EXCEPT !.wanted = IF now THEN @ \cup {self} ELSE @ \ {self}]
    BY <1>0, <1>1 DEF Graph
  <2>2. moved \in Graph
    BY <1>0, <2>1 DEF Graph
  <2>3. /\ moved.tasks = gr.tasks /\ moved.edges = gr.edges /\ moved.next = gr.next
        /\ moved.dead = gr.dead /\ moved.activeDependents = gr.activeDependents
        /\ moved.kind = gr.kind /\ moved.ready = gr.ready /\ moved.state = gr.state
    BY <1>0, <2>1 DEF Graph
  <2> HIDE DEF moved
  <2> QED
    BY <2>2, <2>3 DEF Alike, Keeps, Lone
<1>3. /\ moved.wanted = (IF now THEN gr.wanted \cup {self} ELSE gr.wanted \ {self})
      /\ moved.supported = gr.supported /\ moved.dirty = gr.dirty
      /\ moved.wantedParents = gr.wantedParents /\ moved.vetoed = gr.vetoed
      /\ moved.quitting = gr.quitting
  BY <1>0, <1>1 DEF Graph
<1> HIDE DEF moved
<1>4. /\ Alike(gr, g1) /\ g1.dirty = gr.dirty /\ g1.supported = gr.supported
      /\ (self \in g1.wanted) = now
      /\ ComputeWanted(g1, self) = now
      /\ now = (self \in gr.wanted) => g1.wanted = gr.wanted
  BY <1>2, <1>3, AlikeSelf DEF ComputeWanted
<1>5. Lone(g1)
  BY <1>4 DEF Alike, Keeps
<1> HIDE DEF g1
<1>6. /\ Alike(g1, m) /\ m.dirty = g1.dirty /\ m.wanted = g1.wanted
      /\ m.wantedParents = g1.wantedParents /\ m.vetoed = g1.vetoed
      /\ m.quitting = g1.quitting
      /\ m.supported = (IF self \in g1.wanted THEN g1.supported \cup {self}
                        ELSE g1.supported \ {self})
  BY <1>5, OneTask DEF Alike, Keeps, Lone, Graph
<1> HIDE DEF m
<1>7. /\ Alike(gr, k) /\ k.dirty = gr.dirty
      /\ (self \in k.wanted) = now /\ ComputeWanted(k, self) = now
      /\ self \in k.supported <=> self \in k.wanted
  BY <1>4, <1>5, <1>6, AlikeTwice DEF ComputeWanted
<1>8. Current(gr) => k.wanted = gr.wanted /\ k.supported = gr.supported
  <2>1. SUFFICES ASSUME Current(gr) PROVE k = g1 /\ g1.wanted = gr.wanted
    BY <1>4
  <2>2. now = (self \in gr.wanted)
    BY <2>1 DEF Current, ComputeWanted
  <2>3. g1.wanted = gr.wanted /\ g1.supported = gr.supported
    BY <1>4, <2>2
  <2>4. (self \in g1.wanted) = (self \in g1.supported)
    BY <2>1, <2>3 DEF Current
  <2> QED
    BY <2>3, <2>4
<1>9. RecomputeCaches(gr, self) = k
  <2>1. /\ Deps(gr, self) = {} /\ Dependents(gr, self) = {}
        /\ Deps(g1, self) = {}
    BY <1>5, NoNeighbours
  <2>2. ComputeSupported(g1, self) = (self \in g1.wanted)
    BY <2>1 DEF ComputeSupported
  <2>3. /\ Enqueue(moved, {}) = moved /\ Enqueue(m, {}) = m
    <3>1. moved \in Graph /\ m \in Graph
      BY <1>2, <1>6 DEF Alike, Keeps, Lone
    <3> QED
      BY <3>1 DEF Enqueue, Graph
  <2> DEFINE turned == ComputeWanted(gr, self) # (self \in gr.wanted)
             g2 == IF ~turned THEN gr ELSE Enqueue(moved, {})
  <2>4. RecomputeCaches(gr, self) =
          IF ComputeSupported(g2, self) = (self \in g2.supported) THEN g2
          ELSE Enqueue([g2 EXCEPT !.supported =
                 IF ComputeSupported(g2, self) THEN @ \cup {self} ELSE @ \ {self}], {})
    BY <2>1 DEF RecomputeCaches, moved
  <2>5. g2 = g1
    BY <2>3 DEF g1
  <2> HIDE DEF g2
  <2>6. RecomputeCaches(gr, self) =
          IF (self \in g1.wanted) = (self \in g1.supported) THEN g1
          ELSE Enqueue([g1 EXCEPT !.supported =
                 IF self \in g1.wanted THEN @ \cup {self} ELSE @ \ {self}], {})
    BY <2>2, <2>4, <2>5
  <2> QED
    BY <2>3, <2>6 DEF m
<1> HIDE DEF k
<1> QED
  BY <1>7, <1>8, <1>9 DEF Current

\* DriveTask takes at most one step, after which there is nothing to drive.
LEMMA DriveLone ==
  ASSUME NEW gr, Lone(gr), Current(gr)
  PROVE  LET k == DriveTask(gr, self) IN
         /\ Driven(gr, k) /\ Current(k) /\ Quiet(k)
         /\ Quiet(gr) => k = gr
<1>1. Keeps(gr, gr)
  BY DEF Keeps
<1>2. CASE self \in gr.supported /\ gr.state[self] = "Idle"
  <2>1. DriveTask(gr, self) = StartTask(gr, self)
    BY <1>2 DEF DriveTask
  <2> QED
    BY <1>2, <2>1, StartTaskLone DEF Driven, Current, Quiet, ComputeWanted
<1>3. CASE self \notin gr.supported /\ gr.state[self] \in Up
  <2>1. DriveTask(gr, self) = StopTask(gr, self, FALSE)
    BY <1>3 DEF DriveTask, Up, Lone
  <2> QED
    BY <1>3, <2>1, StopTaskLone DEF Driven, Current, Quiet, ComputeWanted, Up
<1>4. CASE self \notin gr.supported /\ gr.state[self] = "Backoff"
  <2>1. DriveTask(gr, self) = ToIdle(gr, self)
    BY <1>4 DEF DriveTask, Up
  <2> QED
    BY <1>4, <2>1, ToIdleLone DEF Driven, Current, Quiet, ComputeWanted, Up
<1>5. CASE Quiet(gr)
  <2>1. DriveTask(gr, self) = gr
    BY <1>5 DEF DriveTask, Quiet, Up
  <2> QED
    BY <1>1, <1>5, <2>1 DEF Driven
<1>6. Quiet(gr) => DriveTask(gr, self) = gr
  BY DEF DriveTask, Quiet, Up
<1> QED
  BY <1>2, <1>3, <1>4, <1>5, <1>6 DEF Quiet

\* A round drives the task once; the next finds nothing to do.
LEMMA RoundLone ==
  ASSUME NEW gr, Lone(gr)
  PROVE  LET k == Round(gr) IN
         /\ Driven(gr, k)
         /\ k.dirty = {} \/ (Current(k) /\ Quiet(k))
         /\ Current(gr) /\ Quiet(gr) => k.dirty = {} /\ k.state = gr.state
<1> DEFINE clear == [gr EXCEPT !.dirty = {}]
           m == RecomputeCaches(clear, self)
           k == DriveTask(m, self)
<1>1. Alike(gr, clear) /\ clear.dirty = {} /\ clear.wanted = gr.wanted
      /\ clear.supported = gr.supported /\ clear.wantedParents = gr.wantedParents
      /\ clear.vetoed = gr.vetoed /\ clear.quitting = gr.quitting
  BY DEF Alike, Keeps, Lone, Graph
<1> HIDE DEF clear
<1>2. Lone(clear)
  BY <1>1 DEF Alike, Keeps
<1>3. /\ Alike(clear, m) /\ Current(m) /\ m.dirty = {}
      /\ Current(clear) => m.wanted = clear.wanted /\ m.supported = clear.supported
  BY <1>1, <1>2, RecomputeLone
<1> HIDE DEF m
<1>4. Lone(m) /\ Alike(gr, m)
  BY <1>1, <1>3, AlikeTwice DEF Alike, Keeps
<1>5. /\ Driven(m, k) /\ Current(k) /\ Quiet(k) /\ (Quiet(m) => k = m)
  BY <1>3, <1>4, DriveLone
<1> HIDE DEF k
<1>6. Driven(gr, k)
  BY <1>4, <1>5, KeepsTwice DEF Driven, Alike
<1>7. Current(gr) => Current(clear)
  BY <1>1 DEF Current, ComputeWanted
<1>8. Current(gr) /\ Quiet(gr) => Quiet(m)
  BY <1>1, <1>3, <1>4, <1>7 DEF Quiet, Alike
<1>9. Round(gr) = IF gr.dirty = {} THEN gr ELSE k
  BY DEF Round, k, m, clear
<1>10. Driven(gr, gr)
  BY DEF Driven, Keeps
<1> QED
  BY <1>3, <1>4, <1>5, <1>6, <1>8, <1>9, <1>10 DEF Alike

\* Settle drives the task at most once and leaves the queue empty.
LEMMA SettleLone ==
  ASSUME NEW gr, Lone(gr)
  PROVE  /\ Driven(gr, Settle(gr)) /\ Settle(gr).dirty = {}
         /\ Current(gr) /\ Quiet(gr) => Settle(gr).state = gr.state
<1> DEFINE a == Round(gr)
           b == Round(a)
<1>1. /\ Driven(gr, a) /\ (a.dirty = {} \/ (Current(a) /\ Quiet(a)))
      /\ Current(gr) /\ Quiet(gr) => a.dirty = {} /\ a.state = gr.state
  BY RoundLone
<1>2. Lone(a)
  BY <1>1 DEF Driven, Keeps
<1> HIDE DEF a
<1>3. Driven(a, b) /\ (Current(a) /\ Quiet(a) => b.dirty = {} /\ b.state = a.state)
  BY <1>2, RoundLone
<1>4. a.dirty = {} => b = a
  BY DEF Round
<1>5. b.dirty = {} /\ b.state = a.state
  BY <1>1, <1>3, <1>4
<1>6. Driven(gr, b)
  BY <1>1, <1>3, <1>5, KeepsTwice DEF Driven
<1>7. Round(b) = b
  BY <1>5 DEF Round
<1> QED
  BY <1>1, <1>4, <1>5, <1>6, <1>7 DEF Settle, a

\* A registration of the task into the empty graph leaves it alone there, Idle.
LEMMA RegisterLone ==
  ASSUME NEW def \in Defs
  PROVE  LET k == Register(EmptyGraph, self, def) IN
         /\ Lone(k) /\ k.state[self] = "Idle"
         /\ k.ready[self] = def.ready
         /\ Current(k) /\ Quiet(k)
<1> DEFINE added == [EmptyGraph EXCEPT
                  !.tasks = @ \cup {self},
                  !.kind[self] = def.kind, !.ready[self] = def.ready,
                  !.restart[self] = def.restart,
                  !.savedPin = IF def.savedPin THEN @ \cup {self} ELSE @]
<1>1. def \in TaskDef /\ def.deps = {} /\ ~def.pinned
  BY ProcessAssumption
<1>2. def.kind \in TaskKind /\ def.ready \in ReadyMode /\ def.restart \in RestartMode
  BY <1>1 DEF TaskDef
<1>3. EmptyGraph \in Graph
  BY DEF EmptyGraph, Graph, TaskState, TaskKind, ReadyMode, RestartMode
<1>4. /\ added \in Graph /\ added.tasks = {self} /\ added.edges = {}
      /\ added.next = EmptyGraph.next /\ added.dead = {}
      /\ added.activeDependents = EmptyGraph.activeDependents
      /\ added.state = EmptyGraph.state
      /\ added.ready[self] = def.ready
      /\ added.wanted = {} /\ added.supported = {}
      /\ added.wantedParents = EmptyGraph.wantedParents
  <2>1. /\ EmptyGraph.kind \in [Task -> TaskKind] /\ EmptyGraph.ready \in [Task -> ReadyMode]
        /\ EmptyGraph.tasks = {} /\ EmptyGraph.edges = {} /\ EmptyGraph.dead = {}
    BY DEF EmptyGraph, TaskKind, ReadyMode
  <2>2. added \in Graph
    <3> DEFINE kind == [EmptyGraph.kind EXCEPT ![self] = def.kind]
               ready == [EmptyGraph.ready EXCEPT ![self] = def.ready]
               restart == [EmptyGraph.restart EXCEPT ![self] = def.restart]
               saved == IF def.savedPin THEN EmptyGraph.savedPin \cup {self}
                        ELSE EmptyGraph.savedPin
               tasks == EmptyGraph.tasks \cup {self}
    <3>1. kind \in [Task -> TaskKind] /\ ready \in [Task -> ReadyMode]
      BY <1>2, <2>1
    <3>2. restart \in [Task -> RestartMode]
      BY <1>2, <1>3 DEF Graph
    <3>3. saved \in SUBSET Task /\ tasks \in SUBSET Task
      BY <1>3, OneTask DEF Graph
    <3>4. added = [EmptyGraph EXCEPT !.tasks = tasks, !.kind = kind, !.ready = ready,
                                     !.restart = restart, !.savedPin = saved]
      BY <1>3 DEF Graph
    <3> HIDE DEF kind, ready, restart, saved, tasks, added
    <3> QED
      BY <1>3, <3>1, <3>2, <3>3, <3>4 DEF Graph
  <2>3. /\ added.tasks = {self} /\ added.edges = {}
        /\ added.next = EmptyGraph.next /\ added.dead = {}
        /\ added.activeDependents = EmptyGraph.activeDependents
        /\ added.state = EmptyGraph.state
        /\ added.wanted = {} /\ added.supported = {}
        /\ added.wantedParents = EmptyGraph.wantedParents
        /\ added.ready = [EmptyGraph.ready EXCEPT ![self] = def.ready]
    BY <2>1 DEF EmptyGraph
  <2> QED
    BY <2>1, <2>2, <2>3, OneTask
<1> HIDE DEF added
<1>5. Lone(added) /\ added.state[self] = "Idle"
  BY <1>4, OneTask DEF EmptyGraph, Lone
<1>6. Alike(added, Enqueue(added, {self}))
  BY <1>5, EnqueueLone
<1>7. Alike(added, Notify(Enqueue(added, {self})))
  BY <1>6, NotifyLone, AlikeTwice DEF Alike, Keeps
<1>8. Register(EmptyGraph, self, def) = Notify(Enqueue(added, {self}))
  BY <1>1 DEF Register, AddEdges, added
<1>9. LET k == Register(EmptyGraph, self, def) IN
      /\ k.wanted = {} /\ k.supported = {} /\ k.wantedParents = EmptyGraph.wantedParents
  BY <1>4, <1>8 DEF Notify, Enqueue, Graph
<1>10. Current(Register(EmptyGraph, self, def)) /\ Quiet(Register(EmptyGraph, self, def))
  <2>1. EmptyGraph.wantedParents[self] = 0
    BY OneTask DEF EmptyGraph
  <2> QED
    BY <1>5, <1>7, <1>8, <1>9, <2>1 DEF Current, Quiet, ComputeWanted, Up, Alike
<1> QED
  BY <1>4, <1>5, <1>7, <1>8, <1>10 DEF Alike, Keeps

-----------------------------------------------------------------------------
(* The two channels *)

\* One of the commands `kinds` is on its way.
Has(q, kinds) == \E i \in 1 .. Len(q) : q[i].cmd \in kinds

\* The start of run n is on its way, the only one; if the run is to go on, no
\* stop comes after it.
Due(q, n, going) ==
  \E i \in 1 .. Len(q) :
    /\ q[i].cmd = "Start" /\ q[i].run = n
    /\ \A j \in 1 .. Len(q) : j # i => q[j].cmd # "Start"
    /\ going => \A j \in i .. Len(q) : q[j].cmd \notin {"Stop", "Kill"}

\* A kernel that is not frozen has a handler that is not, or soon will not be.
Thawing(fz, hf, q) ==
  ~fz =>
    \/ ~hf /\ ~Has(q, {"Freeze"})
    \/ \E i \in 1 .. Len(q) :
          q[i].cmd = "Thaw" /\ \A j \in i .. Len(q) : q[j].cmd # "Freeze"

\* The reports are of run n, and none is its last.
Alive(r, n) == \A i \in 1 .. Len(r) : r[i].run = n /\ r[i].what # "Stopped"

\* The reports are of run n, the last one is its last.
Over(r, n) ==
  /\ r # <<>> /\ r[Len(r)].what = "Stopped"
  /\ \A i \in 1 .. Len(r) : r[i].run = n /\ (r[i].what = "Stopped" => i = Len(r))

\* Starts are of runs the kernel started.
Begun(q, n) == \A i \in 1 .. Len(q) : q[i].cmd = "Start" => q[i].run \in 1 .. n

\* A Ready is of a run that passed.
Passed(r, S) == \A i \in 1 .. Len(r) : r[i].what = "Ready" => r[i].run \in S

\* Taking from a channel.
LEMMA TailFacts ==
  ASSUME NEW S, NEW q \in Seq(S), q # <<>>
  PROVE  /\ Tail(q) \in Seq(S) /\ Head(q) \in S /\ Head(q) = q[1]
         /\ Len(Tail(q)) = Len(q) - 1 /\ Len(q) \in Nat /\ Len(q) > 0
         /\ \A i \in 1 .. Len(Tail(q)) : Tail(q)[i] = q[i + 1] /\ i + 1 \in 1 .. Len(q)
         /\ \A i \in 2 .. Len(q) : q[i] = Tail(q)[i - 1] /\ i - 1 \in 1 .. Len(Tail(q))
OBVIOUS

\* Putting into a channel.
LEMMA AppendFacts ==
  ASSUME NEW S, NEW q \in Seq(S), NEW x \in S
  PROVE  /\ Append(q, x) \in Seq(S) /\ Len(q) \in Nat /\ Len(Append(q, x)) = Len(q) + 1
         /\ \A i \in 1 .. Len(q) : Append(q, x)[i] = q[i]
         /\ Append(q, x)[Len(q) + 1] = x
OBVIOUS

\* One more is appended, or none.
LEMMA Sent ==
  ASSUME NEW S, NEW q \in Seq(S)
  PROVE  q \o <<>> = q /\ \A x \in S : q \o <<x>> = Append(q, x)
OBVIOUS

\* What taking a command leaves.
LEMMA Taken ==
  ASSUME NEW S, NEW q \in Seq(S), q # <<>>, NEW n \in Nat
  PROVE  LET rest == Tail(q) IN
         /\ \A kinds : ~Has(q, kinds) => ~Has(rest, kinds)
         /\ \A going : Due(q, n, going) /\ Head(q).cmd # "Start" => Due(rest, n, going)
         /\ \A going : Due(q, n, going) /\ Head(q).cmd = "Start" =>
              /\ Head(q).run = n /\ ~Has(rest, {"Start"})
              /\ going => ~Has(rest, {"Stop", "Kill"})
         /\ \A fz, hf : /\ Thawing(fz, hf, q)
                        /\ Head(q).cmd \notin {"Freeze", "Thaw"}
                        => Thawing(fz, hf, rest)
         /\ \A fz, hf : Thawing(fz, hf, q) /\ Head(q).cmd = "Freeze" => Thawing(fz, TRUE, rest)
         /\ \A fz, hf : Thawing(fz, hf, q) /\ Head(q).cmd = "Thaw" => Thawing(fz, FALSE, rest)
         /\ Begun(q, n) => Begun(rest, n)
         /\ Begun(q, n) /\ Head(q).cmd = "Start" => Head(q).run \in 1 .. n
<1> DEFINE rest == Tail(q)
<1>1. /\ rest \in Seq(S) /\ Head(q) = q[1]
      /\ Len(rest) = Len(q) - 1 /\ Len(q) \in Nat /\ Len(q) > 0 /\ Len(rest) \in Nat
      /\ \A i \in 1 .. Len(rest) : rest[i] = q[i + 1] /\ i + 1 \in 1 .. Len(q)
      /\ \A i \in 2 .. Len(q) : q[i] = rest[i - 1] /\ i - 1 \in 1 .. Len(rest)
  BY TailFacts
<1> HIDE DEF rest
<1>2. ASSUME NEW kinds, ~Has(q, kinds) PROVE ~Has(rest, kinds)
  BY <1>1, <1>2 DEF Has
<1>3. ASSUME NEW going, Due(q, n, going), Head(q).cmd # "Start" PROVE Due(rest, n, going)
  <2>1. PICK i \in 1 .. Len(q) :
          /\ q[i].cmd = "Start" /\ q[i].run = n
          /\ \A j \in 1 .. Len(q) : j # i => q[j].cmd # "Start"
          /\ going => \A j \in i .. Len(q) : q[j].cmd \notin {"Stop", "Kill"}
    BY <1>3 DEF Due
  <2>2. i # 1
    BY <1>1, <1>3, <2>1
  <2>3. i - 1 \in 1 .. Len(rest) /\ rest[i - 1] = q[i]
    BY <1>1, <2>2
  <2>4. \A j \in 1 .. Len(rest) : j # i - 1 => rest[j].cmd # "Start"
    BY <1>1, <2>1
  <2>5. going => \A j \in (i - 1) .. Len(rest) : rest[j].cmd \notin {"Stop", "Kill"}
    BY <1>1, <2>1, <2>3
  <2> QED
    BY <2>1, <2>3, <2>4, <2>5 DEF Due
<1>4. ASSUME NEW going, Due(q, n, going), Head(q).cmd = "Start"
      PROVE  /\ Head(q).run = n /\ ~Has(rest, {"Start"})
             /\ going => ~Has(rest, {"Stop", "Kill"})
  <2>1. PICK i \in 1 .. Len(q) :
          /\ q[i].cmd = "Start" /\ q[i].run = n
          /\ \A j \in 1 .. Len(q) : j # i => q[j].cmd # "Start"
          /\ going => \A j \in i .. Len(q) : q[j].cmd \notin {"Stop", "Kill"}
    BY <1>4 DEF Due
  <2>2. i = 1
    BY <1>1, <1>4, <2>1
  <2>3. \A j \in 1 .. Len(rest) : rest[j].cmd # "Start"
    BY <1>1, <2>1, <2>2
  <2>4. going => \A j \in 1 .. Len(rest) : rest[j].cmd \notin {"Stop", "Kill"}
    BY <1>1, <2>1, <2>2
  <2> QED
    BY <1>1, <2>1, <2>2, <2>3, <2>4 DEF Has
<1>5. ASSUME NEW fz, NEW hf, NEW hf2, Thawing(fz, hf, q),
             \/ hf2 = hf /\ Head(q).cmd \notin {"Freeze", "Thaw"}
             \/ hf2 = TRUE /\ Head(q).cmd = "Freeze"
             \/ hf2 = FALSE /\ Head(q).cmd = "Thaw"
      PROVE  Thawing(fz, hf2, rest)
  <2> SUFFICES ASSUME ~fz
               PROVE  \/ ~hf2 /\ ~Has(rest, {"Freeze"})
                      \/ \E i \in 1 .. Len(rest) :
                           /\ rest[i].cmd = "Thaw"
                           /\ \A j \in i .. Len(rest) : rest[j].cmd # "Freeze"
    BY DEF Thawing
  <2>1. CASE ~hf /\ ~Has(q, {"Freeze"})
    <3>1. ~Has(rest, {"Freeze"}) /\ Head(q).cmd # "Freeze"
      BY <1>1, <1>2, <2>1 DEF Has
    <3> QED
      BY <1>5, <2>1, <3>1
  <2>2. CASE \E i \in 1 .. Len(q) :
               q[i].cmd = "Thaw" /\ \A j \in i .. Len(q) : q[j].cmd # "Freeze"
    <3>1. PICK i \in 1 .. Len(q) :
            q[i].cmd = "Thaw" /\ \A j \in i .. Len(q) : q[j].cmd # "Freeze"
      BY <2>2
    <3>2. CASE i = 1
      <4>1. ~Has(rest, {"Freeze"})
        BY <1>1, <3>1, <3>2 DEF Has
      <4>2. ~hf2
        BY <1>1, <1>5, <3>1, <3>2
      <4> QED
        BY <4>1, <4>2
    <3>3. CASE i # 1
      <4>1. i - 1 \in 1 .. Len(rest) /\ rest[i - 1].cmd = "Thaw"
        BY <1>1, <3>1, <3>3
      <4>2. \A j \in (i - 1) .. Len(rest) : rest[j].cmd # "Freeze"
        BY <1>1, <3>1, <4>1
      <4> QED
        BY <4>1, <4>2
    <3> QED
      BY <3>2, <3>3
  <2> QED
    BY <1>5, <2>1, <2>2 DEF Thawing
<1>6. Begun(q, n) => Begun(rest, n) /\ (Head(q).cmd = "Start" => Head(q).run \in 1 .. n)
  BY <1>1 DEF Begun
<1> QED
  BY <1>2, <1>3, <1>4, <1>5, <1>6 DEF rest

\* What sending a command adds.
LEMMA Added ==
  ASSUME NEW S, NEW q \in Seq(S), NEW x \in S, NEW n \in Nat
  PROVE  LET more == Append(q, x) IN
         /\ \A kinds : ~Has(q, kinds) /\ x.cmd \notin kinds => ~Has(more, kinds)
         /\ \A going : /\ Due(q, n, going) /\ x.cmd # "Start"
                       /\ going => x.cmd \notin {"Stop", "Kill"}
                       => Due(more, n, going)
         /\ \A going : /\ ~Has(q, {"Start"}) /\ x.cmd = "Start" /\ x.run = n
                       => Due(more, n, going)
         /\ \A fz, hf : Thawing(fz, hf, q) /\ x.cmd # "Freeze" => Thawing(fz, hf, more)
         /\ x.cmd = "Thaw" => \A fz, hf : Thawing(fz, hf, more)
         /\ Begun(q, n) /\ (x.cmd = "Start" => x.run \in 1 .. n) => Begun(more, n)
<1> DEFINE more == Append(q, x)
<1>1. /\ more \in Seq(S) /\ Len(q) \in Nat /\ Len(more) = Len(q) + 1
      /\ \A i \in 1 .. Len(q) : more[i] = q[i]
      /\ more[Len(q) + 1] = x
  BY AppendFacts
<1> HIDE DEF more
<1>2. ASSUME NEW kinds, ~Has(q, kinds), x.cmd \notin kinds PROVE ~Has(more, kinds)
  BY <1>1, <1>2 DEF Has
<1>3. ASSUME NEW going, Due(q, n, going), x.cmd # "Start",
             going => x.cmd \notin {"Stop", "Kill"}
      PROVE  Due(more, n, going)
  <2>1. PICK i \in 1 .. Len(q) :
          /\ q[i].cmd = "Start" /\ q[i].run = n
          /\ \A j \in 1 .. Len(q) : j # i => q[j].cmd # "Start"
          /\ going => \A j \in i .. Len(q) : q[j].cmd \notin {"Stop", "Kill"}
    BY <1>3 DEF Due
  <2>2. i \in 1 .. Len(more) /\ more[i] = q[i]
    BY <1>1
  <2>3. \A j \in 1 .. Len(more) : j # i => more[j].cmd # "Start"
    BY <1>1, <1>3, <2>1
  <2>4. ASSUME going, NEW j \in i .. Len(more)
        PROVE  more[j].cmd \notin {"Stop", "Kill"}
    <3>1. (j \in i .. Len(q) /\ j \in 1 .. Len(q)) \/ j = Len(q) + 1
      BY <1>1
    <3>2. CASE j \in i .. Len(q) /\ j \in 1 .. Len(q)
      BY <1>1, <2>1, <2>4, <3>2
    <3>3. CASE j = Len(q) + 1
      BY <1>1, <1>3, <2>4, <3>3
    <3> QED
      BY <3>1, <3>2, <3>3
  <2> QED
    BY <2>1, <2>2, <2>3, <2>4 DEF Due
<1>4. ASSUME NEW going, ~Has(q, {"Start"}), x.cmd = "Start", x.run = n
      PROVE  Due(more, n, going)
  <2>1. Len(q) + 1 \in 1 .. Len(more)
    BY <1>1
  <2>2. \A j \in 1 .. Len(more) : j # Len(q) + 1 => more[j].cmd # "Start"
    BY <1>1, <1>4 DEF Has
  <2>3. \A j \in (Len(q) + 1) .. Len(more) : more[j].cmd \notin {"Stop", "Kill"}
    BY <1>1, <1>4
  <2> QED
    BY <1>1, <1>4, <2>1, <2>2, <2>3 DEF Due
<1>5. ASSUME NEW fz, NEW hf, Thawing(fz, hf, q), x.cmd # "Freeze"
      PROVE  Thawing(fz, hf, more)
  <2>1. ~Has(q, {"Freeze"}) => ~Has(more, {"Freeze"})
    BY <1>2, <1>5
  <2>2. ASSUME NEW i \in 1 .. Len(q), q[i].cmd = "Thaw",
               \A j \in i .. Len(q) : q[j].cmd # "Freeze"
        PROVE  /\ i \in 1 .. Len(more) /\ more[i].cmd = "Thaw"
               /\ \A j \in i .. Len(more) : more[j].cmd # "Freeze"
    BY <1>1, <1>5, <2>2
  <2> QED
    BY <1>5, <2>1, <2>2 DEF Thawing
<1>6. ASSUME NEW fz, NEW hf, x.cmd = "Thaw" PROVE Thawing(fz, hf, more)
  <2>1. Len(q) + 1 \in 1 .. Len(more)
    BY <1>1
  <2>2. \A j \in (Len(q) + 1) .. Len(more) : more[j].cmd # "Freeze"
    BY <1>1, <1>6
  <2> QED
    BY <1>1, <1>6, <2>1, <2>2 DEF Thawing
<1>7. Begun(q, n) /\ (x.cmd = "Start" => x.run \in 1 .. n) => Begun(more, n)
  BY <1>1 DEF Begun
<1> QED
  BY <1>2, <1>3, <1>4, <1>5, <1>6, <1>7 DEF more

\* A Ready is among the reports.
HasReady(r) == \E i \in 1 .. Len(r) : r[i].what = "Ready"

\* Started is the first report, and only of a task that is Starting.
StartedFirst(r, starting) ==
  \A i \in 1 .. Len(r) : r[i].what = "Started" => i = 1 /\ starting

\* What taking a report leaves.
LEMMA Heard ==
  ASSUME NEW S, NEW r \in Seq(S), r # <<>>, NEW n, NEW P
  PROVE  LET rest == Tail(r) IN
         /\ Alive(r, n) => Alive(rest, n) /\ Head(r).run = n /\ Head(r).what # "Stopped"
         /\ Over(r, n) => /\ Head(r).run = n
                         /\ IF Head(r).what = "Stopped" THEN rest = <<>> ELSE Over(rest, n)
         /\ HasReady(r) /\ Head(r).what # "Ready" => HasReady(rest)
         /\ \A st : StartedFirst(r, st) => StartedFirst(rest, FALSE)
         /\ Passed(r, P) => Passed(rest, P) /\ (Head(r).what = "Ready" => Head(r).run \in P)
<1> DEFINE rest == Tail(r)
<1>1. /\ rest \in Seq(S) /\ Head(r) = r[1]
      /\ Len(rest) = Len(r) - 1 /\ Len(r) \in Nat /\ Len(r) > 0 /\ Len(rest) \in Nat
      /\ \A i \in 1 .. Len(rest) : rest[i] = r[i + 1] /\ i + 1 \in 1 .. Len(r)
      /\ \A i \in 2 .. Len(r) : r[i] = rest[i - 1] /\ i - 1 \in 1 .. Len(rest)
  BY TailFacts
<1>2. Len(r) = 1 => rest = <<>>
  BY <1>1
<1> HIDE DEF rest
<1>3. Alive(r, n) => Alive(rest, n) /\ Head(r).run = n /\ Head(r).what # "Stopped"
  BY <1>1 DEF Alive
<1>4. ASSUME Over(r, n)
      PROVE  /\ Head(r).run = n
             /\ IF Head(r).what = "Stopped" THEN rest = <<>> ELSE Over(rest, n)
  <2>1. /\ r[Len(r)].what = "Stopped"
        /\ \A i \in 1 .. Len(r) : r[i].run = n /\ (r[i].what = "Stopped" => i = Len(r))
    BY <1>4 DEF Over
  <2>2. CASE Head(r).what = "Stopped"
    BY <1>1, <1>2, <2>1, <2>2
  <2>3. CASE Head(r).what # "Stopped"
    <3>1. Len(r) # 1
      BY <1>1, <2>1, <2>3
    <3>2. rest # <<>> /\ rest[Len(rest)] = r[Len(r)]
      BY <1>1, <3>1
    <3>3. \A i \in 1 .. Len(rest) : rest[i].run = n /\ (rest[i].what = "Stopped" => i = Len(rest))
      BY <1>1, <2>1
    <3> QED
      BY <1>1, <2>1, <2>3, <3>2, <3>3 DEF Over
  <2> QED
    BY <2>2, <2>3
<1>5. HasReady(r) /\ Head(r).what # "Ready" => HasReady(rest)
  BY <1>1 DEF HasReady
<1>6. \A st : StartedFirst(r, st) => StartedFirst(rest, FALSE)
  BY <1>1 DEF StartedFirst
<1>7. Passed(r, P) => Passed(rest, P) /\ (Head(r).what = "Ready" => Head(r).run \in P)
  <2>1. 1 \in 1 .. Len(r)
    BY <1>1
  <2>2. Passed(r, P) => (Head(r).what = "Ready" => Head(r).run \in P)
    BY <1>1, <2>1 DEF Passed
  <2>3. ASSUME Passed(r, P), NEW i \in 1 .. Len(rest), rest[i].what = "Ready"
        PROVE  rest[i].run \in P
    <3>1. i + 1 \in 1 .. Len(r) /\ rest[i] = r[i + 1]
      BY <1>1, <2>3
    <3> QED
      BY <2>3, <3>1 DEF Passed
  <2> QED
    BY <2>2, <2>3 DEF Passed
<1> QED
  BY <1>3, <1>4, <1>5, <1>6, <1>7 DEF rest

\* What sending a report adds.
LEMMA Told ==
  ASSUME NEW S, NEW r \in Seq(S), NEW x \in S, NEW n, NEW P
  PROVE  LET more == Append(r, x) IN
         /\ more # <<>> /\ (r # <<>> => more[1] = r[1]) /\ (r = <<>> => more[1] = x)
         /\ Alive(r, n) /\ x.run = n =>
              IF x.what = "Stopped" THEN Over(more, n) ELSE Alive(more, n)
         /\ HasReady(r) \/ x.what = "Ready" => HasReady(more)
         /\ \A st : StartedFirst(r, st) /\ (x.what = "Started" => r = <<>> /\ st)
                      => StartedFirst(more, st)
         /\ Passed(r, P) /\ (x.what = "Ready" => x.run \in P) => Passed(more, P)
<1> DEFINE more == Append(r, x)
<1>1. /\ more \in Seq(S) /\ Len(r) \in Nat /\ Len(more) = Len(r) + 1
      /\ \A i \in 1 .. Len(r) : more[i] = r[i]
      /\ more[Len(r) + 1] = x
  BY AppendFacts
<1>2. /\ r = <<>> <=> Len(r) = 0
      /\ more # <<>>
  BY <1>1
<1> HIDE DEF more
<1>3. (r # <<>> => more[1] = r[1]) /\ (r = <<>> => more[1] = x)
  BY <1>1, <1>2
<1>4. ASSUME Alive(r, n), x.run = n
      PROVE  IF x.what = "Stopped" THEN Over(more, n) ELSE Alive(more, n)
  <2>1. \A i \in 1 .. Len(more) : more[i].run = n /\ (more[i].what = "Stopped" => i = Len(more))
    BY <1>1, <1>4 DEF Alive
  <2>2. more[Len(more)] = x
    BY <1>1
  <2>3. x.what # "Stopped" => \A i \in 1 .. Len(more) : more[i].what # "Stopped"
    BY <1>1, <1>4 DEF Alive
  <2> QED
    BY <1>2, <2>1, <2>2, <2>3 DEF Over, Alive
<1>5. HasReady(r) \/ x.what = "Ready" => HasReady(more)
  <2>1. Len(r) + 1 \in 1 .. Len(more)
    BY <1>1
  <2> QED
    BY <1>1, <2>1 DEF HasReady
<1>6. \A st : StartedFirst(r, st) /\ (x.what = "Started" => r = <<>> /\ st)
              => StartedFirst(more, st)
  BY <1>1, <1>2 DEF StartedFirst
<1>7. Passed(r, P) /\ (x.what = "Ready" => x.run \in P) => Passed(more, P)
  BY <1>1 DEF Passed
<1> QED
  BY <1>2, <1>3, <1>4, <1>5, <1>6, <1>7 DEF more

-----------------------------------------------------------------------------
(* The invariant *)

Instance ==
  [process : BOOLEAN, run : Nat, exits : ExitInfo \cup {NoExit},
   exit : ExitInfo \cup {NoExit}, eof : BOOLEAN, readySent : BOOLEAN,
   stopSent : BOOLEAN, probe : BOOLEAN, frozen : BOOLEAN]

Children == [state : {"none", "running", "zombie"}, exit : ExitInfo \cup {NoExit}]

\* There is nothing of a run: no process, and neither a start nor a report
\* under way.
Rests(hh, q, r) == ~hh.process /\ r = <<>> /\ ~Has(q, {"Start"})

\* The last run is to start.
Coming(s, n, hh, q, r) ==
  /\ s \in {"Starting", "Stopping"}
  /\ ~hh.process /\ r = <<>> /\ Due(q, n, s = "Starting")

\* No one has told the run to stop: what the check sends and the kernel heard
\* agree.
Unstopped(s, c, hh, q, r) ==
  /\ StartedFirst(r, s = "Starting")
  /\ ~hh.stopSent /\ ~Has(q, {"Stop", "Kill"})
  /\ s # "Ready" /\ hh.readySent => HasReady(r)
  /\ c = "Probe" /\ ~hh.readySent /\ hh.exit = NoExit => hh.probe \/ hh.frozen

\* The process is that of the last run, and so are the reports.
Lives(s, c, n, hh, q, r) ==
  /\ hh.process /\ hh.run = n /\ ~Has(q, {"Start"}) /\ Alive(r, n)
  /\ s = "Starting" => r # <<>> /\ r[1].what = "Started"
  /\ s \in Up => Unstopped(s, c, hh, q, r)

\* The last run is over, and the kernel has yet to hear of it.
Ends(n, hh, q, r) == ~hh.process /\ ~Has(q, {"Start"}) /\ Over(r, n)

\* How far the run has come, against the state the kernel has it in.
Progress(s, c, n, hh, q, r) ==
  IF s \in Down THEN Rests(hh, q, r)
  ELSE Coming(s, n, hh, q, r) \/ Lives(s, c, n, hh, q, r) \/ Ends(n, hh, q, r)

\* The handler against the child: an exit is taken once, after the child, and
\* nothing is left of either when the process is over.
Held(hh, ch, n) ==
  /\ hh \in Instance /\ ch \in Children
  /\ ch.state = "zombie" => ch.exit # NoExit
  /\ ~hh.process => ch.state = "none" /\ hh.exits = NoExit /\ ~hh.probe
  /\ hh.exits # NoExit => ch.state = "none"
  /\ hh.process /\ hh.exit # NoExit => ch.state = "none" /\ hh.exits = NoExit
  /\ hh.probe => ~hh.readySent /\ hh.exit = NoExit
  /\ hh.process => hh.run \in 1 .. n

\* The types of the channels, and that what is in them is of runs there were.
Channels(q, r, n, P) ==
  /\ n \in Nat /\ P \subseteq 1 .. n
  /\ q \in Seq(TaskCommand) /\ r \in Seq(TaskReport)
  /\ Begun(q, n) /\ Passed(r, P)

\* The graph the loop leaves.
GraphOf(gr, fz, c) ==
  /\ Lone(gr) /\ (fz \/ gr.dirty = {})
  /\ c \in ReadyCheck /\ (c = "None" <=> gr.ready[self] = "Immediate")

PInv ==
  /\ GraphOf(g, frozen, check)
  /\ Channels(toTask, toKernel, run, passed)
  /\ Held(h, child, run)
  /\ Thawing(frozen, h.frozen, toTask)
  /\ gaveUp \in BOOLEAN
  /\ ~gaveUp => Progress(g.state[self], check, run, h, toTask, toKernel)
  /\ ReadyOfThisRun

\* It holds at the start.
LEMMA InitPInv == Init => PInv
<1> SUFFICES ASSUME Init PROVE PInv
  OBVIOUS
<1>1. PICK def \in Defs :
        /\ check \in {c \in ReadyCheck : c = "None" <=> def.ready = "Immediate"}
        /\ g = Settle(Register(EmptyGraph, self, def))
  BY DEF Init
<1> DEFINE k == Register(EmptyGraph, self, def)
<1>2. Lone(k) /\ k.state[self] = "Idle" /\ k.ready[self] = def.ready /\ Current(k) /\ Quiet(k)
  BY RegisterLone
<1> HIDE DEF k
<1>3. Driven(k, g) /\ g.dirty = {} /\ g.state[self] = "Idle"
  BY <1>1, <1>2, SettleLone DEF k
<1>4. GraphOf(g, frozen, check)
  BY <1>1, <1>2, <1>3 DEF GraphOf, Driven, Keeps
<1>5. /\ toTask = <<>> /\ toKernel = <<>> /\ run = 0 /\ passed = {} /\ gaveUp = FALSE
      /\ h = NoInstance /\ child = NoChild /\ frozen = FALSE
  BY DEF Init
<1>6. Channels(toTask, toKernel, run, passed)
  BY <1>5 DEF Channels, Begun, Passed
<1>7. Held(h, child, run)
  BY <1>5 DEF Held, NoInstance, NoChild, Instance, Children
<1>8. Thawing(frozen, h.frozen, toTask)
  BY <1>5 DEF Thawing, Has, NoInstance
<1>9. Progress(g.state[self], check, run, h, toTask, toKernel)
  BY <1>3, <1>5 DEF Progress, Rests, Has, NoInstance, Down
<1>10. ReadyOfThisRun
  BY <1>3 DEF ReadyOfThisRun
<1> QED
  BY <1>4, <1>5, <1>6, <1>7, <1>8, <1>9, <1>10 DEF PInv

-----------------------------------------------------------------------------
(* The steps of the handler *)

\* A run that is to go on is due all the same when it is not to.
LEMMA DueAnyway ==
  ASSUME NEW q, NEW n, NEW going, Due(q, n, going)
  PROVE  Due(q, n, FALSE) /\ Has(q, {"Start"})
BY DEF Due, Has

\* EndTurn: the report of the end goes last, when the process is over.
LEMMA TurnEnds ==
  ASSUME NEW hh, NEW reports \in Seq(TaskReport), EndTurn(hh, reports),
         toKernel \in Seq(TaskReport), NEW n \in Nat, NEW ch, Held(hh, ch, n)
  PROVE  /\ Held(h', ch, n) /\ h'.frozen = hh.frozen /\ h'.run = hh.run
         /\ toKernel' \in Seq(TaskReport)
         /\ \A P : Passed(toKernel \o reports, P) => Passed(toKernel', P)
         /\ \A s, c, q : Progress(s, c, n, hh, q, toKernel \o reports)
                         => Progress(s, c, n, h', q, toKernel')
<1> DEFINE over == hh.process /\ hh.eof /\ hh.exit # NoExit
           r == toKernel \o reports
           x == [what |-> "Stopped", run |-> hh.run, exit |-> hh.exit]
<1>1. r \in Seq(TaskReport)
  OBVIOUS
<1>2. /\ h' = IF over THEN [hh EXCEPT !.process = FALSE] ELSE hh
      /\ toKernel' = r \o (IF over THEN <<x>> ELSE <<>>)
  BY DEF EndTurn
<1> HIDE DEF r
<1>3. CASE ~over
  <2>1. h' = hh /\ toKernel' = r
    BY <1>1, <1>2, <1>3, Sent
  <2> QED
    BY <1>1, <2>1 DEF r
<1>4. CASE over
  <2>1. hh \in Instance /\ hh.process /\ hh.exit \in ExitInfo /\ hh.run \in Nat
    BY <1>4 DEF Held, Instance
  <2>2. x \in TaskReport
    BY <2>1 DEF TaskReport
  <2>3. toKernel' = Append(r, x)
    BY <1>1, <1>2, <1>4, <2>2, Sent
  <2>4. toKernel' \in Seq(TaskReport)
    BY <1>1, <2>2, <2>3, AppendFacts
  <2>5. h' = [hh EXCEPT !.process = FALSE]
    BY <1>2, <1>4
  <2>6. /\ h' \in Instance /\ ~h'.process /\ h'.exits = hh.exits /\ h'.exit = hh.exit
        /\ h'.probe = hh.probe /\ h'.readySent = hh.readySent /\ h'.run = hh.run
        /\ h'.frozen = hh.frozen
    BY <2>1, <2>5 DEF Instance
  <2>7. Held(h', ch, n)
    BY <1>4, <2>6 DEF Held
  <2>8. ASSUME NEW P, Passed(r, P) PROVE Passed(toKernel', P)
    BY <1>1, <2>2, <2>3, <2>8, Told
  <2>9. ASSUME NEW s, NEW c, NEW q, Progress(s, c, n, hh, q, r)
        PROVE  Progress(s, c, n, h', q, toKernel')
    <3>1. s \notin Down /\ Lives(s, c, n, hh, q, r)
      BY <2>1, <2>9 DEF Progress, Rests, Coming, Ends
    <3>2. Alive(r, n) /\ hh.run = n /\ ~Has(q, {"Start"})
      BY <3>1 DEF Lives
    <3>3. Over(toKernel', n)
      <4>1. x.run = n /\ x.what = "Stopped"
        BY <3>2
      <4> HIDE DEF x
      <4> QED
        BY <1>1, <2>2, <2>3, <3>2, <4>1, Told
    <3> QED
      BY <2>6, <3>1, <3>2, <3>3 DEF Progress, Ends
  <2> QED
    BY <2>4, <2>6, <2>7, <2>8, <2>9 DEF r
<1> QED
  BY <1>3, <1>4

\* A turn of the handler keeps the invariant, when what it turns to is right
\* before its end.
LEMMA HandlerKeeps ==
  ASSUME PInv, Unmoved, NEW hh, NEW reports \in Seq(TaskReport), EndTurn(hh, reports),
         Held(hh, child', run),
         toTask' \in Seq(TaskCommand), Begun(toTask', run),
         passed \subseteq passed', passed' \subseteq 1 .. run,
         Passed(toKernel \o reports, passed'),
         Thawing(frozen, hh.frozen, toTask'),
         ~gaveUp => Progress(g.state[self], check, run, hh, toTask', toKernel \o reports)
  PROVE  PInv'
<1>1. /\ check' = check /\ g' = g /\ frozen' = frozen /\ run' = run /\ gaveUp' = gaveUp
  BY DEF Unmoved
<1>2. run \in Nat /\ toKernel \in Seq(TaskReport) /\ GraphOf(g, frozen, check)
      /\ gaveUp \in BOOLEAN /\ ReadyOfThisRun
  BY DEF PInv, Channels
<1>3. /\ Held(h', child', run) /\ h'.frozen = hh.frozen
      /\ toKernel' \in Seq(TaskReport) /\ Passed(toKernel', passed')
      /\ ~gaveUp => Progress(g.state[self], check, run, h', toTask', toKernel')
  BY <1>2, TurnEnds
<1>4. Channels(toTask', toKernel', run', passed')
  BY <1>1, <1>2, <1>3 DEF Channels
<1>5. ReadyOfThisRun'
  BY <1>1, <1>2 DEF ReadyOfThisRun
<1>6. /\ GraphOf(g', frozen', check') /\ Held(h', child', run')
      /\ Thawing(frozen', h'.frozen, toTask') /\ gaveUp' \in BOOLEAN
  BY <1>1, <1>2, <1>3
<1>7. ~gaveUp' => Progress(g'.state[self], check', run', h', toTask', toKernel')
  BY <1>1, <1>3
<1> QED
  BY <1>4, <1>5, <1>6, <1>7 DEF PInv

\* What the invariant says of the parts a handler's turn reads.
LEMMA Parts ==
  ASSUME PInv
  PROVE  /\ run \in Nat /\ toTask \in Seq(TaskCommand) /\ toKernel \in Seq(TaskReport)
         /\ Begun(toTask, run) /\ Passed(toKernel, passed) /\ passed \subseteq 1 .. run
         /\ Held(h, child, run) /\ h \in Instance /\ child \in Children
         /\ Thawing(frozen, h.frozen, toTask)
         /\ ~gaveUp => Progress(g.state[self], check, run, h, toTask, toKernel)
         /\ toKernel \o <<>> = toKernel /\ <<>> \in Seq(TaskReport)
BY DEF PInv, Channels, Held

\* Taking a command that is not a start leaves a task as far as it was.
LEMMA OtherTaken ==
  ASSUME NEW s, NEW c, NEW n \in Nat, NEW hh, NEW q \in Seq(TaskCommand), NEW r,
         Progress(s, c, n, hh, q, r), q # <<>>, Head(q).cmd # "Start"
  PROVE  Progress(s, c, n, hh, Tail(q), r)
<1>1. /\ \A kinds : ~Has(q, kinds) => ~Has(Tail(q), kinds)
      /\ \A going : Due(q, n, going) => Due(Tail(q), n, going)
  BY Taken
<1> QED
  BY <1>1 DEF Progress, Rests, Coming, Lives, Unstopped, Ends

\* A stop comes only for a run that is told to stop.
LEMMA StopTaken ==
  ASSUME NEW s, NEW c, NEW n, NEW hh, NEW q \in Seq(TaskCommand), NEW r,
         Progress(s, c, n, hh, q, r), q # <<>>, Head(q).cmd \in {"Stop", "Kill"}
  PROVE  Lives(s, c, n, hh, q, r) => s \notin Up
<1>1. Has(q, {"Stop", "Kill"})
  BY TailFacts DEF Has
<1> QED
  BY <1>1 DEF Lives, Unstopped

\* A start is taken only when it is due.
LEMMA StartTaken ==
  ASSUME NEW s, NEW c, NEW n \in Nat, NEW hh, NEW q \in Seq(TaskCommand), NEW r,
         Progress(s, c, n, hh, q, r), q # <<>>, Head(q).cmd = "Start"
  PROVE  /\ ~hh.process /\ r = <<>> /\ s \in {"Starting", "Stopping"}
         /\ Head(q).run = n /\ ~Has(Tail(q), {"Start"})
         /\ s = "Starting" => ~Has(Tail(q), {"Stop", "Kill"})
<1>1. Has(q, {"Start"})
  BY TailFacts DEF Has
<1>2. Coming(s, n, hh, q, r)
  BY <1>1 DEF Progress, Rests, Lives, Ends
<1> QED
  BY <1>2, Taken DEF Coming

\* A start beside a process changes nothing.
LEMMA IgnoreStartKeeps == PInv /\ IgnoreStart => PInv'
<1> SUFFICES ASSUME PInv, IgnoreStart PROVE PInv'
  OBVIOUS
<1>1. /\ h.process /\ toTask # <<>> /\ Head(toTask).cmd = "Start" /\ toTask' = Tail(toTask)
      /\ UNCHANGED <<toKernel, h, child, passed>>
      /\ UNCHANGED <<check, g, frozen, run, gaveUp>>
  BY DEF IgnoreStart, Takes, Unmoved
<1>2. gaveUp
  BY <1>1, Parts, StartTaken
<1>3. toTask' \in Seq(TaskCommand) /\ Begun(toTask', run) /\ Thawing(frozen, h.frozen, toTask')
  BY <1>1, Parts, Taken, TailFacts
<1> QED
  BY <1>1, <1>2, <1>3 DEF PInv, Channels, ReadyOfThisRun

\* A start that is due makes the process of the run.
LEMMA StartInstanceKeeps == PInv /\ StartInstance => PInv'
<1> SUFFICES ASSUME PInv, StartInstance PROVE PInv'
  OBVIOUS
<1> DEFINE new == [NoInstance EXCEPT !.process = TRUE, !.run = Head(toTask).run,
                                     !.frozen = h.frozen]
           hh == [new EXCEPT !.probe = start_probe(new)]
           x == [what |-> "Started", run |-> Head(toTask).run]
<1>1. /\ ~h.process /\ toTask # <<>> /\ Head(toTask).cmd = "Start" /\ toTask' = Tail(toTask)
      /\ EndTurn(hh, <<x>>) /\ child' = [state |-> "running", exit |-> NoExit]
      /\ passed' = passed /\ Unmoved
  BY DEF StartInstance, Takes
<1>2. /\ toTask' \in Seq(TaskCommand) /\ Begun(toTask', run)
      /\ Thawing(frozen, h.frozen, toTask') /\ Head(toTask).run \in 1 .. run
  BY <1>1, Parts, Taken, TailFacts
<1>3. run \in Nat /\ Head(toTask).run \in Nat /\ h.frozen \in BOOLEAN
  BY <1>2, Parts DEF Instance
<1>4. /\ hh \in Instance /\ hh.process /\ hh.run = Head(toTask).run /\ hh.exits = NoExit
      /\ hh.exit = NoExit /\ ~hh.readySent /\ ~hh.stopSent /\ hh.frozen = h.frozen
      /\ check = "Probe" => hh.probe
  BY <1>3 DEF NoInstance, Instance, start_probe
<1>5. x \in TaskReport /\ x.what = "Started" /\ x.run = Head(toTask).run
  BY <1>3 DEF TaskReport
<1> HIDE DEF hh, x
<1>6. <<x>> \in Seq(TaskReport) /\ toKernel \o <<x>> = Append(toKernel, x)
  BY <1>5, Parts, Sent
<1>7. Held(hh, child', run)
  BY <1>1, <1>2, <1>4 DEF Held, Children
<1>8. Passed(toKernel \o <<x>>, passed')
  <2>1. toKernel \in Seq(TaskReport) /\ Passed(toKernel, passed) /\ x.what # "Ready"
    BY <1>5, Parts
  <2>2. Passed(Append(toKernel, x), passed)
    BY <1>5, <2>1, Told
  <2> QED
    BY <1>1, <1>6, <2>2
<1>9. ASSUME ~gaveUp
      PROVE  Progress(g.state[self], check, run, hh, toTask', toKernel \o <<x>>)
  <2> DEFINE s == g.state[self]
  <2>1. /\ toKernel = <<>> /\ s \in {"Starting", "Stopping"}
        /\ Head(toTask).run = run /\ ~Has(toTask', {"Start"})
        /\ s = "Starting" => ~Has(toTask', {"Stop", "Kill"})
    BY <1>1, <1>9, Parts, StartTaken
  <2> DEFINE r == toKernel \o <<x>>
  <2>2. r # <<>> /\ r[1] = x
    BY <1>5, <1>6, <2>1, Told, Parts
  <2>3. Alive(r, run)
    <3>1. Alive(toKernel, run) /\ toKernel \in Seq(TaskReport)
      BY <2>1, Parts DEF Alive
    <3>2. x.run = run /\ x.what # "Stopped"
      BY <1>5, <2>1
    <3>3. Alive(Append(toKernel, x), run)
      BY <1>5, <3>1, <3>2, Told
    <3> QED
      BY <1>6, <3>3
  <2>4. s = "Starting" => StartedFirst(r, TRUE)
    <3>1. StartedFirst(toKernel, TRUE) /\ toKernel \in Seq(TaskReport)
      BY <2>1, Parts DEF StartedFirst
    <3>2. StartedFirst(Append(toKernel, x), TRUE)
      BY <1>5, <2>1, <3>1, Told
    <3> QED
      BY <1>6, <3>2
  <2> HIDE DEF r
  <2>5. s \in Up => s = "Starting"
    BY <2>1 DEF Up
  <2>6. s \in Up => Unstopped(s, check, hh, toTask', r)
    BY <1>4, <2>1, <2>4, <2>5 DEF Unstopped
  <2>7. Lives(s, check, run, hh, toTask', r)
    BY <1>4, <1>5, <2>1, <2>2, <2>3, <2>6 DEF Lives
  <2>8. s \notin Down
    BY <2>1 DEF Down, Ended
  <2> QED
    BY <2>7, <2>8 DEF Progress, r
<1>10. passed \subseteq passed' /\ passed' \subseteq 1 .. run
  BY <1>1, Parts
<1> QED
  BY <1>1, <1>2, <1>4, <1>6, <1>7, <1>8, <1>9, <1>10, HandlerKeeps

\* A start that is due and fails ends the run.
LEMMA StartFailsKeeps == PInv /\ StartFails => PInv'
<1> SUFFICES ASSUME PInv, StartFails PROVE PInv'
  OBVIOUS
<1> DEFINE x == [what |-> "Stopped", run |-> Head(toTask).run, exit |-> "err"]
<1>1. /\ ~h.process /\ toTask # <<>> /\ Head(toTask).cmd = "Start" /\ toTask' = Tail(toTask)
      /\ EndTurn(h, <<x>>) /\ child' = child /\ passed' = passed /\ Unmoved
  BY DEF StartFails, Takes
<1>2. /\ toTask' \in Seq(TaskCommand) /\ Begun(toTask', run)
      /\ Thawing(frozen, h.frozen, toTask') /\ Head(toTask).run \in 1 .. run
  BY <1>1, Parts, Taken, TailFacts
<1>3. run \in Nat /\ Head(toTask).run \in Nat
  BY <1>2, Parts
<1>5. x \in TaskReport /\ x.what = "Stopped" /\ x.run = Head(toTask).run
  BY <1>3 DEF TaskReport, ExitInfo
<1> HIDE DEF x
<1>6. <<x>> \in Seq(TaskReport) /\ toKernel \o <<x>> = Append(toKernel, x)
  BY <1>5, Parts, Sent
<1>7. Held(h, child', run)
  BY <1>1, Parts
<1>8. Passed(toKernel \o <<x>>, passed')
  <2>1. toKernel \in Seq(TaskReport) /\ Passed(toKernel, passed) /\ x.what # "Ready"
    BY <1>5, Parts
  <2>2. Passed(Append(toKernel, x), passed)
    BY <1>5, <2>1, Told
  <2> QED
    BY <1>1, <1>6, <2>2
<1>9. ASSUME ~gaveUp
      PROVE  Progress(g.state[self], check, run, h, toTask', toKernel \o <<x>>)
  <2>1. /\ toKernel = <<>> /\ g.state[self] \in {"Starting", "Stopping"}
        /\ Head(toTask).run = run /\ ~Has(toTask', {"Start"})
    BY <1>1, <1>9, Parts, StartTaken
  <2>2. Alive(toKernel, run)
    BY <2>1 DEF Alive
  <2>3. Over(toKernel \o <<x>>, run)
    <3>1. toKernel \in Seq(TaskReport) /\ x.run = run
      BY <1>5, <2>1, Parts
    <3>2. Over(Append(toKernel, x), run)
      BY <1>5, <2>2, <3>1, Told
    <3> QED
      BY <1>6, <3>2
  <2>4. g.state[self] \notin Down
    BY <2>1 DEF Down, Ended
  <2> QED
    BY <1>1, <2>1, <2>3, <2>4 DEF Progress, Ends
<1>10. passed \subseteq passed' /\ passed' \subseteq 1 .. run
  BY <1>1, Parts
<1> QED
  BY <1>1, <1>2, <1>6, <1>7, <1>8, <1>9, <1>10, HandlerKeeps

\* A stop finds a run that is told to stop, or none.
LEMMA HandleStopKeeps == PInv /\ HandleStop => PInv'
<1> SUFFICES ASSUME PInv, HandleStop PROVE PInv'
  OBVIOUS
<1> DEFINE hh == [h EXCEPT !.probe = FALSE, !.stopSent = TRUE]
<1>1. /\ toTask # <<>> /\ Head(toTask).cmd \in {"Stop", "Kill"} /\ toTask' = Tail(toTask)
      /\ EndTurn(hh, <<>>) /\ child' = child /\ passed' = passed /\ Unmoved
  BY DEF HandleStop, Takes
<1>2. /\ toTask' \in Seq(TaskCommand) /\ Begun(toTask', run)
      /\ Thawing(frozen, h.frozen, toTask')
  BY <1>1, Parts, Taken, TailFacts
<1>3. /\ hh \in Instance /\ hh.process = h.process /\ hh.run = h.run /\ hh.exits = h.exits
      /\ hh.exit = h.exit /\ ~hh.probe /\ hh.frozen = h.frozen
  BY Parts DEF Instance
<1> HIDE DEF hh
<1>4. Held(hh, child', run)
  BY <1>1, <1>3, Parts DEF Held
<1>5. ASSUME ~gaveUp
      PROVE  Progress(g.state[self], check, run, hh, toTask', toKernel)
  <2>1. /\ Progress(g.state[self], check, run, h, toTask', toKernel)
        /\ Lives(g.state[self], check, run, h, toTask, toKernel) => g.state[self] \notin Up
    BY <1>1, <1>5, Parts, OtherTaken, StopTaken
  <2>2. h.process => g.state[self] \notin Up
    BY <1>5, <2>1, Parts DEF Progress, Rests, Coming, Ends, Up, Down, Ended
  <2> QED
    BY <1>3, <2>1, <2>2 DEF Progress, Rests, Coming, Lives, Ends
<1>6. passed \subseteq passed' /\ passed' \subseteq 1 .. run
  BY <1>1, Parts
<1> QED
  BY <1>1, <1>2, <1>3, <1>4, <1>5, <1>6, Parts, HandlerKeeps

\* A freeze cuts the check off, and takes an exit handed over.
LEMMA HandleFreezeKeeps == PInv /\ HandleFreeze => PInv'
<1> SUFFICES ASSUME PInv, HandleFreeze PROVE PInv'
  OBVIOUS
<1> DEFINE took == IF h.exits = NoExit THEN h ELSE exited(h)
           hh == [took EXCEPT !.frozen = TRUE, !.probe = FALSE]
<1>1. /\ toTask # <<>> /\ Head(toTask).cmd = "Freeze" /\ toTask' = Tail(toTask)
      /\ EndTurn(hh, <<>>) /\ child' = child /\ passed' = passed /\ Unmoved
  BY DEF HandleFreeze, Takes
<1>2. /\ toTask' \in Seq(TaskCommand) /\ Begun(toTask', run)
      /\ Thawing(frozen, TRUE, toTask')
  BY <1>1, Parts, Taken, TailFacts
<1>3. /\ hh \in Instance /\ hh.process = h.process /\ hh.run = h.run /\ hh.exits = NoExit
      /\ hh.exit = (IF h.exits = NoExit THEN h.exit ELSE h.exits)
      /\ hh.readySent = h.readySent /\ hh.stopSent = h.stopSent
      /\ ~hh.probe /\ hh.frozen = TRUE
  BY Parts DEF Instance, exited
<1> HIDE DEF hh
<1>4. Held(hh, child', run)
  BY <1>1, <1>3, Parts DEF Held
<1>5. ASSUME ~gaveUp
      PROVE  Progress(g.state[self], check, run, hh, toTask', toKernel)
  <2>1. Progress(g.state[self], check, run, h, toTask', toKernel)
    BY <1>1, <1>5, Parts, OtherTaken
  <2> QED
    BY <1>3, <2>1 DEF Progress, Rests, Coming, Lives, Unstopped, Ends
<1>6. passed \subseteq passed' /\ passed' \subseteq 1 .. run
  BY <1>1, Parts
<1>7. Thawing(frozen, hh.frozen, toTask')
  BY <1>2, <1>3
<1> QED
  BY <1>1, <1>2, <1>4, <1>5, <1>6, <1>7, Parts, HandlerKeeps

\* A thaw takes the check up again.
LEMMA HandleThawKeeps == PInv /\ HandleThaw => PInv'
<1> SUFFICES ASSUME PInv, HandleThaw PROVE PInv'
  OBVIOUS
<1> DEFINE hh == [h EXCEPT !.frozen = FALSE,
                           !.probe = IF h.process THEN start_probe(h) ELSE @]
<1>1. /\ toTask # <<>> /\ Head(toTask).cmd = "Thaw" /\ toTask' = Tail(toTask)
      /\ EndTurn(hh, <<>>) /\ child' = child /\ passed' = passed /\ Unmoved
  BY DEF HandleThaw, Takes
<1>2. /\ toTask' \in Seq(TaskCommand) /\ Begun(toTask', run)
      /\ Thawing(frozen, FALSE, toTask')
  BY <1>1, Parts, Taken, TailFacts
<1>3. /\ hh \in Instance /\ hh.process = h.process /\ hh.run = h.run /\ hh.exits = h.exits
      /\ hh.exit = h.exit /\ hh.readySent = h.readySent /\ hh.stopSent = h.stopSent
      /\ hh.frozen = FALSE
      /\ hh.probe = (IF h.process THEN start_probe(h) ELSE h.probe)
  BY Parts DEF Instance, start_probe
<1> HIDE DEF hh
<1>4. Held(hh, child', run)
  BY <1>1, <1>3, Parts DEF Held, start_probe
<1>5. ASSUME ~gaveUp
      PROVE  Progress(g.state[self], check, run, hh, toTask', toKernel)
  <2>1. Progress(g.state[self], check, run, h, toTask', toKernel)
    BY <1>1, <1>5, Parts, OtherTaken
  <2> QED
    BY <1>3, <2>1 DEF Progress, Rests, Coming, Lives, Unstopped, Ends, start_probe
<1>6. passed \subseteq passed' /\ passed' \subseteq 1 .. run
  BY <1>1, Parts
<1>7. Thawing(frozen, hh.frozen, toTask')
  BY <1>2, <1>3
<1> QED
  BY <1>1, <1>2, <1>4, <1>5, <1>6, <1>7, Parts, HandlerKeeps

\* The exit is taken: the check is cut off.
LEMMA HandleExitedKeeps == PInv /\ HandleExited => PInv'
<1> SUFFICES ASSUME PInv, HandleExited PROVE PInv'
  OBVIOUS
<1> DEFINE hh == [exited(h) EXCEPT !.probe = FALSE]
<1>1. /\ h.exits # NoExit /\ toTask' = toTask
      /\ EndTurn(hh, <<>>) /\ child' = child /\ passed' = passed /\ Unmoved
  BY DEF HandleExited
<1>2. /\ toTask' \in Seq(TaskCommand) /\ Begun(toTask', run)
  BY <1>1, Parts
<1>3. /\ hh \in Instance /\ hh.process = h.process /\ hh.run = h.run /\ hh.exits = NoExit
      /\ hh.exit = h.exits /\ hh.readySent = h.readySent /\ hh.stopSent = h.stopSent
      /\ ~hh.probe /\ hh.frozen = h.frozen
  BY Parts DEF Instance, exited
<1> HIDE DEF hh
<1>4. Held(hh, child', run)
  BY <1>1, <1>3, Parts DEF Held
<1>5. ASSUME ~gaveUp
      PROVE  Progress(g.state[self], check, run, hh, toTask', toKernel)
  <2>1. Progress(g.state[self], check, run, h, toTask', toKernel)
    BY <1>1, <1>5, Parts
  <2> QED
    BY <1>1, <1>3, <2>1 DEF Progress, Rests, Coming, Lives, Unstopped, Ends
<1>6. passed \subseteq passed' /\ passed' \subseteq 1 .. run
  BY <1>1, Parts
<1>7. Thawing(frozen, hh.frozen, toTask')
  BY <1>1, <1>3, Parts
<1> QED
  BY <1>1, <1>2, <1>4, <1>5, <1>6, <1>7, Parts, HandlerKeeps

\* The check passes, once a run, and the run is noted.
LEMMA ReadyKeeps ==
  ASSUME PInv, BecomesReady(h), h.process, ~h.readySent, toTask' = toTask, child' = child,
         Unmoved
  PROVE  PInv'
<1> DEFINE hh == [h EXCEPT !.probe = FALSE, !.readySent = TRUE]
           x == [what |-> "Ready", run |-> h.run]
<1>1. EndTurn(hh, <<x>>) /\ passed' = passed \cup {h.run}
  BY DEF BecomesReady
<1>2. h.run \in 1 .. run /\ h.run \in Nat /\ run \in Nat
  BY Parts DEF Held, Instance
<1>3. /\ hh \in Instance /\ hh.process = h.process /\ hh.run = h.run /\ hh.exits = h.exits
      /\ hh.exit = h.exit /\ hh.readySent /\ hh.stopSent = h.stopSent
      /\ ~hh.probe /\ hh.frozen = h.frozen
  BY Parts DEF Instance
<1>4. x \in TaskReport /\ x.what = "Ready" /\ x.run = h.run
  BY <1>2 DEF TaskReport
<1> HIDE DEF hh, x
<1>5. /\ <<x>> \in Seq(TaskReport) /\ toKernel \o <<x>> = Append(toKernel, x)
      /\ toKernel \in Seq(TaskReport)
  BY <1>4, Parts, Sent
<1>6. Held(hh, child', run)
  BY <1>3, Parts DEF Held
<1>7. Passed(toKernel \o <<x>>, passed')
  <2>1. Passed(toKernel, passed') /\ x.run \in passed'
    BY <1>1, <1>4, Parts DEF Passed
  <2>2. Passed(Append(toKernel, x), passed')
    BY <1>4, <1>5, <2>1, Told
  <2> QED
    BY <1>5, <2>2
<1>8. ASSUME ~gaveUp
      PROVE  Progress(g.state[self], check, run, hh, toTask', toKernel \o <<x>>)
  <2> DEFINE s == g.state[self]
             r == toKernel \o <<x>>
  <2>1. s \notin Down /\ Lives(s, check, run, h, toTask, toKernel)
    BY <1>8, Parts DEF Progress, Rests, Coming, Ends
  <2>2. Alive(r, run)
    <3>1. Alive(toKernel, run) /\ x.run = run /\ x.what # "Stopped"
      BY <1>4, <2>1 DEF Lives
    <3>2. Alive(Append(toKernel, x), run)
      BY <1>4, <1>5, <3>1, Told
    <3> QED
      BY <1>5, <3>2
  <2>3. HasReady(r)
    BY <1>4, <1>5, Told
  <2>4. \A st : StartedFirst(toKernel, st) => StartedFirst(r, st)
    <3>1. x.what # "Started"
      BY <1>4
    <3>2. \A st : StartedFirst(toKernel, st) => StartedFirst(Append(toKernel, x), st)
      BY <1>4, <1>5, <3>1, Told
    <3> QED
      BY <1>5, <3>2
  <2>5. toKernel # <<>> => r # <<>> /\ r[1] = toKernel[1]
    <3>1. Append(toKernel, x) # <<>> /\ (toKernel # <<>> => Append(toKernel, x)[1] = toKernel[1])
      BY <1>4, <1>5, Told
    <3> QED
      BY <1>5, <3>1
  <2> HIDE DEF r, s
  <2>6. s \in Up => Unstopped(s, check, hh, toTask', r)
    BY <1>3, <2>1, <2>3, <2>4 DEF Lives, Unstopped
  <2>7. Lives(s, check, run, hh, toTask', r)
    BY <1>3, <2>1, <2>2, <2>5, <2>6 DEF Lives
  <2> QED
    BY <2>1, <2>7 DEF Progress, r, s
<1>9. passed \subseteq passed' /\ passed' \subseteq 1 .. run
  BY <1>1, <1>2, Parts
<1>10. /\ toTask' \in Seq(TaskCommand) /\ Begun(toTask', run)
       /\ Thawing(frozen, hh.frozen, toTask')
  BY <1>3, Parts
<1> QED
  BY <1>1, <1>5, <1>6, <1>7, <1>8, <1>9, <1>10, HandlerKeeps

\* A check that waited on its own passes.
LEMMA ProbeReadyKeeps == PInv /\ ProbeReady => PInv'
<1> SUFFICES ASSUME PInv, ProbeReady PROVE PInv'
  OBVIOUS
<1>1. h.probe /\ BecomesReady(h) /\ toTask' = toTask /\ child' = child /\ Unmoved
  BY DEF ProbeReady
<1>2. h.process /\ ~h.readySent
  BY <1>1, Parts DEF Held
<1> QED
  BY <1>1, <1>2, ReadyKeeps

\* A check that reads the output passes.
LEMMA ReadReadyKeeps == PInv /\ ReadReady => PInv'
BY ReadyKeeps DEF ReadReady, Reads

\* The end of the output.
LEMMA ReadEndKeeps == PInv /\ ReadEnd => PInv'
<1> SUFFICES ASSUME PInv, ReadEnd PROVE PInv'
  OBVIOUS
<1> DEFINE hh == [h EXCEPT !.eof = TRUE]
<1>1. /\ toTask' = toTask
      /\ EndTurn(hh, <<>>) /\ child' = child /\ passed' = passed /\ Unmoved
  BY DEF ReadEnd
<1>3. /\ hh \in Instance /\ hh.process = h.process /\ hh.run = h.run /\ hh.exits = h.exits
      /\ hh.exit = h.exit /\ hh.readySent = h.readySent /\ hh.stopSent = h.stopSent
      /\ hh.probe = h.probe /\ hh.frozen = h.frozen
  BY Parts DEF Instance
<1> HIDE DEF hh
<1>4. Held(hh, child', run)
  BY <1>1, <1>3, Parts DEF Held
<1>5. ASSUME ~gaveUp
      PROVE  Progress(g.state[self], check, run, hh, toTask', toKernel)
  <2>1. Progress(g.state[self], check, run, h, toTask', toKernel)
    BY <1>1, <1>5, Parts
  <2> QED
    BY <1>3, <2>1 DEF Progress, Rests, Coming, Lives, Unstopped, Ends
<1>6. passed \subseteq passed' /\ passed' \subseteq 1 .. run
  BY <1>1, Parts
<1>7. /\ toTask' \in Seq(TaskCommand) /\ Begun(toTask', run)
      /\ Thawing(frozen, hh.frozen, toTask')
  BY <1>1, <1>3, Parts
<1> QED
  BY <1>1, <1>4, <1>5, <1>6, <1>7, Parts, HandlerKeeps

\* What is outside keeps the invariant, when it keeps what the handler holds.
LEMMA OutsideKeeps ==
  ASSUME PInv, Unmoved, toTask' = toTask, toKernel' = toKernel, passed' = passed,
         Held(h', child', run), h'.process = h.process, h'.run = h.run, h'.exit = h.exit,
         h'.readySent = h.readySent, h'.stopSent = h.stopSent, h'.probe = h.probe,
         h'.frozen = h.frozen
  PROVE  PInv'
<1>1. /\ check' = check /\ g' = g /\ frozen' = frozen /\ run' = run /\ gaveUp' = gaveUp
  BY DEF Unmoved
<1>2. ~gaveUp => Progress(g.state[self], check, run, h', toTask, toKernel)
  <2>1. SUFFICES ASSUME ~gaveUp, Progress(g.state[self], check, run, h, toTask, toKernel)
                 PROVE  Progress(g.state[self], check, run, h', toTask, toKernel)
    BY Parts
  <2> QED
    BY <2>1 DEF Progress, Rests, Coming, Lives, Unstopped, Ends
<1> QED
  BY <1>1, <1>2 DEF PInv, Channels, ReadyOfThisRun

\* A child may exit at any time.
LEMMA ChildExitsKeeps == PInv /\ ChildExits => PInv'
<1> SUFFICES ASSUME PInv, ChildExits PROVE PInv'
  OBVIOUS
<1>1. PICK exit \in {"ok", "err"} : child' = [state |-> "zombie", exit |-> exit]
  BY DEF ChildExits
<1>2. /\ child.state = "running" /\ UNCHANGED <<toTask, toKernel, h, passed>> /\ Unmoved
  BY DEF ChildExits
<1>3. child' \in Children /\ child'.state = "zombie" /\ child'.exit # NoExit
  BY <1>1 DEF Children, ExitInfo, NoExit
<1>4. Held(h', child', run)
  BY <1>2, <1>3, Parts DEF Held
<1> QED
  BY <1>2, <1>4, OutsideKeeps

\* The reaper hands the exit over.
LEMMA ReapKeeps == PInv /\ Reap => PInv'
<1> SUFFICES ASSUME PInv, Reap PROVE PInv'
  OBVIOUS
<1>1. /\ child.state = "zombie" /\ h' = [h EXCEPT !.exits = child.exit] /\ child' = NoChild
      /\ UNCHANGED <<toTask, toKernel, passed>> /\ Unmoved
  BY DEF Reap
<1>2. child.exit \in ExitInfo \cup {NoExit}
  BY Parts DEF Children
<1>3. /\ h' \in Instance /\ h'.exits = child.exit
      /\ h'.process = h.process /\ h'.run = h.run /\ h'.exit = h.exit
      /\ h'.readySent = h.readySent /\ h'.stopSent = h.stopSent /\ h'.probe = h.probe
      /\ h'.frozen = h.frozen
  BY <1>1, <1>2, Parts DEF Instance
<1>4. child' \in Children /\ child'.state = "none"
  BY <1>1 DEF NoChild, Children
<1>5. Held(h', child', run)
  BY <1>1, <1>3, <1>4, Parts DEF Held
<1> QED
  BY <1>1, <1>3, <1>5, OutsideKeeps

-----------------------------------------------------------------------------
(* The steps of the kernel *)

ThawCmd == [cmd |-> "Thaw"]

\* Command: a start exactly when the task goes to Starting, else a stop or a
\* kill of a task that ends up being stopped, or nothing.
LEMMA CommandIs ==
  ASSUME NEW from, NEW to, NEW killing
  PROVE  LET sent == Command(from, to, killing) IN
         IF to.state[self] = "Starting" /\ from.state[self] # "Starting"
         THEN sent = <<[cmd |-> "Start", run |-> run + 1]>>
         ELSE \/ sent = <<>>
              \/ /\ sent \in {<<[cmd |-> "Stop"]>>, <<[cmd |-> "Kill"]>>}
                 /\ to.state[self] = "Stopping"
BY DEF Command

\* What a move of the graph does to the commands under way.
LEMMA Moving ==
  ASSUME NEW to, NEW first, NEW killing, Moves(to, first, killing), PInv,
         first \in {<<>>, <<ThawCmd>>}
  PROVE  /\ g' = to /\ toTask' \in Seq(TaskCommand) /\ run' \in {run, run + 1}
         /\ Begun(toTask', run')
         /\ \A fz, hf : Thawing(fz, hf, toTask) => Thawing(fz, hf, toTask')
         /\ first = <<ThawCmd>> => \A fz, hf : Thawing(fz, hf, toTask')
         /\ IF to.state[self] = "Starting" /\ g.state[self] # "Starting"
            THEN /\ run' = run + 1
                 /\ ~Has(toTask, {"Start"}) => Due(toTask', run', TRUE)
            ELSE /\ run' = run
                 /\ ~Has(toTask, {"Start"}) => ~Has(toTask', {"Start"})
                 /\ \A going : /\ Due(toTask, run, going)
                               /\ going => to.state[self] # "Stopping"
                               => Due(toTask', run, going)
                 /\ /\ to.state[self] # "Stopping"
                    /\ ~Has(toTask, {"Stop", "Kill"})
                    => ~Has(toTask', {"Stop", "Kill"})
<1> DEFINE sent == Command(g, to, killing)
           q == toTask \o first
           starts == to.state[self] = "Starting" /\ g.state[self] # "Starting"
<1>1. /\ g' = to /\ toTask' = q \o sent
      /\ run' = IF sent # <<>> /\ sent[1].cmd = "Start" THEN run + 1 ELSE run
  BY DEF Moves
<1>2. run \in Nat /\ run + 1 \in Nat /\ toTask \in Seq(TaskCommand) /\ Begun(toTask, run)
  BY Parts
<1>3. ThawCmd \in TaskCommand /\ ThawCmd.cmd = "Thaw"
  BY DEF ThawCmd, TaskCommand
<1>4. /\ q \in Seq(TaskCommand) /\ Begun(q, run)
      /\ \A kinds : ~Has(toTask, kinds) /\ "Thaw" \notin kinds => ~Has(q, kinds)
      /\ \A going : Due(toTask, run, going) => Due(q, run, going)
      /\ \A fz, hf : Thawing(fz, hf, toTask) => Thawing(fz, hf, q)
      /\ first = <<ThawCmd>> => \A fz, hf : Thawing(fz, hf, q)
  <2>1. CASE first = <<>>
    <3>1. q = toTask /\ first # <<ThawCmd>>
      BY <1>2, <2>1, Sent
    <3> QED
      BY <1>2, <3>1
  <2>2. CASE first = <<ThawCmd>>
    <3>1. q = Append(toTask, ThawCmd)
      BY <1>2, <1>3, <2>2, Sent
    <3>2. Append(toTask, ThawCmd) \in Seq(TaskCommand)
      BY <1>2, <1>3, AppendFacts
    <3> HIDE DEF ThawCmd
    <3> QED
      BY <1>2, <1>3, <2>2, <3>1, <3>2, Added
  <2> QED
    BY <2>1, <2>2
<1> HIDE DEF q
<1>5. CASE starts
  <2> DEFINE x == [cmd |-> "Start", run |-> run + 1]
  <2>1. sent = <<x>> /\ x.cmd = "Start" /\ x.run = run + 1 /\ x \in TaskCommand
    BY <1>2, <1>5, CommandIs DEF TaskCommand
  <2> HIDE DEF x, sent
  <2>2. toTask' = Append(q, x) /\ run' = run + 1
    BY <1>1, <1>4, <2>1, Sent
  <2>3. toTask' \in Seq(TaskCommand)
    BY <1>4, <2>1, <2>2, AppendFacts
  <2>4. Begun(toTask', run')
    <3>1. Begun(q, run + 1) /\ x.run \in 1 .. (run + 1)
      BY <1>2, <1>4, <2>1 DEF Begun
    <3> QED
      BY <1>2, <1>4, <2>1, <2>2, <3>1, Added
  <2>5. ~Has(q, {"Start"}) => Due(toTask', run', TRUE)
    BY <1>2, <1>4, <2>1, <2>2, Added
  <2>6. \A fz, hf : Thawing(fz, hf, q) => Thawing(fz, hf, toTask')
    BY <1>2, <1>4, <2>1, <2>2, Added
  <2> QED
    BY <1>1, <1>4, <1>5, <2>2, <2>3, <2>4, <2>5, <2>6
<1>6. CASE ~starts /\ sent = <<>>
  <2>1. toTask' = q /\ run' = run
    BY <1>1, <1>4, <1>6, Sent
  <2> QED
    BY <1>1, <1>4, <1>6, <2>1
<1>7. CASE ~starts /\ sent # <<>>
  <2>1. PICK x \in {[cmd |-> "Stop"], [cmd |-> "Kill"]} : sent = <<x>>
    BY <1>7, CommandIs
  <2>2. x.cmd \in {"Stop", "Kill"} /\ x \in TaskCommand /\ to.state[self] = "Stopping"
    BY <1>7, CommandIs DEF TaskCommand
  <2> HIDE DEF sent
  <2>3. toTask' = Append(q, x) /\ run' = run
    BY <1>1, <1>4, <2>1, <2>2, Sent
  <2>4. toTask' \in Seq(TaskCommand)
    BY <1>4, <2>2, <2>3, AppendFacts
  <2>5. Begun(toTask', run') /\ (~Has(q, {"Start"}) => ~Has(toTask', {"Start"}))
    BY <1>2, <1>4, <2>2, <2>3, Added
  <2>6. \A fz, hf : Thawing(fz, hf, q) => Thawing(fz, hf, toTask')
    BY <1>2, <1>4, <2>2, <2>3, Added
  <2>7. \A going : Due(q, run, going) /\ ~going => Due(toTask', run, going)
    BY <1>2, <1>4, <2>2, <2>3, Added
  <2> QED
    BY <1>1, <1>4, <1>7, <2>2, <2>3, <2>4, <2>5, <2>6, <2>7
<1> QED
  BY <1>5, <1>6, <1>7

\* Where a verb or a timer takes the state, and the settle after it.
Reached(s, s2) ==
  \/ s2 = s
  \/ s \in Down /\ s2 \in Down \cup {"Starting"}
  \/ s \in Up /\ s2 = "Stopping"

\* A turn and the settle.
LEMMA TurnSettled ==
  ASSUME NEW gr, NEW k, NEW m, Turned(gr, k), Driven(k, m)
  PROVE  Keeps(gr, m) /\ Reached(gr.state[self], m.state[self])
<1>1. Keeps(gr, m)
  BY KeepsTwice DEF Turned, Driven
<1> QED
  BY <1>1 DEF Turned, Driven, Reached, Down, Ended, Up

\* Verbs, timers and a thaw: the run goes on, is told to stop, or the next one
\* is due.
LEMMA VerbProgress ==
  ASSUME PInv, NEW to, NEW first, NEW killing, Moves(to, first, killing),
         first \in {<<>>, <<ThawCmd>>}, Lone(to),
         Reached(g.state[self], to.state[self]), ~gaveUp
  PROVE  Progress(to.state[self], check, run', h, toTask', toKernel)
<1> DEFINE s == g.state[self]
           s2 == to.state[self]
<1>1. Progress(s, check, run, h, toTask, toKernel) /\ s \in TaskState
  BY Parts, StateAt DEF PInv, GraphOf
<1>2. IF s2 = "Starting" /\ s # "Starting"
      THEN /\ run' = run + 1
           /\ ~Has(toTask, {"Start"}) => Due(toTask', run', TRUE)
      ELSE /\ run' = run
           /\ ~Has(toTask, {"Start"}) => ~Has(toTask', {"Start"})
           /\ \A going : /\ Due(toTask, run, going)
                         /\ going => s2 # "Stopping"
                         => Due(toTask', run, going)
           /\ /\ s2 # "Stopping"
              /\ ~Has(toTask, {"Stop", "Kill"})
              => ~Has(toTask', {"Stop", "Kill"})
  BY Moving
<1>3. Reached(s, s2)
  OBVIOUS
<1> HIDE DEF s, s2
<1>4. CASE s \in Down
  <2>1. Rests(h, toTask, toKernel)
    BY <1>1, <1>4 DEF Progress
  <2>2. s # "Starting" /\ s \notin Up
    BY <1>4 DEF Down, Ended, Up
  <2>3. CASE s2 \in Down
    <3>1. s2 # "Starting"
      BY <2>3 DEF Down, Ended
    <3> QED
      BY <1>2, <2>1, <2>3, <3>1 DEF Progress, Rests, s2
  <2>4. CASE s2 = "Starting"
    <3>1. Coming(s2, run', h, toTask', toKernel)
      BY <1>2, <2>1, <2>2, <2>4 DEF Rests, Coming
    <3>2. s2 \notin Down
      BY <2>4 DEF Down, Ended
    <3> QED
      BY <3>1, <3>2 DEF Progress, s2
  <2> QED
    BY <1>3, <1>4, <2>2, <2>3, <2>4 DEF Reached
<1>5. CASE s \notin Down
  <2>1. s2 \notin Down /\ ~(s2 = "Starting" /\ s # "Starting")
        /\ (s2 = s \/ (s \in Up /\ s2 = "Stopping"))
    BY <1>3, <1>5 DEF Reached, Down, Ended
  <2>2. CASE Coming(s, run, h, toTask, toKernel)
    <3>1. Due(toTask, run, FALSE)
      BY <2>2, DueAnyway DEF Coming
    <3>2. s2 = "Starting" => Due(toTask', run, TRUE)
      BY <1>2, <2>1, <2>2 DEF Coming
    <3>3. s2 # "Starting" => Due(toTask', run, FALSE)
      BY <1>2, <2>1, <3>1
    <3>4. Coming(s2, run', h, toTask', toKernel)
      BY <1>2, <2>1, <2>2, <3>2, <3>3 DEF Coming
    <3> QED
      BY <2>1, <3>4 DEF Progress, s2
  <2>3. CASE Lives(s, check, run, h, toTask, toKernel)
    <3>1. s2 \in Up => s2 = s /\ s2 # "Stopping"
      BY <2>1 DEF Up
    <3>2. s2 \in Up => Unstopped(s2, check, h, toTask', toKernel)
      BY <1>2, <2>1, <2>3, <3>1 DEF Lives, Unstopped
    <3>3. s2 = "Starting" => s = "Starting"
      BY <2>1
    <3>4. Lives(s2, check, run', h, toTask', toKernel)
      BY <1>2, <2>1, <2>3, <3>2, <3>3 DEF Lives
    <3> QED
      BY <2>1, <3>4 DEF Progress, s2
  <2>4. CASE Ends(run, h, toTask, toKernel)
    <3>1. Ends(run', h, toTask', toKernel)
      BY <1>2, <2>1, <2>4 DEF Ends
    <3> QED
      BY <2>1, <3>1 DEF Progress, s2
  <2> QED
    BY <1>1, <1>5, <2>2, <2>3, <2>4 DEF Progress
<1> QED
  BY <1>4, <1>5

\* The parts of the invariant that any move of the graph keeps.
LEMMA MoveKeeps ==
  ASSUME PInv, NEW to, NEW first, NEW killing, Moves(to, first, killing),
         first \in {<<>>, <<ThawCmd>>}, Keeps(g, to), frozen' \/ to.dirty = {},
         check' = check, h' = h, child' = child, passed' = passed, gaveUp' \in BOOLEAN,
         toKernel' \in Seq(TaskReport), Passed(toKernel', passed),
         \/ frozen' = frozen
         \/ first = <<ThawCmd>>,
         ~gaveUp' => Progress(to.state[self], check, run', h, toTask', toKernel'),
         ReadyOfThisRun'
  PROVE  PInv'
<1>1. /\ g' = to /\ toTask' \in Seq(TaskCommand) /\ run' \in {run, run + 1}
      /\ Begun(toTask', run')
      /\ \A fz, hf : Thawing(fz, hf, toTask) => Thawing(fz, hf, toTask')
      /\ first = <<ThawCmd>> => \A fz, hf : Thawing(fz, hf, toTask')
  BY Moving
<1>2. run \in Nat /\ passed \subseteq 1 .. run /\ Held(h, child, run)
      /\ Thawing(frozen, h.frozen, toTask)
  BY Parts
<1>3. run' \in Nat /\ 1 .. run \subseteq 1 .. run'
  BY <1>1, <1>2
<1>4. Channels(toTask', toKernel', run', passed')
  BY <1>1, <1>2, <1>3 DEF Channels
<1>5. Held(h', child', run')
  BY <1>2, <1>3 DEF Held
<1>6. Thawing(frozen', h'.frozen, toTask')
  BY <1>1, <1>2
<1>7. GraphOf(g', frozen', check')
  BY <1>1 DEF PInv, GraphOf, Keeps
<1>8. ~gaveUp' => Progress(g'.state[self], check', run', h', toTask', toKernel')
  BY <1>1
<1> QED
  BY <1>4, <1>5, <1>6, <1>7, <1>8 DEF PInv

\* Verbs, timers and a thaw take no task to Ready.
LEMMA VerbKeeps ==
  ASSUME PInv, NEW to, NEW first, NEW killing, Moves(to, first, killing),
         first \in {<<>>, <<ThawCmd>>}, Keeps(g, to), frozen' \/ to.dirty = {},
         ~gaveUp' => Reached(g.state[self], to.state[self]),
         check' = check, h' = h, child' = child, passed' = passed, toKernel' = toKernel,
         gaveUp' \in BOOLEAN, ~gaveUp' => ~gaveUp,
         \/ frozen' = frozen
         \/ first = <<ThawCmd>>
  PROVE  PInv'
<1>1. toKernel' \in Seq(TaskReport) /\ Passed(toKernel', passed)
  BY Parts
<1>2. ~gaveUp' => Progress(to.state[self], check, run', h, toTask', toKernel')
  BY VerbProgress DEF Keeps
<1>3. ReadyOfThisRun'
  <2>1. SUFFICES ASSUME to.state[self] = "Ready", check # "None", ~gaveUp'
                 PROVE  run' \in passed
    BY Moving DEF ReadyOfThisRun
  <2>2. g.state[self] = "Ready"
    BY <2>1 DEF Reached, Down, Ended
  <2>3. run' = run
    BY <2>1, Moving
  <2> QED
    BY <2>1, <2>2, <2>3 DEF PInv, ReadyOfThisRun
<1> QED
  BY <1>1, <1>2, <1>3, MoveKeeps

\* A turn on a message: a settle follows unless the kernel is frozen.
LEMMA DispatchedIs ==
  ASSUME NEW k, NEW killing, Dispatched(k, killing), Lone(k)
  PROVE  \E to : /\ Moves(to, <<>>, killing) /\ Driven(k, to)
                 /\ frozen \/ to.dirty = {}
                 /\ to = k \/ to = Settle(k)
<1>1. Driven(k, k)
  BY DEF Driven, Keeps
<1>2. Driven(k, Settle(k)) /\ Settle(k).dirty = {}
  BY SettleLone
<1> QED
  BY <1>1, <1>2 DEF Dispatched

\* Every verb keeps the invariant.
LEMMA UserVerbKeeps == \A verb \in VerbSet : PInv /\ UserVerb(verb) => PInv'
<1> SUFFICES ASSUME PInv, NEW verb \in VerbSet, UserVerb(verb) PROVE PInv'
  OBVIOUS
<1> DEFINE killing == verb \in {"Kill", "ForceRestart"}
           k == Act(verb, g, self)
<1>1. /\ Dispatched(k, killing)
      /\ UNCHANGED <<check, frozen, toKernel, h, child, passed, gaveUp>>
  BY DEF UserVerb
<1>2. Lone(g) /\ gaveUp \in BOOLEAN
  BY DEF PInv, GraphOf
<1>3. Turned(g, k)
  BY <1>2, ProcessAssumption, ActLone
<1>4. Lone(k)
  BY <1>3 DEF Turned, Keeps
<1> HIDE DEF k, killing
<1>5. PICK to : Moves(to, <<>>, killing) /\ Driven(k, to) /\ (frozen \/ to.dirty = {})
  BY <1>1, <1>4, DispatchedIs
<1>6. Keeps(g, to) /\ Reached(g.state[self], to.state[self])
  BY <1>3, <1>5, TurnSettled
<1> QED
  BY <1>1, <1>2, <1>5, <1>6, VerbKeeps

\* A timer keeps it: a stop is given up on only in behaviours it then exempts.
LEMMA TimeoutStepKeeps == PInv /\ Timeout => PInv'
<1> SUFFICES ASSUME PInv, Timeout PROVE PInv'
  OBVIOUS
<1> DEFINE k == OnStateTimeout(g, self)
           out == g.state[self] = "Stopping" /\ self \in g.killed
<1>1. /\ Dispatched(k, FALSE) /\ gaveUp' = (gaveUp \/ out)
      /\ UNCHANGED <<check, frozen, toKernel, h, child, passed>>
  BY DEF Timeout
<1>2. Lone(g) /\ gaveUp \in BOOLEAN
  BY DEF PInv, GraphOf
<1>3. Keeps(g, k) /\ (~out => Turned(g, k))
  BY <1>2, TimeoutLone
<1>4. Lone(k)
  BY <1>3 DEF Keeps
<1> HIDE DEF k
<1>5. PICK to : Moves(to, <<>>, FALSE) /\ Driven(k, to) /\ (frozen \/ to.dirty = {})
  BY <1>1, <1>4, DispatchedIs
<1>6. Keeps(g, to)
  BY <1>3, <1>5, KeepsTwice DEF Driven
<1>7. ~gaveUp' => Reached(g.state[self], to.state[self]) /\ ~gaveUp
  BY <1>1, <1>3, <1>5, TurnSettled
<1>8. gaveUp' \in BOOLEAN
  BY <1>1, <1>2
<1> QED
  BY <1>1, <1>5, <1>6, <1>7, <1>8, VerbKeeps

\* A thaw settles what the kernel learnt while frozen.
LEMMA ThawKeeps == PInv /\ Thaw => PInv'
<1> SUFFICES ASSUME PInv, Thaw PROVE PInv'
  OBVIOUS
<1>1. /\ Moves(Settle(g), <<ThawCmd>>, FALSE)
      /\ UNCHANGED <<check, toKernel, h, child, passed, gaveUp>>
  BY DEF Thaw, ThawCmd
<1>2. Lone(g) /\ gaveUp \in BOOLEAN
  BY DEF PInv, GraphOf
<1>3. Driven(g, Settle(g)) /\ Settle(g).dirty = {}
  BY <1>2, SettleLone
<1>4. Keeps(g, Settle(g)) /\ Reached(g.state[self], Settle(g).state[self])
  BY <1>2, <1>3, TurnSettled, AlikeTurned, AlikeSelf
<1> HIDE DEF ThawCmd
<1> QED
  BY <1>1, <1>2, <1>3, <1>4, VerbKeeps

\* A freeze is told to the handler and nothing else.
LEMMA FreezeKeeps == PInv /\ Freeze => PInv'
<1> SUFFICES ASSUME PInv, Freeze PROVE PInv'
  OBVIOUS
<1> DEFINE x == [cmd |-> "Freeze"]
<1>1. /\ frozen' = TRUE /\ toTask' = Append(toTask, x)
      /\ UNCHANGED <<check, g, toKernel, h, child, run, passed, gaveUp>>
  BY DEF Freeze
<1>2. x \in TaskCommand /\ x.cmd = "Freeze"
  BY DEF TaskCommand
<1> HIDE DEF x
<1>3. run \in Nat /\ toTask \in Seq(TaskCommand) /\ Begun(toTask, run)
  BY Parts
<1>4. /\ toTask' \in Seq(TaskCommand) /\ Begun(toTask', run)
      /\ \A kinds : ~Has(toTask, kinds) /\ "Freeze" \notin kinds => ~Has(toTask', kinds)
      /\ \A going : Due(toTask, run, going) => Due(toTask', run, going)
  <2>1. toTask' \in Seq(TaskCommand)
    BY <1>1, <1>2, <1>3, AppendFacts
  <2>2. Begun(toTask', run)
    BY <1>1, <1>2, <1>3, Added
  <2>3. \A kinds : ~Has(toTask, kinds) /\ "Freeze" \notin kinds => ~Has(toTask', kinds)
    BY <1>1, <1>2, <1>3, Added
  <2>4. \A going : Due(toTask, run, going) => Due(toTask', run, going)
    BY <1>1, <1>2, <1>3, Added
  <2> QED
    BY <2>1, <2>2, <2>3, <2>4
<1>5. ASSUME ~gaveUp PROVE Progress(g.state[self], check, run, h, toTask', toKernel)
  <2>1. Progress(g.state[self], check, run, h, toTask, toKernel)
    BY <1>5, Parts
  <2>2. /\ ~Has(toTask, {"Start"}) => ~Has(toTask', {"Start"})
        /\ ~Has(toTask, {"Stop", "Kill"}) => ~Has(toTask', {"Stop", "Kill"})
    BY <1>4
  <2> QED
    BY <1>4, <2>1, <2>2 DEF Progress, Rests, Coming, Lives, Unstopped, Ends
<1>6. Channels(toTask', toKernel', run', passed')
  BY <1>1, <1>4, Parts DEF Channels
<1>7. Thawing(frozen', h'.frozen, toTask')
  BY <1>1 DEF Thawing
<1>8. GraphOf(g', frozen', check')
  BY <1>1 DEF PInv, GraphOf
<1>9. Held(h', child', run') /\ gaveUp' \in BOOLEAN /\ ReadyOfThisRun'
  BY <1>1 DEF PInv, ReadyOfThisRun
<1> QED
  BY <1>1, <1>5, <1>6, <1>7, <1>8, <1>9 DEF PInv

\* Where a report takes the state, and the settle after it.
Answered(s, what, s2) ==
  \/ /\ s2 = s
     /\ ~(what = "Started" /\ s = "Starting") /\ ~(what = "Ready" /\ s = "Running")
     /\ ~(what = "Stopped" /\ s \in Up \cup {"Stopping"})
  \/ what = "Started" /\ s = "Starting" /\ s2 \in {"Running", "Ready", "Stopping"}
  \/ what = "Ready" /\ s = "Running" /\ s2 \in {"Ready", "Stopping"}
  \/ /\ what = "Stopped" /\ s \in Up \cup {"Stopping"}
     /\ s2 \in Down \/ (s2 = "Starting" /\ s = "Stopping")

\* What the kernel makes of a report.
Reported(report) ==
  CASE report.what = "Started" -> OnTaskStarted(g, self)
    [] report.what = "Ready"   -> OnTaskReady(g, self)
    [] report.what = "Stopped" -> OnTaskStopped(g, self, report.exit)

\* A report moves the state, if at all, as its kind says.
LEMMA ReportMoves ==
  ASSUME PInv, NEW report \in TaskReport, NEW to, Driven(Reported(report), to),
         to = Reported(report) \/ (to = Settle(Reported(report)) /\ ~frozen)
  PROVE  /\ Keeps(g, to) /\ Answered(g.state[self], report.what, to.state[self])
         /\ g.state[self] = "Starting" /\ to.state[self] = "Ready"
              => g.ready[self] = "Immediate"
<1> DEFINE s == g.state[self]
           k == Reported(report)
<1>1. Lone(g) /\ (~frozen => g.dirty = {}) /\ s \in TaskState
  BY StateAt DEF PInv, GraphOf
<1>2. ~frozen => Settle(g) = g
  <2>1. ~frozen => Round(g) = g
    BY <1>1 DEF Round
  <2> QED
    BY <2>1 DEF Settle
<1>3. k = g => to = g
  BY <1>2
<1>4. Keeps(g, g)
  BY <1>1 DEF Keeps
<1>5. CASE report.what = "Started"
  <2>1. /\ Keeps(g, k)
        /\ IF s = "Starting"
           THEN k.state[self] = "Running"
                \/ (k.state[self] = "Ready" /\ g.ready[self] = "Immediate")
           ELSE k = g
    BY <1>1, <1>5, StartedLone DEF Reported
  <2> HIDE DEF k
  <2>2. Keeps(g, to)
    BY <2>1, KeepsTwice DEF Driven, k
  <2>3. s = "Starting" => /\ to.state[self] \in {"Running", "Ready", "Stopping"}
                          /\ to.state[self] = "Ready" => g.ready[self] = "Immediate"
    BY <2>1 DEF Driven, Up, k
  <2>4. s # "Starting" => to.state[self] = s
    BY <1>3, <2>1
  <2> QED
    BY <1>5, <2>2, <2>3, <2>4 DEF Answered
<1>6. CASE report.what = "Ready"
  <2>1. /\ Keeps(g, k)
        /\ IF s = "Running" THEN k.state[self] = "Ready" ELSE k = g
    BY <1>1, <1>6, ReadyLone DEF Reported
  <2> HIDE DEF k
  <2>2. Keeps(g, to)
    BY <2>1, KeepsTwice DEF Driven, k
  <2>3. s = "Running" => to.state[self] \in {"Ready", "Stopping"}
    BY <2>1 DEF Driven, Up, k
  <2>4. s # "Running" => to.state[self] = s
    BY <1>3, <2>1
  <2> QED
    BY <1>6, <2>2, <2>3, <2>4 DEF Answered
<1>7. CASE report.what = "Stopped"
  <2>0. report.exit \in ExitInfo
    BY <1>7 DEF TaskReport
  <2>1. /\ Keeps(g, k)
        /\ IF s = "Stopping" THEN k.state[self] \in Down
           ELSE IF s \in Up THEN k.state[self] \in Ended
           ELSE k = g
    BY <1>1, <1>7, <2>0, StoppedLone DEF Reported
  <2> HIDE DEF k
  <2>2. Keeps(g, to)
    BY <2>1, KeepsTwice DEF Driven, k
  <2>3. s = "Stopping" => to.state[self] \in Down \cup {"Starting"}
    BY <2>1 DEF Driven, Down, Ended, Up, k
  <2>4. s \in Up => to.state[self] \in Down
    BY <2>1 DEF Driven, Down, Ended, Up, k
  <2>5. s \notin Up \cup {"Stopping"} => to.state[self] = s
    BY <1>3, <2>1
  <2>6. s = "Starting" => to.state[self] # "Ready"
    BY <2>4 DEF Up, Down, Ended
  <2> QED
    BY <1>7, <2>2, <2>3, <2>4, <2>5, <2>6 DEF Answered
<1> QED
  BY <1>5, <1>6, <1>7 DEF TaskReport

\* A report is of the last run, and what is left to hear is too.
LEMMA ReportProgress ==
  ASSUME PInv, NEW to, NEW killing, Moves(to, <<>>, killing), toKernel # <<>>, Lone(to),
         Answered(g.state[self], Head(toKernel).what, to.state[self]), ~gaveUp
  PROVE  /\ Progress(to.state[self], check, run', h, toTask', Tail(toKernel))
         /\ Head(toKernel).run = run
<1> DEFINE s == g.state[self]
           s2 == to.state[self]
           what == Head(toKernel).what
           rest == Tail(toKernel)
<1>1. /\ Progress(s, check, run, h, toTask, toKernel) /\ toKernel \in Seq(TaskReport)
      /\ s2 \in TaskState
  BY Parts, StateAt
<1>2. IF s2 = "Starting" /\ s # "Starting"
      THEN /\ run' = run + 1
           /\ ~Has(toTask, {"Start"}) => Due(toTask', run', TRUE)
      ELSE /\ run' = run
           /\ ~Has(toTask, {"Start"}) => ~Has(toTask', {"Start"})
           /\ /\ s2 # "Stopping"
              /\ ~Has(toTask, {"Stop", "Kill"})
              => ~Has(toTask', {"Stop", "Kill"})
  BY Moving
<1>3. /\ Alive(toKernel, run) => Alive(rest, run) /\ Head(toKernel).run = run /\ what # "Stopped"
      /\ Over(toKernel, run) => /\ Head(toKernel).run = run
                               /\ IF what = "Stopped" THEN rest = <<>> ELSE Over(rest, run)
      /\ HasReady(toKernel) /\ what # "Ready" => HasReady(rest)
      /\ \A st : StartedFirst(toKernel, st) => StartedFirst(rest, FALSE)
  BY <1>1, Heard
<1>4. Answered(s, what, s2) /\ what \in {"Started", "Ready", "Stopped"}
  <2>1. Head(toKernel) \in TaskReport
    BY <1>1, TailFacts
  <2> QED
    BY <2>1 DEF TaskReport
<1>5. toKernel[1] = Head(toKernel)
  BY <1>1, TailFacts
<1>6. s \notin Down /\ (Lives(s, check, run, h, toTask, toKernel) \/ Ends(run, h, toTask, toKernel))
  BY <1>1 DEF Progress, Rests, Coming
<1> HIDE DEF s, s2, what, rest
<1>7. s \in Up \cup {"Stopping"}
  <2>1. s \in TaskState
    BY StateAt DEF PInv, GraphOf, s
  <2> QED
    BY <1>6, <2>1 DEF TaskState, Down
<1>8. CASE Lives(s, check, run, h, toTask, toKernel)
  <2>1. /\ Alive(rest, run) /\ Head(toKernel).run = run /\ what # "Stopped"
        /\ h.process /\ h.run = run /\ ~Has(toTask, {"Start"})
        /\ s = "Starting" => what = "Started"
        /\ s \in Up => Unstopped(s, check, h, toTask, toKernel)
    BY <1>3, <1>5, <1>8 DEF Lives, what
  <2>2. /\ s2 # "Starting" /\ s2 \notin Down
        /\ s2 \in Up => s \in Up /\ s2 # "Stopping"
        /\ s2 \in Up /\ s2 # "Ready" => s # "Ready" /\ what # "Ready"
    BY <1>4, <1>7, <2>1 DEF Answered, Up, Down, Ended
  <2>3. run' = run /\ ~Has(toTask', {"Start"})
    BY <1>2, <2>1, <2>2
  <2>4. ASSUME s2 \in Up PROVE Unstopped(s2, check, h, toTask', rest)
    <3>1. Unstopped(s, check, h, toTask, toKernel)
      BY <2>1, <2>2, <2>4
    <3>2. StartedFirst(rest, s2 = "Starting")
      <4>1. StartedFirst(rest, FALSE)
        BY <1>3, <3>1 DEF Unstopped
      <4> QED
        BY <2>2, <4>1 DEF StartedFirst
    <3>3. ~Has(toTask', {"Stop", "Kill"})
      BY <1>2, <2>2, <2>4, <3>1 DEF Unstopped
    <3>4. s2 # "Ready" /\ h.readySent => HasReady(rest)
      BY <1>3, <2>2, <2>4, <3>1 DEF Unstopped
    <3> QED
      BY <3>1, <3>2, <3>3, <3>4 DEF Unstopped
  <2>5. Lives(s2, check, run', h, toTask', rest)
    BY <2>1, <2>2, <2>3, <2>4 DEF Lives
  <2> QED
    BY <2>1, <2>2, <2>5 DEF Progress, s2, rest
<1>9. CASE Ends(run, h, toTask, toKernel)
  <2>1. /\ ~h.process /\ ~Has(toTask, {"Start"}) /\ Head(toKernel).run = run
        /\ IF what = "Stopped" THEN rest = <<>> ELSE Over(rest, run)
    BY <1>3, <1>9 DEF Ends
  <2>2. CASE what = "Stopped" /\ s2 \in Down
    <3>1. s2 # "Starting"
      BY <2>2 DEF Down, Ended
    <3> QED
      BY <1>2, <2>1, <2>2, <3>1 DEF Progress, Rests, s2, rest
  <2>3. CASE what = "Stopped" /\ s2 \notin Down
    <3>1. s2 = "Starting" /\ s = "Stopping"
      BY <1>4, <1>7, <2>3 DEF Answered
    <3>2. Coming(s2, run', h, toTask', rest)
      BY <1>2, <2>1, <2>3, <3>1 DEF Coming
    <3> QED
      BY <2>1, <2>3, <3>2 DEF Progress, s2, rest
  <2>4. CASE what # "Stopped"
    <3>1. s2 \notin Down /\ (s2 = "Starting" => s = "Starting")
      BY <1>4, <1>6, <2>4 DEF Answered, Down, Ended
    <3>2. Ends(run', h, toTask', rest)
      BY <1>2, <2>1, <2>4, <3>1 DEF Ends
    <3> QED
      BY <2>1, <3>1, <3>2 DEF Progress, s2, rest
  <2> QED
    BY <2>2, <2>3, <2>4
<1> QED
  BY <1>6, <1>8, <1>9

\* A report keeps the invariant, and is of the run the kernel started last.
LEMMA TakeReportKeeps == PInv /\ TakeReport => PInv'
<1> SUFFICES ASSUME PInv, TakeReport PROVE PInv'
  OBVIOUS
<1> DEFINE report == Head(toKernel)
           k == Reported(report)
<1>1. /\ toKernel # <<>> /\ toKernel' = Tail(toKernel) /\ Dispatched(k, FALSE)
      /\ UNCHANGED <<check, frozen, h, child, passed, gaveUp>>
  BY DEF TakeReport, Reported
<1>2. /\ toKernel \in Seq(TaskReport) /\ report \in TaskReport
      /\ Passed(toKernel, passed) /\ Lone(g) /\ gaveUp \in BOOLEAN
  BY <1>1, Parts, TailFacts DEF PInv, GraphOf
<1>3. Lone(k)
  BY <1>2, StartedLone, ReadyLone, StoppedLone DEF Reported, TaskReport, Keeps
<1> HIDE DEF k
<1>4. PICK to : /\ Moves(to, <<>>, FALSE) /\ Driven(k, to)
                /\ frozen \/ to.dirty = {}
                /\ to = k \/ to = Settle(k)
  BY <1>1, <1>3, DispatchedIs
<1>5. to = k \/ (to = Settle(k) /\ ~frozen)
  BY <1>1, <1>4 DEF Dispatched, Moves
<1>6. /\ Keeps(g, to) /\ Answered(g.state[self], report.what, to.state[self])
      /\ g.state[self] = "Starting" /\ to.state[self] = "Ready"
           => g.ready[self] = "Immediate"
  BY <1>2, <1>4, <1>5, ReportMoves DEF k
<1>7. Lone(to)
  BY <1>6 DEF Keeps
<1>8. /\ toKernel' \in Seq(TaskReport) /\ Passed(toKernel', passed)
      /\ report.what = "Ready" => report.run \in passed
  <2>1. Passed(toKernel, passed) =>
          Passed(Tail(toKernel), passed) /\ (report.what = "Ready" => report.run \in passed)
    BY <1>1, <1>2, Heard
  <2>2. Tail(toKernel) \in Seq(TaskReport)
    BY <1>1, <1>2, TailFacts
  <2> QED
    BY <1>1, <1>2, <2>1, <2>2
<1>9. ~gaveUp => /\ Progress(to.state[self], check, run', h, toTask', toKernel')
                 /\ report.run = run
  BY <1>1, <1>4, <1>6, <1>7, ReportProgress
<1>10. ReadyOfThisRun'
  <2>1. SUFFICES ASSUME to.state[self] = "Ready", check # "None", ~gaveUp
                 PROVE  run' \in passed
    BY <1>1, <1>4, Moving DEF ReadyOfThisRun
  <2>2. run' = run
    BY <1>4, <2>1, Moving
  <2>3. CASE g.state[self] = "Ready"
    BY <2>1, <2>2, <2>3 DEF PInv, ReadyOfThisRun
  <2>4. CASE g.state[self] = "Starting"
    BY <1>6, <2>1, <2>4 DEF PInv, GraphOf
  <2>5. CASE report.what = "Ready"
    BY <1>8, <1>9, <2>1, <2>2, <2>5
  <2> QED
    BY <1>6, <2>1, <2>3, <2>4, <2>5 DEF Answered, Down, Ended
<1> HIDE DEF report
<1> QED
  BY <1>1, <1>2, <1>4, <1>6, <1>8, <1>9, <1>10, MoveKeeps

-----------------------------------------------------------------------------
(* The theorems *)

\* Every step keeps the invariant.
LEMMA NextPInv == PInv /\ [Next]_vars => PInv'
<1> SUFFICES ASSUME PInv, [Next]_vars PROVE PInv'
  OBVIOUS
<1>1. CASE Kernel
  BY <1>1, UserVerbKeeps, TimeoutStepKeeps, TakeReportKeeps, FreezeKeeps, ThawKeeps DEF Kernel
<1>2. CASE Handler
  BY <1>2, IgnoreStartKeeps, StartInstanceKeeps, StartFailsKeeps, HandleStopKeeps,
     HandleFreezeKeeps, HandleThawKeeps, HandleExitedKeeps, ProbeReadyKeeps,
     ReadReadyKeeps, ReadEndKeeps DEF Handler, TakeCommand
<1>3. CASE ChildExits
  BY <1>3, ChildExitsKeeps
<1>4. CASE Reap
  BY <1>4, ReapKeeps
<1>5. CASE UNCHANGED vars
  BY <1>5 DEF vars, PInv, ReadyOfThisRun
<1> QED
  BY <1>1, <1>2, <1>3, <1>4, <1>5 DEF Next

\* The invariant holds.
LEMMA PInvariance == Spec => []PInv
BY InitPInv, NextPInv, PTL DEF Spec

\* What the kernel believes of the task is so: the invariant ties each state the
\* kernel may have the task in to what there is of the run.
LEMMA PInvBelieved == PInv => BelievedIsSo
<1> SUFFICES ASSUME PInv PROVE BelievedIsSo
  OBVIOUS
<1>1. TypeOK
  BY DEF PInv, GraphOf, Lone, Channels, Held, Instance, Children, TypeOK
<1>2. ExitTruthful
  <2>1. SUFFICES ASSUME ~gaveUp, ExitMet PROVE NoProcess
    BY DEF ExitTruthful, ExitMetMeansNoProcess
  <2>2. g.state[self] \in Down
    BY <2>1 DEF ExitMet, Down, Ended
  <2>3. Rests(h, toTask, toKernel)
    BY <2>1, <2>2, Parts DEF Progress
  <2> QED
    BY <2>3 DEF Rests, Has, NoProcess
<1>3. ProbeWatching
  <2>1. SUFFICES ASSUME g.state[self] = "Running", check = "Probe", ~frozen, ~gaveUp,
                        toTask = <<>>, toKernel = <<>>, h.process, h.exit = NoExit
                 PROVE  h.probe
    BY DEF ProbeWatching
  <2>2. g.state[self] \notin Down /\ g.state[self] \in Up
    BY <2>1 DEF Down, Ended, Up
  <2>3. Unstopped(g.state[self], check, h, toTask, toKernel)
    BY <2>1, <2>2, Parts DEF Progress, Coming, Lives, Ends
  <2>4. ~h.frozen
    BY <2>1, Parts DEF Thawing
  <2>5. ~HasReady(toKernel)
    BY <2>1 DEF HasReady
  <2> QED
    BY <2>1, <2>3, <2>4, <2>5 DEF Unstopped
<1> QED
  BY <1>1, <1>2, <1>3 DEF PInv, BelievedIsSo

\* The reports of the channel are all of the run the kernel started last.
LEMMA PInvReports == PInv => ReportsOwnRun
<1> SUFFICES ASSUME PInv, toKernel # <<>>, ~gaveUp PROVE Head(toKernel).run = run
  BY DEF ReportsOwnRun
<1>1. Alive(toKernel, run) \/ Over(toKernel, run)
  BY Parts DEF Progress, Rests, Coming, Lives, Ends
<1>2. Head(toKernel) = toKernel[1] /\ 1 \in 1 .. Len(toKernel)
  BY Parts, TailFacts
<1> QED
  BY <1>1, <1>2 DEF Alive, Over

\* A child is started only where there is none.
LEMMA PInvOneChild == PInv /\ [Next]_vars => OneChild
<1> SUFFICES ASSUME PInv, [Next]_vars, child'.state = "running", h'.run # h.run
             PROVE  child.state = "none" /\ h.exits = NoExit
  BY DEF OneChild
<1>1. h \in Instance
  BY Parts
<1>2. \/ ~h.process
      \/ h'.run = h.run
  <2>1. CASE Kernel
    BY <2>1 DEF Kernel, UserVerb, Timeout, TakeReport, Freeze, Thaw
  <2>2. CASE StartInstance \/ StartFails
    BY <2>2 DEF StartInstance, StartFails
  <2>3. CASE IgnoreStart \/ ChildExits
    BY <2>3 DEF IgnoreStart, ChildExits
  <2>4. CASE Reap
    BY <1>1, <2>4 DEF Reap, Instance
  <2>5. ASSUME NEW hh \in Instance, NEW reports, EndTurn(hh, reports), hh.run = h.run
        PROVE  h'.run = h.run
    BY <2>5 DEF EndTurn, Instance
  <2>6. CASE HandleStop
    <3>1. [h EXCEPT !.probe = FALSE, !.stopSent = TRUE] \in Instance
      BY <1>1 DEF Instance
    <3> QED
      BY <1>1, <2>5, <2>6, <3>1 DEF HandleStop, Instance
  <2>7. CASE HandleFreeze
    <3> DEFINE took == IF h.exits = NoExit THEN h ELSE exited(h)
               hh == [took EXCEPT !.frozen = TRUE, !.probe = FALSE]
    <3>1. hh \in Instance /\ hh.run = h.run
      BY <1>1 DEF Instance, exited
    <3> QED
      BY <2>5, <2>7, <3>1 DEF HandleFreeze
  <2>8. CASE HandleThaw
    <3> DEFINE hh == [h EXCEPT !.frozen = FALSE,
                               !.probe = IF h.process THEN start_probe(h) ELSE @]
    <3>1. hh \in Instance /\ hh.run = h.run
      BY <1>1 DEF Instance, start_probe
    <3> QED
      BY <2>5, <2>8, <3>1 DEF HandleThaw
  <2>9. CASE HandleExited
    <3> DEFINE hh == [exited(h) EXCEPT !.probe = FALSE]
    <3>1. hh \in Instance /\ hh.run = h.run
      BY <1>1 DEF Instance, exited
    <3> QED
      BY <2>5, <2>9, <3>1 DEF HandleExited
  <2>10. CASE ProbeReady \/ ReadReady
    <3> DEFINE hh == [h EXCEPT !.probe = FALSE, !.readySent = TRUE]
    <3>1. hh \in Instance /\ hh.run = h.run
      BY <1>1 DEF Instance
    <3> QED
      BY <2>5, <2>10, <3>1 DEF ProbeReady, ReadReady, BecomesReady
  <2>11. CASE ReadEnd
    <3> DEFINE hh == [h EXCEPT !.eof = TRUE]
    <3>1. hh \in Instance /\ hh.run = h.run
      BY <1>1 DEF Instance
    <3> QED
      BY <2>5, <2>11, <3>1 DEF ReadEnd
  <2>12. CASE UNCHANGED vars
    BY <2>12 DEF vars
  <2> QED
    BY <2>1, <2>2, <2>3, <2>4, <2>6, <2>7, <2>8, <2>9, <2>10, <2>11, <2>12
       DEF Next, Handler, TakeCommand
<1>3. ~h.process
  BY <1>2
<1> QED
  BY <1>3, Parts DEF Held

\* Whatever is sent, fails, freezes or exits, and in whatever order: a task the
\* kernel has down has no process and no start on its way, Ready was earned in
\* this run, and a check that is waited on is being made.
THEOREM BelievedTrue == Spec => []BelievedIsSo
BY PInvariance, PInvBelieved, PTL

\* A report moves the task only when it is of the run the kernel started last,
\* though no report says which run it is of; and no child starts beside another.
THEOREM RunsKeptApart == Spec => RunsApart
<1>1. PInv /\ [Next]_vars => [ReportsOwnRun /\ OneChild]_vars
  BY PInvReports, PInvOneChild
<1> QED
  BY <1>1, PInvariance, PTL DEF Spec, RunsApart
=============================================================================
