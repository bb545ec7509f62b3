----------------------------- MODULE WaitsProofs -----------------------------
(***************************************************************************)
(* Theorems on the waits: what a client was last told is where its tasks   *)
(* stand, and a wait that stays open is on something that happens.         *)
(***************************************************************************)
EXTENDS WaitsProperties, KernelProofs

-----------------------------------------------------------------------------
(* What changes a standing changes what raises the flag *)

\* The tasks are what they were: what kind, and brought back in which cases.
Terms(gr, h) == h.kind = gr.kind /\ h.restart = gr.restart

\* Runs go on as they were, or a verb took them on: an ended one back to Idle, one
\* that was up to its stop.  A failed start may be forgiven.
Onward(gr, h) ==
  /\ h.tasks = gr.tasks
  /\ Terms(gr, h)
  /\ \A u \in Task :
       \/ /\ h.state[u] = gr.state[u] /\ h.exit[u] = gr.exit[u]
          /\ u \in h.startFailed => u \in gr.startFailed
          /\ u \in h.stopTimedOut <=> u \in gr.stopTimedOut
       \/ gr.state[u] \in Ended /\ h.state[u] = "Idle"
       \/ gr.state[u] \in Up /\ h.state[u] = "Stopping"

\* Where no task came or went, no state changed, no failed start was forgiven and no
\* stop given up on, nothing changed that tells how a task stands.
Told(gr, h) ==
  /\ h.tasks = gr.tasks /\ h.state = gr.state
  /\ gr.startFailed \subseteq h.startFailed
  /\ h.stopTimedOut \subseteq gr.stopTimedOut
  => /\ Terms(gr, h)
     /\ h.exit = gr.exit
     /\ h.startFailed = gr.startFailed
     /\ h.stopTimedOut = gr.stopTimedOut

\* Verbs that take runs on one after the other do so together.
LEMMA OnwardTwice ==
  ASSUME NEW gr, NEW k, NEW h, Onward(gr, k), Onward(k, h)
  PROVE  Onward(gr, h)
<1>1. ASSUME NEW u \in Task
      PROVE  \/ /\ h.state[u] = gr.state[u] /\ h.exit[u] = gr.exit[u]
                /\ u \in h.startFailed => u \in gr.startFailed
                /\ u \in h.stopTimedOut <=> u \in gr.stopTimedOut
             \/ gr.state[u] \in Ended /\ h.state[u] = "Idle"
             \/ gr.state[u] \in Up /\ h.state[u] = "Stopping"
  BY <1>1 DEF Onward, Ended, Up
<1> QED
  BY <1>1 DEF Onward, Terms

\* What a verb changes is told.
LEMMA OnwardTold ==
  ASSUME NEW gr, gr \in Graph, NEW h, h \in Graph, Onward(gr, h)
  PROVE  Told(gr, h)
<1> SUFFICES ASSUME h.state = gr.state,
                    gr.startFailed \subseteq h.startFailed,
                    h.stopTimedOut \subseteq gr.stopTimedOut
             PROVE  /\ h.exit = gr.exit /\ h.startFailed = gr.startFailed
                    /\ h.stopTimedOut = gr.stopTimedOut
  BY DEF Told, Onward
<1>1. /\ gr.exit \in [Task -> ExitInfo \cup {NoExit}]
      /\ h.exit \in [Task -> ExitInfo \cup {NoExit}]
      /\ gr.startFailed \subseteq Task /\ h.startFailed \subseteq Task
      /\ gr.stopTimedOut \subseteq Task /\ h.stopTimedOut \subseteq Task
  BY DEF Graph
<1>2. \A u \in Task : /\ h.exit[u] = gr.exit[u]
                      /\ u \in h.startFailed => u \in gr.startFailed
                      /\ u \in h.stopTimedOut <=> u \in gr.stopTimedOut
  BY DEF Onward, Ended, Up
<1> QED
  BY <1>1, <1>2

\* A task whose state changed is told.
LEMMA MovedTold ==
  ASSUME NEW gr, NEW h, NEW t, h.state[t] # gr.state[t]
  PROVE  Told(gr, h)
BY DEF Told

\* A step that leaves runs and terms alone.
LEMMA SameOnward ==
  ASSUME NEW gr, NEW h, SameRuns(gr, h), Terms(gr, h)
  PROVE  Onward(gr, h)
BY DEF SameRuns, SameRun, Onward

\* Queueing, notifying, commands and timers are not about terms.
LEMMA QuietTerms ==
  ASSUME NEW gr, gr \in Graph, NEW S, NEW t
  PROVE  /\ Terms(gr, Enqueue(gr, S)) /\ Terms(gr, Notify(gr))
         /\ Terms(gr, SendCmd(gr, t)) /\ Terms(gr, Schedule(gr, t))
<1>1. Terms(gr, Enqueue(gr, S))
  BY DEF Graph, Enqueue, Terms
<1>2. Terms(gr, Notify(gr))
  BY DEF Graph, Notify, Terms
<1>3. Terms(gr, SendCmd(gr, t))
  BY DEF Graph, SendCmd, Terms
<1>4. Terms(gr, Schedule(gr, t))
  BY DEF Graph, Schedule, Terms
<1> QED
  BY <1>1, <1>2, <1>3, <1>4

\* Nor is set_state.
LEMMA SetStateTerms ==
  ASSUME NEW gr, gr \in Graph, NEW t, NEW s, NEW info
  PROVE  Terms(gr, SetState(gr, t, s, info))
<1> DEFINE gate == Active(gr, t) # is_active(s)
           count == IF gate
                    THEN Bump(gr.activeDependents, Deps(gr, t), IF is_active(s) THEN 1 ELSE -1)
                    ELSE gr.activeDependents
           dirt == gr.dirty \cup {t}
                     \cup (IF Satisfied(gr, t) # is_satisfied(gr.kind[t], s)
                           THEN Dependents(gr, t) ELSE {})
                     \cup (IF gate THEN Deps(gr, t) ELSE {})
           k == [gr EXCEPT
                   !.state[t] = s, !.exit[t] = info,
                   !.killed = @ \ {t}, !.startFailed = @ \ {t},
                   !.stopTimedOut = @ \ {t}, !.timed = @ \ {t},
                   !.activeDependents = count, !.dirty = dirt]
<1>1. SetState(gr, t, s, info) \in {gr, Notify(k)}
  BY DEF SetState
<1> HIDE DEF count, dirt
<1>2. Terms(gr, k) /\ DOMAIN k = DOMAIN gr
  BY DEF Graph, Terms
<1>3. {"kind", "restart", "effects"} \subseteq DOMAIN gr
  BY DEF Graph
<1> HIDE DEF k
<1>4. Terms(k, Notify(k))
  BY <1>2, <1>3 DEF Notify, Terms
<1> QED
  BY <1>1, <1>2, <1>4 DEF Terms

\* Nor are edges.
LEMMA EdgeTerms ==
  ASSUME NEW gr, gr \in Graph, NEW from, NEW S
  PROVE  Terms(gr, AddEdges(gr, from, S)) /\ Terms(gr, RemoveEdges(gr, from, S))
<1>1. Terms(gr, AddEdges(gr, from, S))
  <2> DEFINE valid == {to \in S \cap gr.tasks : to # from}
             new == {to \in valid : <<from, to>> \notin gr.edges}
             ed == gr.edges \cup {<<from, to>> : to \in new}
             wp == IF ParentWanted(gr, from) THEN Bump(gr.wantedParents, new, 1)
                   ELSE gr.wantedParents
             ad == IF ParentActive(gr, from) THEN Bump(gr.activeDependents, new, 1)
                   ELSE gr.activeDependents
             k == [gr EXCEPT !.edges = ed, !.wantedParents = wp, !.activeDependents = ad]
  <2>1. AddEdges(gr, from, S) \in {gr, Enqueue(k, valid \cup {from})}
    BY DEF AddEdges
  <2> HIDE DEF ed, wp, ad
  <2>2. Terms(gr, Enqueue(k, valid \cup {from}))
    BY DEF Graph, Enqueue, Terms
  <2> QED
    BY <2>1, <2>2 DEF Terms
<1>2. Terms(gr, RemoveEdges(gr, from, S))
  <2> DEFINE old == {to \in S : <<from, to>> \in gr.edges}
             ed == gr.edges \ {<<from, to>> : to \in old}
             wp == IF ParentWanted(gr, from) THEN Bump(gr.wantedParents, old, -1)
                   ELSE gr.wantedParents
             ad == IF ParentActive(gr, from) THEN Bump(gr.activeDependents, old, -1)
                   ELSE gr.activeDependents
             k == [gr EXCEPT !.edges = ed, !.wantedParents = wp, !.activeDependents = ad]
  <2>1. RemoveEdges(gr, from, S) \in {gr, Enqueue(k, S \cup {from})}
    BY DEF RemoveEdges
  <2> HIDE DEF ed, wp, ad
  <2>2. Terms(gr, Enqueue(k, S \cup {from}))
    BY DEF Graph, Enqueue, Terms
  <2> QED
    BY <2>1, <2>2 DEF Terms
<1> QED
  BY <1>1, <1>2

-----------------------------------------------------------------------------
(* The verbs *)

\* Pinning and vetoing go onward.
LEMMA PinOnward ==
  ASSUME NEW gr, Sound(gr), NEW t \in gr.tasks, NEW pinned \in BOOLEAN
  PROVE  /\ Keeps(gr, SetPin(gr, t, pinned)) /\ Onward(gr, SetPin(gr, t, pinned))
         /\ Onward(gr, SetVetoed(gr, t))
<1>1. gr \in Graph
  BY DEF Sound
<1>2. Terms(gr, SetPin(gr, t, pinned))
  <2> DEFINE latest == [gr EXCEPT !.savedPin = @ \ {t}]
  <2>1. latest \in Graph /\ Terms(gr, latest)
    BY <1>1 DEF Graph, Terms
  <2>2. SetPin(gr, t, pinned) \in {AddEdges(latest, Init0, {t}), RemoveEdges(latest, Init0, {t})}
    BY DEF SetPin
  <2> HIDE DEF latest
  <2> QED
    BY <2>1, <2>2, EdgeTerms DEF Terms
<1>3. Terms(gr, SetVetoed(gr, t))
  <2> DEFINE h == [gr EXCEPT !.vetoed = @ \cup {t}]
  <2>1. Terms(gr, Enqueue(h, {t}))
    BY <1>1 DEF Graph, Enqueue, Terms
  <2> QED
    BY <2>1 DEF SetVetoed, Terms
<1> QED
  BY <1>2, <1>3, PinRuns, SetPinKept, SameOnward

\* So does a demand.
LEMMA DemandOnward ==
  ASSUME NEW gr, Sound(gr), NEW t \in gr.tasks, NEW rerunDone \in BOOLEAN
  PROVE  Onward(gr, Demand(gr, t, rerunDone))
<1> DEFINE C == Closure(gr, t) \cap gr.tasks
           revive == {u \in C : \/ gr.state[u] \in {"Backoff", "Exited"}
                                \/ gr.state[u] = "Done" /\ rerunDone /\ u = t}
           parents == UNION {Dependents(gr, u) : u \in {r \in revive : Satisfied(gr, r)}}
           st == [u \in Task |-> IF u \in revive THEN "Idle" ELSE gr.state[u]]
           ex == [u \in Task |-> IF u \in revive THEN NoExit ELSE gr.exit[u]]
           dirt == gr.dirty \cup (C \cap gr.vetoed) \cup revive \cup parents
           idle == [gr EXCEPT
                      !.state = st, !.exit = ex,
                      !.killed = @ \ revive, !.stopTimedOut = @ \ revive,
                      !.timed = @ \ revive, !.startFailed = @ \ C, !.vetoed = @ \ C,
                      !.dirty = dirt]
           h == Demand(gr, t, rerunDone)
<1>1. gr \in Graph
  BY DEF Sound
<1>2. h \in {idle, Notify(idle)}
  BY DEF Demand
<1> HIDE DEF dirt, revive, C, st, ex
<1>3. Terms(gr, idle) /\ DOMAIN idle = DOMAIN gr
  BY <1>1 DEF Graph, Terms
<1>4. {"kind", "restart", "effects"} \subseteq DOMAIN gr
  BY <1>1 DEF Graph
<1> HIDE DEF idle
<1>5. Terms(gr, h)
  BY <1>2, <1>3, <1>4 DEF Notify, Terms
<1> HIDE DEF h
<1>6. /\ \A u \in Task : Revived(gr, h, u)
      /\ h.tasks = gr.tasks
  BY DemandRuns, DemandKept DEF h, Keeps
<1>7. Onward(gr, h)
  BY <1>5, <1>6 DEF Onward, Revived, Plain
<1> QED
  BY <1>7 DEF h

\* So do a stop of what is up and a kill.
LEMMA StopOnward ==
  ASSUME NEW gr, Sound(gr), NEW t \in gr.tasks
  PROVE  /\ \A failed \in BOOLEAN :
              gr.state[t] \in Up => Onward(gr, StopTask(gr, t, failed))
         /\ Onward(gr, StopIfActive(gr, t))
         /\ Onward(gr, HardKill(gr, t))
         /\ gr.state[t] \in Up => Onward(gr, SetState(gr, t, "Stopping", NoExit))
<1>1. gr \in Graph /\ t \in Task /\ "Stopping" \in TaskState /\ NoExit \in ExitInfo \cup {NoExit}
  BY DEF Sound, Graph, TaskState
<1>2. ASSUME NEW h, OnlyAt(gr, h, t), Terms(gr, h), gr.state[t] \in Up, h.state[t] = "Stopping"
      PROVE  Onward(gr, h)
  BY <1>2 DEF OnlyAt, SameRun, Onward
<1>3. ASSUME gr.state[t] \in Up, NEW failed \in BOOLEAN
      PROVE  Onward(gr, StopTask(gr, t, failed))
  <2> DEFINE stopping == SetState(gr, t, "Stopping", NoExit)
             flag == IF failed THEN stopping.startFailed \cup {t}
                     ELSE stopping.startFailed \ {t}
             k == [stopping EXCEPT !.startFailed = flag]
             timed == Schedule(k, t)
  <2>1. stopping \in Graph /\ Terms(gr, stopping)
    BY <1>1, SetStateTerms, SetStateSound DEF Keeps, Sound
  <2> HIDE DEF stopping
  <2>9. flag \subseteq Task
    BY <1>1, <2>1 DEF Graph
  <2> HIDE DEF flag
  <2>2. k \in Graph /\ Terms(stopping, k)
    BY <2>1, <2>9 DEF Graph, Terms
  <2> HIDE DEF k
  <2>3. timed \in Graph /\ Terms(k, timed)
    BY <1>1, <2>2, QuietTerms DEF Graph, Schedule
  <2> HIDE DEF timed
  <2>4. Terms(timed, SendCmd(timed, t))
    BY <2>3, QuietTerms
  <2>5. StopTask(gr, t, failed) = SendCmd(timed, t)
    BY DEF StopTask, stopping, flag, k, timed
  <2>6. Terms(gr, StopTask(gr, t, failed))
    BY <2>1, <2>2, <2>3, <2>4, <2>5 DEF Terms
  <2> QED
    BY <1>2, <1>3, <2>6, StopTaskRun
<1>4. Onward(gr, HardKill(gr, t))
  <2> DEFINE k == [gr EXCEPT !.killed = @ \cup {t}]
  <2>1. k \in Graph /\ Terms(gr, k)
    BY <1>1 DEF Graph, Terms
  <2> HIDE DEF k
  <2>2. SendCmd(k, t) \in Graph /\ Terms(k, SendCmd(k, t))
    <3>1. k.effects \cup {t} \in SUBSET Task
      BY <1>1, <2>1 DEF Graph
    <3>2. [k EXCEPT !.effects = @ \cup {t}] \in Graph
      BY <2>1, <3>1 DEF Graph
    <3> QED
      BY <2>1, <3>2, QuietTerms DEF SendCmd
  <2>3. Terms(SendCmd(k, t), Schedule(SendCmd(k, t), t))
    BY <2>2, QuietTerms
  <2>4. Terms(gr, HardKill(gr, t))
    BY <2>1, <2>2, <2>3 DEF Terms, HardKill, k
  <2> QED
    BY <2>4, HardKillRun DEF OnlyAt, SameRun, Onward
<1>5. gr.state[t] \in Up => Onward(gr, SetState(gr, t, "Stopping", NoExit))
  <2> SUFFICES ASSUME gr.state[t] \in Up PROVE Onward(gr, SetState(gr, t, "Stopping", NoExit))
    OBVIOUS
  <2>1. gr.state[t] # "Stopping"
    BY DEF Up
  <2> QED
    BY <1>1, <1>2, <2>1, SetStateRun, SetStateTerms DEF Plain
<1>6. Onward(gr, gr)
  BY DEF Onward, Terms
<1> QED
  BY <1>3, <1>4, <1>5, <1>6 DEF StopIfActive

\* So does every verb but the removal of a task.
LEMMA VerbsOnward ==
  ASSUME NEW gr, Sound(gr), NEW t \in gr.tasks
  PROVE  /\ Onward(gr, CmdUp(gr, t)) /\ Onward(gr, CmdStop(gr, t))
         /\ Onward(gr, CmdRestart(gr, t)) /\ Onward(gr, CmdVeto(gr, t))
         /\ Onward(gr, CmdStart(CmdKill(gr, t), t))
         /\ Onward(gr, CmdStart(gr, t)) /\ Onward(gr, CmdKill(gr, t))
<1> DEFINE Step(k) == Keeps(gr, k) /\ Onward(gr, k)
<1>1. /\ Step(SetPin(gr, t, TRUE)) /\ Step(SetPin(gr, t, FALSE))
  BY PinOnward
<1>2. ASSUME NEW k, Sound(k), t \in k.tasks, NEW rerunDone \in BOOLEAN
      PROVE  Onward(k, Demand(SetPin(k, t, TRUE), t, rerunDone))
  <2>1. Keeps(k, SetPin(k, t, TRUE)) /\ Onward(k, SetPin(k, t, TRUE))
    BY <1>2, PinOnward
  <2>2. PICK p : p = SetPin(k, t, TRUE)
    OBVIOUS
  <2>3. Onward(p, Demand(p, t, rerunDone))
    BY <1>2, <2>1, <2>2, DemandOnward DEF Keeps
  <2> QED
    BY <2>1, <2>2, <2>3, OnwardTwice
<1>3. Onward(gr, CmdUp(gr, t)) /\ Step(CmdStart(gr, t))
  BY <1>2, CmdStartKept DEF CmdUp, CmdStart
<1>4. Onward(gr, CmdStop(gr, t))
  <2>1. PICK p : p = SetPin(gr, t, FALSE)
    OBVIOUS
  <2>2. Onward(p, StopIfActive(p, t))
    BY <1>1, <2>1, StopOnward DEF Keeps
  <2> QED
    BY <1>1, <2>1, <2>2, OnwardTwice DEF CmdStop
<1>5. Onward(gr, CmdRestart(gr, t))
  <2>1. PICK p : p = CmdStart(gr, t)
    OBVIOUS
  <2>2. Onward(p, StopIfActive(p, t))
    BY <1>3, <2>1, StopOnward DEF Keeps
  <2> QED
    BY <1>3, <2>1, <2>2, OnwardTwice DEF CmdRestart
<1>6. Onward(gr, CmdVeto(gr, t))
  <2>1. PICK p : p = SetPin(gr, t, FALSE)
    OBVIOUS
  <2>2. Onward(p, SetVetoed(p, t))
    BY <1>1, <2>1, PinOnward DEF Keeps
  <2> QED
    BY <1>1, <2>1, <2>2, OnwardTwice DEF CmdVeto
<1>7. Onward(gr, CmdKill(gr, t))
  <2>1. PICK p : p = SetPin(gr, t, FALSE)
    OBVIOUS
  <2>2. Sound(p) /\ t \in p.tasks /\ Onward(gr, p) /\ p.state = gr.state
    BY <1>1, <2>1, SetPinKept DEF Keeps
  <2>3. Onward(p, HardKill(p, t))
    BY <2>2, StopOnward
  <2>4. ASSUME gr.state[t] \in Up
        PROVE  Onward(gr, HardKill(SetState(p, t, "Stopping", NoExit), t))
    <3>1. PICK q : q = SetState(p, t, "Stopping", NoExit)
      OBVIOUS
    <3>2. Keeps(p, q)
      BY <2>2, <3>1, SetStateSound DEF TaskState
    <3>3. Onward(p, q)
      BY <2>2, <2>4, <3>1, StopOnward
    <3>4. Onward(q, HardKill(q, t))
      BY <2>2, <3>2, StopOnward DEF Keeps
    <3>5. Onward(p, HardKill(q, t))
      BY <3>3, <3>4, OnwardTwice
    <3> QED
      BY <2>2, <3>1, <3>5, OnwardTwice
  <2>5. Onward(gr, HardKill(p, t))
    BY <2>2, <2>3, OnwardTwice
  <2>6. CmdKill(gr, t) = CASE gr.state[t] \in Up -> HardKill(SetState(p, t, "Stopping", NoExit), t)
                           [] gr.state[t] = "Stopping" -> HardKill(p, t)
                           [] OTHER -> p
    BY <2>1 DEF CmdKill
  <2> QED
    BY <2>2, <2>4, <2>5, <2>6 DEF Up
<1>8. Onward(gr, CmdStart(CmdKill(gr, t), t))
  <2>1. PICK p : p = CmdKill(gr, t)
    OBVIOUS
  <2>2. Sound(p) /\ t \in p.tasks
    BY <2>1, CmdKillKept DEF Keeps
  <2>3. Onward(p, CmdStart(p, t))
    BY <1>2, <2>2 DEF CmdStart
  <2> QED
    BY <1>7, <2>1, <2>3, OnwardTwice
<1> QED
  BY <1>3, <1>4, <1>5, <1>6, <1>7, <1>8

-----------------------------------------------------------------------------
(* Reports, timers and the reconciler *)

\* A graph that is left alone.
LEMMA SelfTold ==
  ASSUME NEW gr
  PROVE  Told(gr, gr)
BY DEF Told, Terms

\* What tasks report moves their state, or is ignored.
LEMMA ReportsTold ==
  ASSUME NEW gr, Sound(gr), NEW t \in Task, NEW info \in {"ok", "err"}
  PROVE  /\ Told(gr, OnTaskStarted(gr, t))
         /\ Told(gr, OnTaskReady(gr, t))
         /\ Told(gr, OnTaskStopped(gr, t, info))
<1>1. Told(gr, gr) /\ info \in ExitInfo /\ gr.state \in [Task -> TaskState]
      /\ NoExit \in ExitInfo \cup {NoExit} /\ "Ready" \in TaskState
  BY SelfTold DEF ExitInfo, Sound, Graph, TaskState, Up
<1>2. Told(gr, OnTaskStarted(gr, t))
  <2> DEFINE s == started_state(gr.kind[t], gr.ready[t])
             up == SetState(gr, t, s, NoExit)
  <2> SUFFICES ASSUME t \in gr.tasks, gr.state[t] = "Starting"
               PROVE  Told(gr, up) /\ Told(gr, Schedule(up, t))
    BY <1>1 DEF OnTaskStarted
  <2>1. s \in TaskState /\ s # "Starting"
    BY DEF started_state, TaskState, Up
  <2> HIDE DEF s
  <2>9. Sound(up) /\ up.state = [gr.state EXCEPT ![t] = s]
    BY <2>1, SetStateSound DEF Keeps
  <2> HIDE DEF up
  <2>2. Sound(up) /\ up.state[t] = s
    BY <1>1, <2>9
  <2>3. Schedule(up, t).state[t] = s
    BY <2>2, ScheduleRun
  <2> QED
    BY <2>1, <2>2, <2>3, MovedTold
<1>3. Told(gr, OnTaskReady(gr, t))
  <2> SUFFICES ASSUME t \in gr.tasks, gr.state[t] = "Running"
               PROVE  Told(gr, SetState(gr, t, "Ready", NoExit))
    BY <1>1 DEF OnTaskReady
  <2>8. "Ready" \in TaskState
    BY <1>1
  <2>9. SetState(gr, t, "Ready", NoExit).state = [gr.state EXCEPT ![t] = "Ready"]
    BY <2>8, SetStateSound
  <2>1. SetState(gr, t, "Ready", NoExit).state[t] = "Ready"
    BY <1>1, <2>9
  <2> QED
    BY <2>1, MovedTold
<1>4. Told(gr, OnTaskStopped(gr, t, info))
  <2>1. ASSUME t \in gr.tasks, gr.state[t] = "Stopping" PROVE Told(gr, LandStop(gr, t, info))
    <3>1. LandStop(gr, t, info).state[t] # "Stopping"
      BY <1>1, <2>1, LandStopRun
    <3> QED
      BY <2>1, <3>1, MovedTold
  <2>2. ASSUME t \in gr.tasks, gr.state[t] \in Up PROVE Told(gr, LandExit(gr, t, info))
    <3>1. gr.state[t] \notin Ended
      BY <2>2 DEF Up, Ended
    <3>2. LandExit(gr, t, info).state[t] \in Ended
      BY <1>1, <2>2, <3>1, LandExitRun DEF exit_state, Ended
    <3> QED
      BY <3>1, <3>2, MovedTold
  <2> QED
    BY <1>1, <2>1, <2>2 DEF OnTaskStopped
<1> QED
  BY <1>2, <1>3, <1>4

\* A timer that runs out moves the state of its task, kills it, or does nothing.
LEMMA OnStateTimeoutTold ==
  ASSUME NEW gr, Sound(gr), NEW t \in gr.tasks
  PROVE  \/ OnStateTimeout(gr, t).state # gr.state
         \/ Onward(gr, OnStateTimeout(gr, t))
<1> DEFINE out == [gr EXCEPT !.timed = @ \ {t}]
           gone == LandStop(out, t, "err")
           timedOut == [gone EXCEPT !.stopTimedOut = @ \cup {t}]
<1>1. /\ gr \in Graph /\ t \in Task /\ "err" \in ExitInfo
      /\ gr.state \in [Task -> TaskState]
  BY DEF Sound, Graph, ExitInfo
<1>2. /\ out \in Graph /\ SameCore(gr, out) /\ out.dirty = gr.dirty
      /\ out.savedPin = gr.savedPin /\ out.exit = gr.exit /\ Terms(gr, out)
      /\ out.startFailed = gr.startFailed /\ out.stopTimedOut = gr.stopTimedOut
  BY <1>1 DEF Graph, SameCore, Terms
<1> HIDE DEF out
<1>3. Sound(out) /\ t \in out.tasks /\ out.state = gr.state
  BY <1>2, FlagsKept DEF Keeps, SameCore
<1>4. Onward(gr, out)
  BY <1>2 DEF Onward, SameCore
<1>5. ASSUME gr.state[t] = "Backoff" PROVE ToIdle(out, t).state[t] = "Idle"
  <2>1. ToIdle(out, t).state = [gr.state EXCEPT ![t] = "Idle"]
    BY <1>3, ToIdleKept
  <2> QED
    BY <1>1, <2>1
<1>6. ASSUME gr.state[t] = "Stopping"
      PROVE  gone.state[t] # "Stopping" /\ timedOut.state[t] # "Stopping"
  <2>1. gone.state[t] # "Stopping"
    BY <1>1, <1>3, <1>6, LandStopRun
  <2>2. gone \in Graph
    BY <1>1, <1>3, LandStopKept DEF Keeps, Sound
  <2> HIDE DEF gone
  <2>3. timedOut.state = gone.state
    BY <2>2 DEF Graph
  <2> QED
    BY <2>1, <2>3
<1>7. Onward(gr, HardKill(out, t))
  BY <1>3, <1>4, StopOnward, OnwardTwice
<1>8. ASSUME gr.state[t] = "Running" PROVE StopTask(out, t, TRUE).state[t] = "Stopping"
  <2>1. StopTask(out, t, TRUE).state = [out.state EXCEPT ![t] = "Stopping"]
    BY <1>3, StopTaskKept
  <2> QED
    BY <1>1, <1>3, <2>1
<1>9. OnStateTimeout(gr, t) =
        CASE gr.state[t] = "Backoff" -> ToIdle(out, t)
          [] gr.state[t] = "Stopping" /\ t \in gr.killed ->
               IF t \notin gr.startFailed THEN timedOut ELSE gone
          [] gr.state[t] = "Stopping" /\ t \notin gr.killed -> HardKill(out, t)
          [] gr.state[t] = "Running" /\ has_timeout(gr.ready[t]) -> StopTask(out, t, TRUE)
          [] OTHER -> out
  BY DEF OnStateTimeout, out
<1> HIDE DEF gone, timedOut
<1>10. CASE gr.state[t] = "Backoff"
  BY <1>5, <1>9, <1>10
<1>11. CASE gr.state[t] = "Stopping" /\ t \in gr.killed
  BY <1>6, <1>9, <1>11
<1>12. CASE gr.state[t] = "Stopping" /\ t \notin gr.killed
  BY <1>7, <1>9, <1>12
<1>13. CASE gr.state[t] = "Running" /\ has_timeout(gr.ready[t])
  BY <1>8, <1>9, <1>13
<1>14. CASE /\ gr.state[t] \notin {"Backoff", "Stopping"}
            /\ ~(gr.state[t] = "Running" /\ has_timeout(gr.ready[t]))
  <2>1. OnStateTimeout(gr, t) = out
    BY <1>9, <1>14
  <2> QED
    BY <1>4, <2>1
<1> QED
  BY <1>10, <1>11, <1>12, <1>13, <1>14

\* A drive moves the state of its task or does nothing.
LEMMA DriveTold ==
  ASSUME NEW gr, Sound(gr), NEW t \in gr.tasks
  PROVE  Told(gr, DriveTask(gr, t))
<1>1. t \in Task /\ gr.state \in [Task -> TaskState]
  BY DEF Sound, Graph
<1>2. ASSUME gr.state[t] = "Idle" PROVE Told(gr, StartTask(gr, t))
  <2>1. StartTask(gr, t).state[t] = "Starting"
    <3>1. StartTask(gr, t).state = [gr.state EXCEPT ![t] = "Starting"]
      BY StartTaskKept
    <3> QED
      BY <1>1, <3>1
  <2> QED
    BY <1>2, <2>1, MovedTold
<1>3. ASSUME gr.state[t] \in Up PROVE Told(gr, StopTask(gr, t, FALSE))
  <2>1. StopTask(gr, t, FALSE).state[t] = "Stopping"
    BY <1>1, StopTaskKept
  <2> QED
    BY <1>3, <2>1, MovedTold DEF Up
<1>4. ASSUME gr.state[t] = "Backoff" PROVE Told(gr, ToIdle(gr, t))
  <2>1. ToIdle(gr, t).state[t] = "Idle"
    <3>1. ToIdle(gr, t).state = [gr.state EXCEPT ![t] = "Idle"]
      BY ToIdleKept
    <3> QED
      BY <1>1, <3>1
  <2> QED
    BY <1>4, <2>1, MovedTold
<1> QED
  BY <1>2, <1>3, <1>4, SelfTold DEF DriveTask

\* Recomputing caches is not about runs.
LEMMA RecomputeTold ==
  ASSUME NEW gr, Sound(gr), NEW t \in gr.tasks
  PROVE  Onward(gr, RecomputeCaches(gr, t))
<1> DEFINE now == ComputeWanted(gr, t)
           want == IF now THEN gr.wanted \cup {t} ELSE gr.wanted \ {t}
           wp == Bump(gr.wantedParents, Deps(gr, t), IF now THEN 1 ELSE -1)
           k == [gr EXCEPT !.wanted = want, !.wantedParents = wp]
           g1 == IF now = (t \in gr.wanted) THEN gr ELSE Enqueue(k, Deps(gr, t))
           sup == IF ComputeSupported(g1, t) THEN g1.supported \cup {t}
                  ELSE g1.supported \ {t}
           m == [g1 EXCEPT !.supported = sup]
<1>1. gr \in Graph
  BY DEF Sound
<1>2. RecomputeCaches(gr, t) \in {g1, Enqueue(m, Dependents(gr, t))}
  BY DEF RecomputeCaches
<1> HIDE DEF want, wp
<1>3. Terms(gr, Enqueue(k, Deps(gr, t))) /\ DOMAIN Enqueue(k, Deps(gr, t)) = DOMAIN gr
  BY <1>1 DEF Graph, Enqueue, Terms
<1> HIDE DEF k
<1>4. Terms(gr, g1) /\ DOMAIN g1 = DOMAIN gr
  BY <1>3 DEF Terms
<1>5. {"kind", "restart", "dirty", "supported"} \subseteq DOMAIN gr
  BY <1>1 DEF Graph
<1> HIDE DEF g1, sup
<1>6. Terms(g1, m) /\ DOMAIN m = DOMAIN gr
  BY <1>4, <1>5 DEF Terms
<1> HIDE DEF m
<1>7. Terms(m, Enqueue(m, Dependents(gr, t)))
  BY <1>5, <1>6 DEF Enqueue, Terms
<1>8. Terms(gr, RecomputeCaches(gr, t))
  BY <1>2, <1>4, <1>6, <1>7 DEF Terms
<1> QED
  BY <1>8, RecomputeRuns, SameOnward

-----------------------------------------------------------------------------
(* A step that does not raise the flag moves no standing *)

\* Every verb takes runs on, or removes its task.
LEMMA ActTold ==
  ASSUME NEW gr, Sound(gr), NEW t \in gr.tasks, NEW verb \in Verb
  PROVE  Told(gr, Act(verb, gr, t))
<1>1. gr \in Graph /\ Act(verb, gr, t) \in Graph
  BY ActSound DEF Sound
<1>2. CASE verb = "Remove"
  <2>1. RemoveTask(gr, t).tasks # gr.tasks
    BY RemoveTaskSound
  <2> QED
    BY <1>2, <2>1 DEF Act, Told
<1>3. CASE verb # "Remove"
  <2>1. Onward(gr, SetPin(gr, t, FALSE))
    BY PinOnward
  <2>2. Act(verb, gr, t) \in
          {CmdUp(gr, t), CmdStart(gr, t), CmdRestart(gr, t), CmdStart(CmdKill(gr, t), t),
           CmdStop(gr, t), CmdKill(gr, t), CmdVeto(gr, t), SetPin(gr, t, FALSE)}
    BY <1>3 DEF Act, Verb
  <2>3. Onward(gr, Act(verb, gr, t))
    BY <2>1, <2>2, VerbsOnward
  <2> QED
    BY <1>1, <2>3, OnwardTold
<1> QED
  BY <1>2, <1>3

\* No step but an update's is left untold.
LEMMA StepTold ==
  ASSUME IInv, GraphStep, ~(pc = "dispatch" /\ apply.verb = "Update")
  PROVE  Told(g, g')
<1>1. Sound(g) /\ g \in Graph /\ g.tasks \subseteq Task
  BY DEF IInv, Sound, Graph
<1>2. g' \in Graph
  <2>1. [Next]_vars
    BY DEF GraphStep, Next, Turn
  <2> QED
    BY <2>1, NextIInv DEF IInv, Sound
<1>3. Told(g, g)
  BY SelfTold
<1>4. ASSUME NEW t \in fresh, NEW def \in Def[t], RecvRegister(t, def) PROVE Told(g, g')
  <2>1. t \in Task \ g.tasks /\ def \in TaskDef
    BY KernelAssumption DEF IInv, TypeOK
  <2>2. Register(g, t, def).tasks = g.tasks \cup {t}
    BY <1>1, <2>1, RegisterSound
  <2>3. Told(g, Register(g, t, def))
    BY <2>1, <2>2 DEF Told
  <2> QED
    BY <1>3, <1>4, <2>3 DEF RecvRegister
<1>5. CASE RecvQuit
  <2> DEFINE k == [g EXCEPT !.quitting = TRUE]
  <2>1. Onward(g, Enqueue(k, g.tasks))
    BY <1>1 DEF Graph, Enqueue, Onward, Terms
  <2>2. g' = g \/ g' = Enqueue(k, g.tasks)
    BY <1>5 DEF RecvQuit
  <2> QED
    BY <1>1, <1>2, <1>3, <2>1, <2>2, OnwardTold
<1>6. ASSUME NEW t \in Task, NEW report \in Report, RecvReport(t, report) PROVE Told(g, g')
  <2>1. g' \in {OnTaskStarted(g, t), OnTaskReady(g, t), OnTaskStopped(g, t, "ok"),
                OnTaskStopped(g, t, "err")}
    BY <1>6 DEF RecvReport, Report
  <2> QED
    BY <1>1, <2>1, ReportsTold
<1>7. ASSUME NEW t \in Task, RecvTimeout(t) PROVE Told(g, g')
  <2>1. t \in g.tasks /\ g' = OnStateTimeout(g, t)
    BY <1>7 DEF RecvTimeout
  <2>2. g'.state # g.state \/ Onward(g, g')
    BY <1>1, <2>1, OnStateTimeoutTold
  <2>3. CASE Onward(g, g')
    BY <1>1, <1>2, <2>3, OnwardTold
  <2> QED
    BY <2>2, <2>3 DEF Told
<1>8. ASSUME NEW t \in Mortal, HandlerEnds(t) PROVE Told(g, g')
  <2>1. g' = [g EXCEPT !.dead = @ \cup {t}]
    BY <1>8 DEF HandlerEnds
  <2>2. Onward(g, g')
    BY <1>1, <2>1 DEF Graph, Onward, Terms
  <2> QED
    BY <1>1, <1>2, <2>2, OnwardTold
<1>9. ASSUME NEW t \in Task, ActOn(t) PROVE Told(g, g')
  <2>1. apply.verb \in Verb
    BY <1>9 DEF IInv, Work, ActOn
  <2>2. t \in g.tasks /\ g' = Act(apply.verb, g, t)
    BY <1>9 DEF IInv, ActOn
  <2> QED
    BY <1>1, <2>1, <2>2, ActTold
<1>10. ASSUME NEW t \in Task, ApplyEffect(t) PROVE Told(g, g')
  <2> DEFINE k == [g EXCEPT !.effects = @ \ {t}]
  <2>1. /\ k \in Graph /\ SameCore(g, k) /\ k.dirty = g.dirty /\ k.savedPin = g.savedPin
        /\ Terms(g, k) /\ k.exit = g.exit /\ k.startFailed = g.startFailed
        /\ k.stopTimedOut = g.stopTimedOut
    BY <1>1 DEF Graph, SameCore, Terms
  <2>2. g' = OnTaskStopped(k, t, "err")
    BY <1>10 DEF ApplyEffect
  <2> HIDE DEF k
  <2>3. Sound(k)
    BY <1>1, <2>1, FlagsKept DEF Keeps
  <2>4. Told(k, g')
    BY <2>2, <2>3, ReportsTold
  <2> QED
    BY <2>1, <2>4 DEF Told, Terms, SameCore
<1>11. ASSUME NEW t \in Task, Recompute(t) PROVE Told(g, g')
  <2> DEFINE k == [g EXCEPT !.dirty = @ \ {t}]
  <2>1. /\ k \in Graph /\ SameCore(g, k) /\ k.dirty \subseteq g.tasks
        /\ k.savedPin \subseteq g.tasks
        /\ Onward(g, k)
    BY <1>1 DEF Graph, SameCore, Terms, Onward, Sound, Closed, Clean
  <2>2. g' = RecomputeCaches(k, t) /\ t \in g.tasks
    BY <1>1, <1>11 DEF Recompute, Sound, Closed
  <2> HIDE DEF k
  <2>3. Sound(k) /\ t \in k.tasks
    BY <1>1, <2>1, <2>2, SameCoreSound DEF SameCore
  <2>4. Onward(k, g')
    BY <2>2, <2>3, RecomputeTold
  <2>5. Onward(g, g')
    BY <2>1, <2>4, OnwardTwice
  <2> QED
    BY <1>1, <1>2, <2>5, OnwardTold
<1>12. ASSUME NEW t \in Task, Drive(t) PROVE Told(g, g')
  <2>1. t \in g.tasks /\ g' = DriveTask(g, t)
    BY <1>12 DEF IInv, Drive
  <2> QED
    BY <1>1, <2>1, DriveTold
<1>13. ASSUME g' = g PROVE Told(g, g')
  BY <1>3, <1>13
<1>14. \A verb \in VerbSet, S \in Selection : RecvAct(verb, S) => g' = g
  BY DEF RecvAct
<1>15. \A S \in Selection : \A def \in UNION {Def[t] : t \in S} : RecvUpdate(S, def) => g' = g
  BY DEF RecvUpdate
<1> QED
  BY <1>4, <1>5, <1>6, <1>7, <1>8, <1>9, <1>10, <1>11, <1>12, <1>13, <1>14, <1>15
  DEF GraphStep, Message

\* Where all that a standing is computed from is the same, so is the standing.
LEMMA StandingSame ==
  ASSUME NEW gr, NEW h,
         h.tasks = gr.tasks, h.edges = gr.edges, h.state = gr.state, h.wanted = gr.wanted,
         h.kind = gr.kind, h.restart = gr.restart, h.exit = gr.exit,
         h.startFailed = gr.startFailed, h.stopTimedOut = gr.stopTimedOut
  PROVE  /\ \A cond, t : Standing(h, cond, t) = Standing(gr, cond, t)
         /\ AnyActive(h) <=> AnyActive(gr)
<1>1. /\ \A t : Satisfied(h, t) <=> Satisfied(gr, t)
      /\ \A t : Active(h, t) <=> Active(gr, t)
      /\ \A t : HasEnded(h, t) <=> HasEnded(gr, t)
      /\ \A t : EndedBadly(h, t) <=> EndedBadly(gr, t)
      /\ \A t : Deps(h, t) = Deps(gr, t)
  BY DEF Satisfied, Active, HasEnded, EndedBadly, Deps
<1>2. \A t : IsLive(h, t) <=> IsLive(gr, t)
  BY <1>1 DEF IsLive
<1>3. AnyActive(h) <=> AnyActive(gr)
  BY <1>1 DEF AnyActive
<1>4. ASSUME NEW cond, NEW t PROVE Standing(h, cond, t) = Standing(gr, cond, t)
  BY <1>1, <1>2 DEF Standing
<1> QED
  BY <1>3, <1>4

-----------------------------------------------------------------------------
(* What is known of the wait and the watch at every step *)

\* What a client may wait for.
WaitCond == {"Ready", "Exit", "Down"}

\* The wait is none or a record that begin_wait made and advance_wait kept.
AWait ==
  \/ wait = NoWait
  \/ \E cond \in WaitCond, ids \in SUBSET Task, begun \in BOOLEAN : \E last, verdict :
       wait = [cond |-> cond, ids |-> ids, begun |-> begun, last |-> last,
               verdict |-> verdict]

\* Of each task the wait last told where it stands, and of one that it is pending.
Heed ==
  Open(wait) /\ wait.begun =>
    \E t \in wait.ids : wait.last[t].standing.mark = "Pending"

\* As long as the flag is down, what was last told is true.
Fresh ==
  ~changed =>
    /\ Open(wait) /\ wait.begun => \A t \in wait.ids : wait.last[t] = Heard(g, wait, t)
    /\ watch <=> AnyActive(g)

\* The loop takes a message only with the flag down and the wait begun.
LookedAt == pc = "recv" => ~changed /\ (Open(wait) => wait.begun)

\* What holds of the waits.
WInv ==
  /\ changed \in BOOLEAN /\ watch \in BOOLEAN
  /\ AWait
  /\ Heed
  /\ Fresh
  /\ LookedAt

\* All of it, with what holds of the graph and of the reconciler.
WholeInv == IInv /\ RInv /\ WInv

\* Before the first step no wait is open and no task is active.
LEMMA InitWholeInv == WInit => WholeInv
<1> SUFFICES ASSUME WInit PROVE WholeInv
  OBVIOUS
<1>1. IInv /\ RInv
  BY InitIInv, InitRInv DEF WInit
<1>2. ~Open(wait)
  BY DEF WInit, Open
<1>3. ~AnyActive(g)
  BY DEF WInit, Init, EmptyGraph, AnyActive
<1> QED
  BY <1>1, <1>2, <1>3 DEF WholeInv, WInv, WInit, AWait, Heed, Fresh, LookedAt

\* A step of the waits is a step of the kernel, or a wait that begins.
LEMMA StepOfKernel ==
  ASSUME WNext
  PROVE  \/ [Next]_vars
         \/ /\ pc = "recv" /\ pc' = "settle" /\ cmds > 0 /\ cmds' = cmds - 1
            /\ UNCHANGED <<g, todo, apply, toDrive, fresh>>
<1>1. GraphStep => Next
  BY DEF GraphStep, Next, Turn
<1>2. Settled => Next
  BY DEF Next, Turn
<1>3. \A cond, S : RecvWait(cond, S) =>
        /\ pc = "recv" /\ pc' = "settle" /\ cmds > 0 /\ cmds' = cmds - 1
        /\ UNCHANGED <<g, todo, apply, toDrive, fresh>>
  BY DEF RecvWait, UserCommand
<1>4. \A verb \in VerbSet, S \in Selection : RecvWaitAct(verb, S) => Next
  BY DEF RecvWaitAct, Next, Message
<1>5. CarryWait =>
        /\ pc = "recv" /\ pc' = "settle" /\ cmds > 0 /\ cmds' = cmds - 1
        /\ UNCHANGED <<g, todo, apply, toDrive, fresh>>
  BY DEF CarryWait, UserCommand
<1>6. Stand => Next
  BY DEF Next
<1> QED
  BY <1>1, <1>2, <1>3, <1>4, <1>5, <1>6 DEF WNext

\* So it keeps what holds of the kernel.
LEMMA StepKernelInv ==
  ASSUME IInv, RInv, [WNext]_wvars
  PROVE  IInv' /\ RInv'
<1>1. CASE [Next]_vars
  BY <1>1, NextIInv, NextRInv
<1>2. CASE /\ pc = "recv" /\ pc' = "settle" /\ cmds > 0 /\ cmds' = cmds - 1
           /\ UNCHANGED <<g, todo, apply, toDrive, fresh>>
  <2>1. TypeOK'
    <3>1. cmds' \in 0 .. MaxCmds
      BY <1>2, KernelAssumption DEF IInv, TypeOK
    <3> QED
      BY <1>2, <3>1 DEF IInv, TypeOK
  <2>2. IInv'
    BY <1>2, <2>1 DEF IInv
  <2>3. RInv'
    BY <1>2 DEF RInv, Checked, Round
  <2> QED
    BY <2>2, <2>3
<1> QED
  BY <1>1, <1>2, StepOfKernel DEF wvars, vars

\* What a client heard stays what it would hear where no standing moved.
LEMMA HeardSame ==
  ASSUME NEW gr, NEW h, h.tasks = gr.tasks, h.state = gr.state,
         \A cond, t : Standing(h, cond, t) = Standing(gr, cond, t), NEW w, NEW t
  PROVE  Heard(h, w, t) = Heard(gr, w, t)
BY DEF Heard

\* An operation on the graph raises the flag, or leaves true what was told.
LEMMA GraphStepFresh ==
  ASSUME WholeInv, GraphStep
  PROVE  WInv'
<1>1. changed' = (changed \/ Raises) /\ wait' = wait /\ watch' = watch
  BY DEF GraphStep
<1>2. AWait' /\ Heed' /\ changed' \in BOOLEAN /\ watch' \in BOOLEAN
  BY <1>1 DEF WholeInv, WInv, AWait, Heed
<1>3. ASSUME ~changed' PROVE ~changed /\ ~Raises
  BY <1>1, <1>3 DEF WholeInv, WInv
<1>4. ASSUME ~Raises
      PROVE  /\ g'.tasks = g.tasks /\ g'.state = g.state
             /\ \A cond, t : Standing(g', cond, t) = Standing(g, cond, t)
             /\ AnyActive(g') <=> AnyActive(g)
  <2>1. Told(g, g')
    BY <1>4, StepTold DEF Raises, WholeInv
  <2> QED
    BY <1>4, <2>1, StandingSame DEF Raises, Told, Terms
<1>5. Fresh'
  <2> SUFFICES ASSUME ~changed'
               PROVE  /\ Open(wait) /\ wait.begun =>
                           \A t \in wait.ids : wait.last[t] = Heard(g', wait, t)
                      /\ watch <=> AnyActive(g')
    BY <1>1 DEF Fresh
  <2>1. ~changed /\ ~Raises
    BY <1>3
  <2>2. \A t : Heard(g', wait, t) = Heard(g, wait, t)
    BY <1>4, <2>1, HeardSame
  <2> QED
    BY <1>4, <2>1, <2>2 DEF WholeInv, WInv, Fresh
<1>6. LookedAt'
  <2>1. CASE pc' # "recv"
    BY <2>1 DEF LookedAt
  <2>2. CASE \E t \in Mortal : HandlerEnds(t)
    <3>1. pc' = pc
      BY <2>2 DEF HandlerEnds
    <3>2. pc = "recv" => ~Raises
      <4>1. PICK t \in Mortal : g' = [g EXCEPT !.dead = @ \cup {t}]
        BY <2>2 DEF HandlerEnds
      <4>2. g \in Graph
        BY DEF WholeInv, IInv, Sound
      <4>3. /\ g'.tasks = g.tasks /\ g'.state = g.state /\ g'.edges = g.edges
            /\ g'.wanted = g.wanted /\ g'.startFailed = g.startFailed
            /\ g'.stopTimedOut = g.stopTimedOut
        BY <4>1, <4>2 DEF Graph
      <4> QED
        BY <4>3 DEF Raises
    <3> QED
      BY <1>1, <3>1, <3>2 DEF WholeInv, WInv, LookedAt
  <2>3. CASE Message
    <3>1. pc' # "recv"
      BY <2>3 DEF Message, RecvRegister, RecvAct, RecvUpdate, RecvQuit, RecvReport,
                  RecvTimeout, BeginDispatch
    <3> QED
      BY <3>1 DEF LookedAt
  <2>4. ASSUME NEW t \in Task, ActOn(t) \/ ApplyEffect(t) \/ Recompute(t) \/ Drive(t)
        PROVE  pc' # "recv"
    BY <2>4 DEF ActOn, BeginDispatch, ApplyEffect, Recompute, Drive
  <2> QED
    BY <2>1, <2>2, <2>3, <2>4 DEF GraphStep
<1> QED
  BY <1>2, <1>5, <1>6 DEF WInv

\* A wait that has just begun: nothing was told yet.
LEMMA BeganFresh ==
  ASSUME WholeInv, NEW cond \in WaitCond, NEW ids \in SUBSET Task,
         wait' = NewWait(cond, ids), g' = g, changed' = changed, watch' = watch, pc' # "recv"
  PROVE  WInv'
<1>1. wait' = [cond |-> cond, ids |-> ids, begun |-> FALSE, last |-> <<>>, verdict |-> "open"]
  BY DEF NewWait
<1>2. AWait'
  BY <1>1 DEF AWait
<1>3. ~wait'.begun
  BY <1>1
<1> QED
  BY <1>2, <1>3 DEF WholeInv, WInv, Heed, Fresh, LookedAt

\* After a look at the graph what was told is true.
LEMMA CheckedFresh ==
  ASSUME WholeInv, CheckWaits, g' = g
  PROVE  WInv'
<1>1. ~changed' /\ changed' \in BOOLEAN
  BY DEF CheckWaits
<1>2. watch' \in BOOLEAN /\ (watch' <=> AnyActive(g'))
  <2>1. AnyActive(g) \in BOOLEAN
    BY DEF AnyActive
  <2> QED
    BY <2>1 DEF CheckWaits, WholeInv, WInv, Fresh
<1>3. CASE ~(Open(wait) /\ (changed \/ ~wait.begun))
  <2>1. wait' = wait
    BY <1>3 DEF CheckWaits
  <2>2. Open(wait) => ~changed /\ wait.begun
    BY <1>3
  <2> QED
    BY <1>1, <1>2, <2>1, <2>2 DEF WholeInv, WInv, AWait, Heed, Fresh, LookedAt
<1>4. CASE Open(wait) /\ (changed \/ ~wait.begun)
  <2>1. PICK cond \in WaitCond, ids \in SUBSET Task, begun \in BOOLEAN :
          \E last, verdict :
            wait = [cond |-> cond, ids |-> ids, begun |-> begun, last |-> last,
                    verdict |-> verdict]
    BY <1>4 DEF WholeInv, WInv, AWait, Open
  <2>10. PICK last, verdict :
           wait = [cond |-> cond, ids |-> ids, begun |-> begun, last |-> last,
                   verdict |-> verdict]
    BY <2>1
  <2> DEFINE heard == [t \in ids |-> Heard(g, wait, t)]
             now == Verdict(cond, {heard[t].standing.mark : t \in ids})
  <2>2. wait' = [wait EXCEPT !.begun = TRUE, !.last = heard, !.verdict = now]
    BY <1>4, <2>10 DEF CheckWaits, AdvanceWait
  <2> HIDE DEF now
  <2>3. wait' = [cond |-> cond, ids |-> ids, begun |-> TRUE, last |-> heard, verdict |-> now]
    BY <2>10, <2>2
  <2>4. AWait'
    BY <2>3 DEF AWait
  <2>5. \A t \in ids : heard[t] = Heard(g, wait, t)
    OBVIOUS
  <2>6. \A t \in ids : Heard(g, wait', t) = Heard(g, wait, t)
    <3>1. ASSUME NEW t \in ids PROVE Heard(g, wait', t).standing = Heard(g, wait, t).standing
      BY <2>10, <2>3 DEF Heard
    <3>2. ASSUME NEW t \in ids PROVE Heard(g, wait', t).state = Heard(g, wait, t).state
      <4>1. CASE t \in g.tasks
        BY <4>1 DEF Heard
      <4>2. CASE t \notin g.tasks
        <5>1. t \in DOMAIN wait'.last /\ wait'.last[t] = Heard(g, wait, t)
          BY <2>3, <2>5
        <5> QED
          BY <4>2, <5>1 DEF Heard
      <4> QED
        BY <4>1, <4>2
    <3> QED
      BY <3>1, <3>2 DEF Heard
  <2>7. Fresh'
    <3>1. \A t \in ids : wait'.last[t] = Heard(g, wait', t)
      BY <2>3, <2>5, <2>6
    <3> QED
      BY <1>2, <2>3, <3>1 DEF Fresh
  <2>8. Heed'
    <3>1. now = "open" => "Pending" \in {heard[t].standing.mark : t \in ids}
      BY DEF now, Verdict
    <3> QED
      BY <2>3, <3>1 DEF Heed, Open
  <2>9. LookedAt'
    BY <1>1, <2>3 DEF LookedAt
  <2> QED
    BY <1>1, <1>2, <2>4, <2>7, <2>8, <2>9 DEF WInv
<1> QED
  BY <1>3, <1>4

\* Every step keeps it: one on the graph, a look at it, a wait that begins or is carried
\* over an upgrade.
LEMMA NextWholeInv == WholeInv /\ [WNext]_wvars => WholeInv'
<1> SUFFICES ASSUME WholeInv, [WNext]_wvars PROVE WholeInv'
  OBVIOUS
<1>0. IInv' /\ RInv'
  BY StepKernelInv DEF WholeInv
<1>1. g.tasks \subseteq Task /\ todo \subseteq g.tasks /\ todo' \subseteq g'.tasks
      /\ g'.tasks \subseteq Task
  BY <1>0 DEF WholeInv, IInv, Sound, Graph
<1>2. CASE GraphStep
  BY <1>2, GraphStepFresh, <1>0 DEF WholeInv
<1>3. CASE Settled /\ CheckWaits
  BY <1>0, <1>3, CheckedFresh DEF WholeInv, Settled
<1>4. ASSUME NEW S \in Selection, NEW cond \in WaitConds, RecvWait(cond, S)
      PROVE  WInv'
  <2>1. cond \in WaitCond
    BY WaitAssumption DEF WaitCond
  <2> DEFINE ids == S \cap g.tasks
             those == IF cond = "Ready" /\ ids \cap g.wanted # {} THEN ids \cap g.wanted ELSE ids
  <2>2. wait' = NewWait(cond, those)
    BY <1>4 DEF RecvWait
  <2>3. those \in SUBSET Task
    BY <1>1
  <2> HIDE DEF those
  <2>4. g' = g /\ changed' = changed /\ watch' = watch /\ pc' # "recv"
    BY <1>4 DEF RecvWait
  <2> QED
    BY <2>1, <2>2, <2>3, <2>4, BeganFresh
<1>5. ASSUME NEW verb \in VerbSet, NEW S \in Selection, RecvWaitAct(verb, S)
      PROVE  WInv'
  <2> DEFINE cond == IF verb \in {"Stop", "Kill", "Veto"} THEN "Down" ELSE "Ready"
  <2>1. wait' = NewWait(cond, todo') /\ changed' = changed /\ watch' = watch
    BY <1>5 DEF RecvWaitAct
  <2>2. cond \in WaitCond
    BY DEF WaitCond
  <2>3. g' = g /\ pc' # "recv"
    BY <1>5 DEF RecvWaitAct, RecvAct, BeginDispatch
  <2>4. todo' \in SUBSET Task
    BY <1>1
  <2> HIDE DEF cond
  <2> QED
    BY <2>1, <2>2, <2>3, <2>4, BeganFresh
<1>6. CASE CarryWait
  <2> DEFINE those == {t \in wait.ids : ~wait.last[t].standing.removed}
  <2>1. /\ wait' = NewWait(wait.cond, those) /\ Open(wait)
        /\ g' = g /\ changed' = changed /\ watch' = watch /\ pc' # "recv"
    BY <1>6 DEF CarryWait
  <2>2. wait.cond \in WaitCond /\ wait.ids \in SUBSET Task
    BY <2>1 DEF WholeInv, WInv, AWait, Open
  <2>3. those \in SUBSET Task
    BY <2>2
  <2> HIDE DEF those
  <2> QED
    BY <1>0, <2>1, <2>2, <2>3, BeganFresh DEF WholeInv
<1>7. CASE UNCHANGED wvars
  BY <1>0, <1>7 DEF WholeInv, WInv, AWait, Heed, Fresh, LookedAt, wvars, vars
<1>8. CASE Stand /\ UNCHANGED <<changed, wait, watch>>
  BY <1>7, <1>8 DEF Stand, wvars
<1> QED
  BY <1>0, <1>2, <1>3, <1>4, <1>5, <1>6, <1>7, <1>8 DEF WNext, WholeInv

\* So it holds throughout.
LEMMA WholeInvariance == WSpec => []WholeInv
<1>1. WholeInv /\ [WNext]_wvars => WholeInv'
  BY NextWholeInv
<1> QED
  BY <1>1, InitWholeInv, PTL DEF WSpec

\* No client is left with what is no longer so: whenever the kernel waits for a message,
\* an open wait has last told, of each of its tasks, where that task stands by the graph
\* as it is (wait_standing, check_waits), and the watch whether any task is active, one
\* that waits to be restarted counted (any_active).  The flag state_changed, which the
\* operations raise one by one, misses no change.
THEOREM ClientsHearAll == WSpec => []HeardIsCurrent
<1>1. AnyActive(g) \in BOOLEAN
  BY DEF AnyActive
<1>2. WholeInv => HeardIsCurrent
  BY <1>1 DEF WholeInv, WInv, Fresh, LookedAt, HeardIsCurrent
<1> QED
  BY <1>2, WholeInvariance, PTL

-----------------------------------------------------------------------------
(* What an open wait is on *)

\* Whenever the loop takes a message: what each task's cache says of its deps, and where
\* that puts it.
LEMMA AtRest ==
  ASSUME IInv, RInv, pc = "recv"
  PROVE  /\ g \in Graph /\ Sound(g) /\ Loopless(g)
         /\ g.supported \subseteq g.tasks
         /\ OracleSupported = g.supported
         /\ \A t \in g.tasks :
              /\ t \in g.supported <=>
                   t \in g.wanted /\ \A d \in Deps(g, t) : d \in g.supported /\ Satisfied(g, d)
              /\ t \in g.supported => g.state[t] # "Idle"
              /\ t \notin g.supported /\ g.state[t] \in Up => ActiveDependents(g, t) # {}
<1>1. /\ g \in Graph /\ Sound(g) /\ Loopless(g) /\ Tracked(g) /\ g.dirty = {}
      /\ toDrive = {}
  BY DEF IInv, RInv, Base, Sound
<1>2. OracleSupported = g.supported
  BY <1>1, SupportedRight, Oracles
<1>3. ASSUME NEW t \in g.tasks
      PROVE  /\ t \in g.supported <=> ComputeSupported(g, t)
             /\ Driven(g, t)
  BY <1>1, <1>3 DEF Tracked, Current, RInv, Base
<1>4. ASSUME NEW t \in g.tasks, ActiveDependents(g, t) = {}
      PROVE  g.activeDependents[t] = 0
  BY <1>1, <1>4, FS_EmptySet DEF Sound, Counted, Graph
<1> QED
  BY <1>1, <1>2, <1>3, <1>4 DEF Tracked, ComputeSupported, Driven

\* A task that is live is on something: it or one it needs runs, stops or waits to be
\* restarted, or is done while what it needs is gone.
LEMMA LiveEnds ==
  ASSUME IInv, RInv, pc = "recv", NEW t \in g.tasks, IsLive(g, t)
  PROVE  \E u \in Closure(g, t) :
           Active(g, u) \/ g.state[u] = "Backoff" \/ Outlives(u)
<1> SUFFICES ASSUME \A u \in Closure(g, t) :
                      ~Active(g, u) /\ g.state[u] # "Backoff" /\ ~Outlives(u)
             PROVE  FALSE
  OBVIOUS
<1>1. /\ g \in Graph /\ Sound(g) /\ Loopless(g) /\ g.tasks \subseteq Task
      /\ g.state \in [Task -> TaskState] /\ OracleSupported = g.supported
  BY AtRest DEF Graph
<1>2. PICK S \in SUBSET g.tasks :
        /\ t \in S
        /\ \A u \in S : /\ u \in g.wanted
                        /\ ~HasEnded(g, u)
                        /\ \A d \in Deps(g, u) : Satisfied(g, d) \/ d \in S
  BY DEF IsLive
<1> DEFINE B == S \cap Closure(g, t)
<1>3. /\ B \in SUBSET Task /\ t \in B
      /\ \A a \in Closure(g, t), b \in Task : <<a, b>> \in g.edges => b \in Closure(g, t)
  BY <1>1, <1>2, ClosureFacts
<1>4. ASSUME NEW u \in B PROVE \E d \in B : d \in Deps(g, u)
  <2>1. u \in g.tasks /\ u \in g.wanted /\ ~HasEnded(g, u) /\ u \in Task
    BY <1>1, <1>2
  <2>2. g.state[u] \notin {"Exited", "Done"}
    BY <2>1 DEF HasEnded, has_ended
  <2>3. g.state[u] = "Idle"
    BY <1>1, <2>1, <2>2 DEF Active, is_active, TaskState, Ended
  <2>4. u \notin g.supported
    BY <2>1, <2>3, AtRest
  <2>5. PICK d \in Deps(g, u) : ~(d \in g.supported /\ Satisfied(g, d))
    BY <2>1, <2>4, AtRest
  <2>6. d \in Closure(g, t)
    BY <1>3, <2>5 DEF Deps
  <2>7. d \in S
    <3> SUFFICES ASSUME d \notin S PROVE FALSE
      OBVIOUS
    <3>1. Satisfied(g, d) /\ d \notin g.supported
      BY <1>2, <2>5
    <3>2. g.state[d] = "Done"
      BY <2>6, <3>1 DEF Satisfied, is_satisfied, Active, is_active, Up
    <3> QED
      BY <1>1, <2>6, <3>1, <3>2 DEF Outlives
  <2> QED
    BY <2>5, <2>6, <2>7
<1> HIDE DEF B
<1>5. \E u \in B : \A d \in B : d \notin Deps(g, u)
  BY <1>1, <1>3, FirstAndLast
<1> QED
  BY <1>4, <1>5

\* A task that is active and not live has a stop under way, its own or one of a task
\* that needs it.
LEMMA DownEnds ==
  ASSUME IInv, RInv, pc = "recv", NEW t \in g.tasks, Active(g, t), ~IsLive(g, t)
  PROVE  \E u \in g.tasks : g.state[u] = "Stopping" /\ t \in Closure(g, u)
<1> SUFFICES ASSUME \A u \in g.tasks : t \in Closure(g, u) => g.state[u] # "Stopping"
             PROVE  FALSE
  OBVIOUS
<1>1. /\ g \in Graph /\ Sound(g) /\ Loopless(g) /\ g.tasks \subseteq Task
  BY AtRest DEF Graph
<1>2. t \in Closure(g, t) /\ t \in Task
  BY <1>1, ClosureFacts
<1>3. g.state[t] \in Up
  BY <1>2 DEF Active, is_active
<1>4. t \notin g.supported
  <2> SUFFICES ASSUME t \in g.supported PROVE FALSE
    OBVIOUS
  <2>1. t \in g.wanted /\ \A d \in Deps(g, t) : Satisfied(g, d)
    BY AtRest
  <2>2. ~HasEnded(g, t)
    BY <1>3 DEF HasEnded, has_ended, Up
  <2>3. {t} \in SUBSET g.tasks
    OBVIOUS
  <2>4. IsLive(g, t)
    BY <2>1, <2>2, <2>3 DEF IsLive
  <2> QED
    BY <2>4
<1> DEFINE B == {u \in g.tasks : /\ t \in Closure(g, u)
                                 /\ g.state[u] \in Up
                                 /\ u \notin g.supported}
<1>5. B \in SUBSET Task /\ t \in B
  BY <1>1, <1>2, <1>3, <1>4
<1>6. ASSUME NEW u \in B PROVE \E p \in B : u \in Deps(g, p)
  <2>1. ActiveDependents(g, u) # {}
    BY AtRest
  <2>2. PICK p \in Task : <<p, u>> \in g.edges /\ Active(g, p)
    BY <2>1 DEF ActiveDependents, Dependents
  <2>3. u \in Deps(g, p) /\ u \in Task
    BY <1>1, <2>2 DEF Deps
  <2>4. p \in g.tasks
    BY <1>1, <2>2 DEF Sound, Clean
  <2>5. t \in Closure(g, p)
    <3>1. u \in Closure(g, p)
      BY <1>1, <2>2, <2>3, ClosureFacts
    <3> QED
      BY <1>1, <3>1, ClosureOfDep
  <2>6. g.state[p] \in Up
    BY <2>2, <2>4, <2>5 DEF Active, is_active
  <2>7. p \notin g.supported
    BY <2>3, <2>4, AtRest
  <2> QED
    BY <2>3, <2>4, <2>5, <2>6, <2>7
<1> HIDE DEF B
<1>7. \E u \in B : \A p \in B : u \notin Deps(g, p)
  BY <1>1, <1>5, FirstAndLast
<1> QED
  BY <1>6, <1>7

\* An open wait is on something that happens without anyone acting, unless what it is on
\* needs a job that is done and has outlived what it needs: for all else is_live, which
\* knows only what is wanted and satisfied, agrees with the reconciler, which looks at
\* counters and caches.
THEOREM OpenWaitsCanEnd == WSpec => []PendingCanEnd
<1>1. WholeInv => PendingCanEnd
  <2> SUFFICES ASSUME WholeInv, pc = "recv", Open(wait)
               PROVE  \E t \in wait.ids \cap g.tasks :
                        \/ CanEnd(wait.cond, t)
                        \/ wait.cond # "Down" /\ \E u \in Closure(g, t) : Outlives(u)
    BY DEF PendingCanEnd
  <2>0. IInv /\ RInv /\ g \in Graph /\ g.tasks \subseteq Task
    BY DEF WholeInv, IInv, Sound, Graph
  <2>1. PICK t \in wait.ids : Heard(g, wait, t).standing.mark = "Pending"
    BY DEF WholeInv, WInv, LookedAt, Heed, Fresh
  <2>2. wait.cond \in WaitCond
    BY DEF WholeInv, WInv, AWait, Open
  <2>3. Standing(g, wait.cond, t).mark = "Pending"
    BY <2>1 DEF Heard
  <2>4. t \in g.tasks
    BY <2>3 DEF Standing
  <2>5. CASE wait.cond = "Down"
    <3>1. Active(g, t) /\ ~IsLive(g, t)
      BY <2>3, <2>4, <2>5 DEF Standing
    <3>2. \E u \in g.tasks : g.state[u] = "Stopping" /\ t \in Closure(g, u)
      BY <2>0, <2>4, <3>1, DownEnds
    <3> QED
      BY <2>4, <2>5, <3>2 DEF CanEnd
  <2>6. CASE wait.cond # "Down"
    <3>1. Active(g, t) \/ IsLive(g, t)
      BY <2>2, <2>3, <2>4, <2>6 DEF Standing, WaitCond
    <3>2. t \in Closure(g, t)
      BY <2>0, <2>4, ClosureFacts
    <3>3. \E u \in Closure(g, t) : Active(g, u) \/ g.state[u] = "Backoff" \/ Outlives(u)
      BY <2>0, <2>4, <3>1, <3>2, LiveEnds
    <3> QED
      BY <2>4, <2>6, <3>3 DEF CanEnd
  <2> QED
    BY <2>5, <2>6
<1> QED
  BY <1>1, WholeInvariance, PTL
=============================================================================
