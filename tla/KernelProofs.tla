---------------------------- MODULE KernelProofs ----------------------------
(***************************************************************************)
(* Theorems on Kernel, for every set of tasks, every definition and every  *)
(* sequence of commands, checked by TLAPS: first the graph and the         *)
(* counters kept on it, then where each run is, then the reconciler, whose *)
(* caches are what the whole graph says and which leaves every task where  *)
(* it should be.                                                           *)
(***************************************************************************)
EXTENDS KernelProperties, FiniteSetTheorems, TLAPS

\* What is known of a task that is not registered: nothing.
Clean(gr) ==
  /\ gr.wanted \subseteq gr.tasks
  /\ gr.savedPin \subseteq gr.tasks
  /\ \A t \in Task \ gr.tasks : ~Active(gr, t)

\* What every operation on the graph preserves.
Sound(gr) == gr \in Graph /\ Closed(gr) /\ Clean(gr) /\ Counted(gr)

\* h is a sound graph of the same tasks.
Keeps(gr, h) == Sound(h) /\ h.tasks = gr.tasks

-----------------------------------------------------------------------------
(* Counting *)

\* Bump keeps a counter a counter.
LEMMA BumpType ==
  ASSUME NEW f \in [Task -> Int], NEW S, NEW n \in Int
  PROVE  Bump(f, S, n) \in [Task -> Int]
BY DEF Bump

\* Bump moves the counters of S, and no other.
LEMMA BumpAt ==
  ASSUME NEW f \in [Task -> Int], NEW S, NEW n \in Int, NEW t \in Task
  PROVE  Bump(f, S, n)[t] = IF t \in S THEN f[t] + n ELSE f[t]
BY DEF Bump

\* What is counted is finite.
LEMMA Finite ==
  ASSUME NEW gr, NEW t
  PROVE  IsFiniteSet(WantedParents(gr, t)) /\ IsFiniteSet(ActiveDependents(gr, t))
<1>1. IsFiniteSet(Task \cup {Init0})
  BY TaskAssumption, FS_AddElement
<1>2. WantedParents(gr, t) \subseteq Task \cup {Init0}
  BY DEF WantedParents
<1>3. ActiveDependents(gr, t) \subseteq Task \cup {Init0}
  BY DEF ActiveDependents, Dependents
<1> QED
  BY <1>1, <1>2, <1>3, FS_Subset

\* Whom an edge of a closed graph joins to a task is registered.
LEMMA Ends ==
  ASSUME NEW gr, Sound(gr), NEW t
  PROVE  Deps(gr, t) \subseteq gr.tasks /\ Dependents(gr, t) \subseteq gr.tasks
<1>1. ASSUME NEW d \in Deps(gr, t) PROVE d \in gr.tasks
  <2>1. <<t, d>> \in gr.edges
    BY <1>1 DEF Deps
  <2>2. <<t, d>>[2] \in gr.tasks
    BY <2>1 DEF Sound, Closed
  <2> QED
    BY <2>2
<1>2. ASSUME NEW p \in Dependents(gr, t) PROVE p \in gr.tasks
  <2>1. <<p, t>> \in gr.edges /\ p \in Task
    BY <1>2 DEF Dependents
  <2>2. <<p, t>>[1] \in gr.tasks \cup {Init0}
    BY <2>1 DEF Sound, Closed
  <2> QED
    BY <2>1, <2>2, TaskAssumption
<1> QED
  BY <1>1, <1>2

\* One element more, or one less, is one more or less.
LEMMA OneMore ==
  ASSUME NEW S, IsFiniteSet(S), NEW x, x \notin S
  PROVE  Cardinality(S \cup {x}) = Cardinality(S) + 1
BY FS_AddElement

\* Removing a member lowers the cardinality by one.
LEMMA OneLess ==
  ASSUME NEW S, IsFiniteSet(S), NEW x \in S
  PROVE  Cardinality(S \ {x}) = Cardinality(S) - 1
BY FS_RemoveElement

-----------------------------------------------------------------------------
(* Operations that leave the counted state alone *)

\* The part of the graph that is counted.
SameCore(gr, h) ==
  /\ h.tasks = gr.tasks /\ h.edges = gr.edges /\ h.state = gr.state
  /\ h.wanted = gr.wanted /\ h.wantedParents = gr.wantedParents
  /\ h.activeDependents = gr.activeDependents

\* Soundness reads only the tasks, edges, states, caches and counters: a graph that
\* agrees with a sound one on them, and queues only registered tasks, is sound.
LEMMA SameCoreSound ==
  ASSUME NEW gr, Sound(gr), NEW h \in Graph, SameCore(gr, h),
         h.dirty \subseteq gr.tasks, h.savedPin \subseteq gr.tasks
  PROVE  Sound(h)
<1>1. Closed(h) /\ Clean(h)
  BY DEF Sound, SameCore, Closed, Clean, Active
<1>2. \A t : WantedParents(h, t) = WantedParents(gr, t)
  BY DEF SameCore, WantedParents, ParentWanted
<1>3. \A t : ActiveDependents(h, t) = ActiveDependents(gr, t)
  BY DEF SameCore, ActiveDependents, Dependents, Active
<1>4. Counted(h)
  BY <1>2, <1>3 DEF Sound, SameCore, Counted
<1> QED
  BY <1>1, <1>4 DEF Sound

\* Queueing tasks to be driven (enqueue) keeps the graph sound.
LEMMA EnqueueSound ==
  ASSUME NEW gr, Sound(gr), NEW S
  PROVE  Sound(Enqueue(gr, S)) /\ SameCore(gr, Enqueue(gr, S))
<1>1. Enqueue(gr, S) \in Graph /\ SameCore(gr, Enqueue(gr, S))
  BY DEF Enqueue, Sound, Graph, SameCore
<1>2. Enqueue(gr, S).dirty \subseteq gr.tasks /\ Enqueue(gr, S).savedPin \subseteq gr.tasks
  BY DEF Enqueue, Sound, Graph, Closed, Clean
<1> QED
  BY <1>1, <1>2, SameCoreSound

\* Telling the listeners of a change (notify_subscribers) keeps the graph sound.
LEMMA NotifySound ==
  ASSUME NEW gr, Sound(gr)
  PROVE  Sound(Notify(gr)) /\ SameCore(gr, Notify(gr))
<1>1. Notify(gr) \in Graph /\ SameCore(gr, Notify(gr))
  BY DEF Notify, Sound, Graph, SameCore
<1>2. Notify(gr).dirty \subseteq gr.tasks /\ Notify(gr).savedPin \subseteq gr.tasks
  BY DEF Notify, Sound, Graph, Closed, Clean
<1> QED
  BY <1>1, <1>2, SameCoreSound

\* Sending a command, whoever it reaches (send_cmd), keeps the graph sound.
LEMMA SendCmdSound ==
  ASSUME NEW gr, Sound(gr), NEW t \in Task
  PROVE  Sound(SendCmd(gr, t)) /\ SameCore(gr, SendCmd(gr, t))
<1>1. SendCmd(gr, t) \in Graph /\ SameCore(gr, SendCmd(gr, t))
  BY SMTT(30) DEF SendCmd, Sound, Graph, SameCore
<1>2. SendCmd(gr, t).dirty \subseteq gr.tasks /\ SendCmd(gr, t).savedPin \subseteq gr.tasks
  BY DEF SendCmd, Sound, Graph, Closed, Clean
<1> QED
  BY <1>1, <1>2, SameCoreSound

\* Setting a timer (schedule_state_timeout) keeps the graph sound.
LEMMA ScheduleSound ==
  ASSUME NEW gr, Sound(gr), NEW t \in Task
  PROVE  Sound(Schedule(gr, t)) /\ SameCore(gr, Schedule(gr, t))
<1>1. Schedule(gr, t) \in Graph /\ SameCore(gr, Schedule(gr, t))
  BY DEF Schedule, Sound, Graph, SameCore
<1>2. Schedule(gr, t).dirty \subseteq gr.tasks /\ Schedule(gr, t).savedPin \subseteq gr.tasks
  BY DEF Schedule, Sound, Graph, Closed, Clean
<1> QED
  BY <1>1, <1>2, SameCoreSound

-----------------------------------------------------------------------------
(* set_state *)

\* What SetState changes, when it changes something.
LEMMA SetStateFields ==
  ASSUME NEW gr, Sound(gr), NEW t \in gr.tasks, NEW s \in TaskState,
         NEW info \in ExitInfo \cup {NoExit},
         ~(gr.state[t] = s /\ gr.exit[t] = info),
         NEW h, h = SetState(gr, t, s, info)
  PROVE  /\ h \in Graph
         /\ h.tasks = gr.tasks /\ h.edges = gr.edges /\ h.wanted = gr.wanted
         /\ h.wantedParents = gr.wantedParents /\ h.savedPin = gr.savedPin
         /\ h.state = [gr.state EXCEPT ![t] = s]
         /\ h.dirty \subseteq gr.tasks
         /\ h.activeDependents =
              IF Active(gr, t) # is_active(s)
              THEN Bump(gr.activeDependents, Deps(gr, t), IF is_active(s) THEN 1 ELSE -1)
              ELSE gr.activeDependents
<1> DEFINE gate == Active(gr, t) # is_active(s)
           by == IF is_active(s) THEN 1 ELSE -1
           count == IF gate THEN Bump(gr.activeDependents, Deps(gr, t), by)
                    ELSE gr.activeDependents
           dirt == gr.dirty \cup {t}
                     \cup (IF Satisfied(gr, t) # is_satisfied(gr.kind[t], s)
                           THEN Dependents(gr, t) ELSE {})
                     \cup (IF gate THEN Deps(gr, t) ELSE {})
           k == [gr EXCEPT
                   !.state[t] = s, !.exit[t] = info,
                   !.killed = @ \ {t}, !.startFailed = @ \ {t},
                   !.stopTimedOut = @ \ {t}, !.timed = @ \ {t},
                   !.activeDependents = count, !.dirty = dirt]
<1>1. gr \in Graph /\ t \in Task
  BY DEF Sound, Graph
<1>2. count \in [Task -> Int]
  <2>1. gr.activeDependents \in [Task -> Int]
    BY <1>1 DEF Graph
  <2>2. by \in Int
    OBVIOUS
  <2> QED
    BY <2>1, <2>2, BumpType
<1>3. dirt \subseteq gr.tasks
  BY Ends DEF Sound, Closed
<1>4. gr.tasks \subseteq Task
  BY <1>1 DEF Graph
<1>5. h = Notify(k)
  BY DEF SetState
<1> HIDE DEF count, dirt
<1>6. /\ k \in Graph
      /\ k.tasks = gr.tasks /\ k.edges = gr.edges /\ k.wanted = gr.wanted
      /\ k.wantedParents = gr.wantedParents /\ k.savedPin = gr.savedPin
      /\ k.state = [gr.state EXCEPT ![t] = s]
      /\ k.dirty = dirt
      /\ k.activeDependents = count
  BY <1>1, <1>2, <1>3, <1>4, ZenonT(60) DEF Graph
<1> HIDE DEF k
<1>7. /\ Notify(k) \in Graph
      /\ SameCore(k, Notify(k)) /\ Notify(k).dirty = k.dirty
      /\ Notify(k).savedPin = k.savedPin
  BY <1>6 DEF Notify, Graph, SameCore
<1> QED
  BY <1>3, <1>5, <1>6, <1>7 DEF SameCore, count

\* A change of state (set_state) keeps the graph sound: the counters of the deps move
\* exactly when the task enters or leaves the active states.
LEMMA SetStateSound ==
  ASSUME NEW gr, Sound(gr), NEW t \in gr.tasks, NEW s \in TaskState,
         NEW info \in ExitInfo \cup {NoExit}
  PROVE  /\ Keeps(gr, SetState(gr, t, s, info))
         /\ SetState(gr, t, s, info).state = [gr.state EXCEPT ![t] = s]
<1> DEFINE h == SetState(gr, t, s, info)
<1>1. CASE gr.state[t] = s /\ gr.exit[t] = info
  BY <1>1 DEF SetState, Keeps, Sound, Graph
<1>2. CASE ~(gr.state[t] = s /\ gr.exit[t] = info)
  <2>1. /\ h \in Graph
        /\ h.tasks = gr.tasks /\ h.edges = gr.edges /\ h.wanted = gr.wanted
        /\ h.wantedParents = gr.wantedParents /\ h.savedPin = gr.savedPin
        /\ h.state = [gr.state EXCEPT ![t] = s]
        /\ h.dirty \subseteq gr.tasks
        /\ h.activeDependents =
             IF Active(gr, t) # is_active(s)
             THEN Bump(gr.activeDependents, Deps(gr, t), IF is_active(s) THEN 1 ELSE -1)
             ELSE gr.activeDependents
    BY <1>2, SetStateFields
  <2> HIDE DEF h
  <2>2. t \in Task /\ gr.state \in [Task -> TaskState]
        /\ gr.activeDependents \in [Task -> Int] /\ gr.tasks \subseteq Task
    BY DEF Sound, Graph
  <2>3. \A u \in Task : Active(h, u) = IF u = t THEN is_active(s) ELSE Active(gr, u)
    BY <2>1, <2>2 DEF Active
  <2>4. Closed(h) /\ Clean(h)
    BY <2>1, <2>3 DEF Closed, Clean, Sound
  <2>5. ASSUME NEW u \in Task
        PROVE  h.activeDependents[u] = Cardinality(ActiveDependents(h, u))
    <3>0. u \in Task
      OBVIOUS
    <3>1. gr.activeDependents[u] = Cardinality(ActiveDependents(gr, u))
      BY DEF Sound, Counted
    <3>2. t \in Dependents(gr, u) <=> u \in Deps(gr, t)
      BY <2>2, <3>0 DEF Dependents, Deps
    <3>3. Dependents(h, u) = Dependents(gr, u)
      BY <2>1 DEF Dependents
    <3>4. IsFiniteSet(ActiveDependents(gr, u))
      BY Finite
    <3>8. Active(gr, t) \in BOOLEAN /\ is_active(s) \in BOOLEAN
      BY DEF Active, is_active
    <3>5. CASE u \notin Deps(gr, t) \/ Active(gr, t) = is_active(s)
      <4>1. ActiveDependents(h, u) = ActiveDependents(gr, u)
        BY <2>3, <3>2, <3>3, <3>5 DEF ActiveDependents, Dependents
      <4>2. h.activeDependents[u] = gr.activeDependents[u]
        BY <2>1, <2>2, <3>0, <3>5, BumpAt
      <4> QED
        BY <3>1, <4>1, <4>2
    <3>6. CASE u \in Deps(gr, t) /\ ~Active(gr, t) /\ is_active(s)
      <4>1. ActiveDependents(h, u) = ActiveDependents(gr, u) \cup {t}
        BY <2>3, <3>2, <3>3, <3>6 DEF ActiveDependents, Dependents
      <4>2. t \notin ActiveDependents(gr, u)
        BY <3>6 DEF ActiveDependents
      <4>3. h.activeDependents[u] = gr.activeDependents[u] + 1
        <5>1. Active(gr, t) # is_active(s)
          BY <3>6, <3>8
        <5>2. h.activeDependents = Bump(gr.activeDependents, Deps(gr, t), 1)
          BY <2>1, <3>6, <5>1
        <5> QED
          BY <2>2, <3>0, <3>6, <5>2, BumpAt
      <4> QED
        BY <3>1, <3>4, <4>1, <4>2, <4>3, OneMore
    <3>7. CASE u \in Deps(gr, t) /\ Active(gr, t) /\ ~is_active(s)
      <4>1. ActiveDependents(h, u) = ActiveDependents(gr, u) \ {t}
        BY <2>3, <3>2, <3>3, <3>7 DEF ActiveDependents, Dependents
      <4>2. t \in ActiveDependents(gr, u)
        BY <3>2, <3>7 DEF ActiveDependents
      <4>3. h.activeDependents[u] = gr.activeDependents[u] + (-1)
        <5>1. Active(gr, t) # is_active(s)
          BY <3>7, <3>8
        <5>2. h.activeDependents = Bump(gr.activeDependents, Deps(gr, t), -1)
          BY <2>1, <3>7, <5>1
        <5> QED
          BY <2>2, <3>0, <3>7, <5>2, BumpAt
      <4>4. Cardinality(ActiveDependents(gr, u)) \in Nat
        BY <3>4, FS_CardinalityType
      <4> QED
        BY <3>1, <3>4, <4>1, <4>2, <4>3, <4>4, OneLess
    <3> QED
      BY <3>5, <3>6, <3>7, <3>8
  <2>6. \A u : WantedParents(h, u) = WantedParents(gr, u)
    BY <2>1 DEF WantedParents, ParentWanted
  <2>7. Counted(h)
    BY <2>1, <2>5, <2>6 DEF Sound, Counted
  <2> QED
    BY <2>1, <2>4, <2>7 DEF Sound, Keeps, h
<1> QED
  BY <1>1, <1>2
-----------------------------------------------------------------------------
(* Edges *)

\* What the edge operations leave alone.
SameNodes(gr, h) ==
  /\ h.tasks = gr.tasks /\ h.state = gr.state /\ h.exit = gr.exit
  /\ h.wanted = gr.wanted /\ h.savedPin = gr.savedPin

\* What recomputing `wanted` leaves alone of what is counted.
SameCounted(gr, h) ==
  /\ h.tasks = gr.tasks /\ h.edges = gr.edges /\ h.state = gr.state
  /\ h.activeDependents = gr.activeDependents

\* Queueing changes nothing but the queue.
LEMMA EnqueueNodes ==
  ASSUME NEW gr, NEW k \in Graph, SameNodes(gr, k), NEW S
  PROVE  SameNodes(gr, Enqueue(k, S))
BY DEF SameNodes, Enqueue, Graph

\* AddEdges yields a sound graph with the same tasks.
LEMMA AddEdgesSound ==
  ASSUME NEW gr, Sound(gr), NEW from \in Task \cup {Init0}, NEW S \in SUBSET Task
  PROVE  LET h == AddEdges(gr, from, S)
         IN Sound(h) /\ SameNodes(gr, h)
<1> DEFINE valid == {to \in S \cap gr.tasks : to # from}
           new == {to \in valid : <<from, to>> \notin gr.edges}
           wp == IF ParentWanted(gr, from) THEN Bump(gr.wantedParents, new, 1)
                 ELSE gr.wantedParents
           ad == IF ParentActive(gr, from) THEN Bump(gr.activeDependents, new, 1)
                 ELSE gr.activeDependents
           ed == gr.edges \cup {<<from, to>> : to \in new}
           k == [gr EXCEPT !.edges = ed, !.wantedParents = wp, !.activeDependents = ad]
<1>1. CASE valid = {} \/ from \notin gr.tasks \cup {Init0}
  BY <1>1 DEF AddEdges, SameNodes
<1>2. CASE ~(valid = {} \/ from \notin gr.tasks \cup {Init0})
  <2>1. AddEdges(gr, from, S) = Enqueue(k, valid \cup {from})
    BY <1>2 DEF AddEdges
  <2>2. /\ gr \in Graph /\ gr.tasks \subseteq Task
        /\ gr.wantedParents \in [Task -> Int] /\ gr.activeDependents \in [Task -> Int]
        /\ gr.edges \in SUBSET ((Task \cup {Init0}) \X Task)
    BY DEF Sound, Graph
  <2>3. wp \in [Task -> Int] /\ ad \in [Task -> Int]
    BY <2>2, BumpType, SMT
  <2>4. ed \in SUBSET ((Task \cup {Init0}) \X Task)
    <3>1. new \subseteq Task
      BY <2>2
    <3> HIDE DEF new
    <3>2. \A to \in new : <<from, to>> \in (Task \cup {Init0}) \X Task
      BY <3>1
    <3> QED
      BY <2>2, <3>2
  <2>5. \A u \in Task, p \in Task \cup {Init0} :
          <<p, u>> \in ed <=> (<<p, u>> \in gr.edges \/ (p = from /\ u \in new))
    BY <2>2
  <2>6. \A e \in ed : e[1] \in gr.tasks \cup {Init0} /\ e[2] \in gr.tasks
    <3>1. ASSUME NEW e \in gr.edges
          PROVE  e[1] \in gr.tasks \cup {Init0} /\ e[2] \in gr.tasks
      BY DEF Sound, Closed
    <3>2. ASSUME NEW to \in new
          PROVE  /\ <<from, to>>[1] \in gr.tasks \cup {Init0}
                 /\ <<from, to>>[2] \in gr.tasks
      BY <1>2
    <3> QED
      BY <3>1, <3>2
  <2>7. \A u \in Task : u \in new => <<from, u>> \notin gr.edges
    OBVIOUS
  <2> HIDE DEF wp, ad, ed, new
  <2>8. /\ k \in Graph /\ SameNodes(gr, k) /\ k.dirty = gr.dirty
        /\ k.edges = ed /\ k.wantedParents = wp /\ k.activeDependents = ad
    BY <2>2, <2>3, <2>4 DEF Graph, SameNodes
  <2> HIDE DEF k
  <2>9. Closed(k) /\ Clean(k)
    BY <2>6, <2>8 DEF Sound, Closed, Clean, SameNodes, Active
  <2>10. /\ \A p : ParentWanted(k, p) <=> ParentWanted(gr, p)
         /\ \A p : ParentActive(k, p) <=> ParentActive(gr, p)
         /\ \A p : Active(k, p) <=> Active(gr, p)
    BY <2>8 DEF SameNodes, ParentWanted, ParentActive, Active
  <2>11. ASSUME NEW u \in Task
         PROVE  k.wantedParents[u] = Cardinality(WantedParents(k, u))
    <3>1. u \in Task /\ gr.wantedParents[u] = Cardinality(WantedParents(gr, u))
          /\ gr.wantedParents[u] \in Int
      BY <2>2 DEF Sound, Counted
    <3>2. CASE u \in new /\ ParentWanted(gr, from)
      <4>1. WantedParents(k, u) = WantedParents(gr, u) \cup {from}
        BY <2>5, <2>7, <2>8, <2>10, <3>1, <3>2 DEF WantedParents
      <4>2. from \notin WantedParents(gr, u)
        BY <2>7, <3>1, <3>2 DEF WantedParents
      <4>3. k.wantedParents[u] = gr.wantedParents[u] + 1
        BY <2>2, <2>8, <3>1, <3>2, BumpAt DEF wp
      <4> QED
        BY <3>1, <4>1, <4>2, <4>3, Finite, OneMore
    <3>3. CASE ~(u \in new /\ ParentWanted(gr, from))
      <4>1. WantedParents(k, u) = WantedParents(gr, u)
        BY <2>5, <2>8, <2>10, <3>1, <3>3 DEF WantedParents
      <4>2. k.wantedParents[u] = gr.wantedParents[u]
        BY <2>2, <2>8, <3>1, <3>3, BumpAt DEF wp
      <4> QED
        BY <3>1, <4>1, <4>2
    <3> QED
      BY <3>2, <3>3
  <2>12. ASSUME NEW u \in Task
         PROVE  k.activeDependents[u] = Cardinality(ActiveDependents(k, u))
    <3>1. u \in Task /\ gr.activeDependents[u] = Cardinality(ActiveDependents(gr, u))
          /\ gr.activeDependents[u] \in Int
      BY <2>2 DEF Sound, Counted
    <3>2. CASE u \in new /\ ParentActive(gr, from)
      <4>0. from \in Task /\ Active(gr, from)
        BY <3>2 DEF ParentActive
      <4>1. ActiveDependents(k, u) = ActiveDependents(gr, u) \cup {from}
        BY <2>5, <2>7, <2>8, <2>10, <3>1, <3>2, <4>0 DEF ActiveDependents, Dependents
      <4>2. from \notin ActiveDependents(gr, u)
        BY <2>7, <3>1, <3>2, <4>0 DEF ActiveDependents, Dependents
      <4>3. k.activeDependents[u] = gr.activeDependents[u] + 1
        BY <2>2, <2>8, <3>1, <3>2, BumpAt DEF ad
      <4> QED
        BY <3>1, <4>1, <4>2, <4>3, Finite, OneMore
    <3>3. CASE ~(u \in new /\ ParentActive(gr, from))
      <4>1. ActiveDependents(k, u) = ActiveDependents(gr, u)
        BY <2>5, <2>8, <2>10, <3>1, <3>3, TaskAssumption
        DEF ActiveDependents, Dependents, ParentActive
      <4>2. k.activeDependents[u] = gr.activeDependents[u]
        BY <2>2, <2>8, <3>1, <3>3, BumpAt DEF ad
      <4> QED
        BY <3>1, <4>1, <4>2
    <3> QED
      BY <3>2, <3>3
  <2>13. Sound(k)
    BY <2>8, <2>9, <2>11, <2>12 DEF Sound, Counted, SameNodes
  <2> QED
    BY <2>1, <2>8, <2>13, EnqueueSound, EnqueueNodes
<1> QED
  BY <1>1, <1>2

\* RemoveEdges yields a sound graph with the same tasks.
LEMMA RemoveEdgesSound ==
  ASSUME NEW gr, Sound(gr), NEW from \in Task \cup {Init0}, NEW S \in SUBSET Task
  PROVE  LET h == RemoveEdges(gr, from, S)
         IN Sound(h) /\ SameNodes(gr, h)
<1> DEFINE old == {to \in S : <<from, to>> \in gr.edges}
           wp == IF ParentWanted(gr, from) THEN Bump(gr.wantedParents, old, -1)
                 ELSE gr.wantedParents
           ad == IF ParentActive(gr, from) THEN Bump(gr.activeDependents, old, -1)
                 ELSE gr.activeDependents
           ed == gr.edges \ {<<from, to>> : to \in old}
           k == [gr EXCEPT !.edges = ed, !.wantedParents = wp, !.activeDependents = ad]
<1>1. CASE S = {}
  BY <1>1 DEF RemoveEdges, SameNodes
<1>2. CASE ~(S = {})
  <2>1. RemoveEdges(gr, from, S) = Enqueue(k, S \cup {from})
    BY <1>2 DEF RemoveEdges
  <2>2. /\ gr \in Graph /\ gr.tasks \subseteq Task
        /\ gr.wantedParents \in [Task -> Int] /\ gr.activeDependents \in [Task -> Int]
        /\ gr.edges \in SUBSET ((Task \cup {Init0}) \X Task)
    BY DEF Sound, Graph
  <2>3. wp \in [Task -> Int] /\ ad \in [Task -> Int]
    BY <2>2, BumpType, SMT
  <2>4. ed \in SUBSET ((Task \cup {Init0}) \X Task)
    BY <2>2
  <2>5. \A u \in Task, p \in Task \cup {Init0} :
          <<p, u>> \in ed <=> (<<p, u>> \in gr.edges /\ ~(p = from /\ u \in old))
    BY <2>2
  <2>6. \A e \in ed : e[1] \in gr.tasks \cup {Init0} /\ e[2] \in gr.tasks
    BY <1>2 DEF Sound, Closed
  <2>7. \A u \in Task : u \in old => <<from, u>> \in gr.edges
    OBVIOUS
  <2> HIDE DEF wp, ad, ed, old
  <2>8. /\ k \in Graph /\ SameNodes(gr, k) /\ k.dirty = gr.dirty
        /\ k.edges = ed /\ k.wantedParents = wp /\ k.activeDependents = ad
    BY <2>2, <2>3, <2>4 DEF Graph, SameNodes
  <2> HIDE DEF k
  <2>9. Closed(k) /\ Clean(k)
    BY <2>6, <2>8 DEF Sound, Closed, Clean, SameNodes, Active
  <2>10. /\ \A p : ParentWanted(k, p) <=> ParentWanted(gr, p)
         /\ \A p : ParentActive(k, p) <=> ParentActive(gr, p)
         /\ \A p : Active(k, p) <=> Active(gr, p)
    BY <2>8 DEF SameNodes, ParentWanted, ParentActive, Active
  <2>11. ASSUME NEW u \in Task
         PROVE  k.wantedParents[u] = Cardinality(WantedParents(k, u))
    <3>1. u \in Task /\ gr.wantedParents[u] = Cardinality(WantedParents(gr, u))
          /\ gr.wantedParents[u] \in Int
      BY <2>2 DEF Sound, Counted
    <3>2. CASE u \in old /\ ParentWanted(gr, from)
      <4>1. WantedParents(k, u) = WantedParents(gr, u) \ {from}
        BY <2>5, <2>7, <2>8, <2>10, <3>1, <3>2 DEF WantedParents
      <4>2. from \in WantedParents(gr, u)
        BY <2>7, <3>1, <3>2 DEF WantedParents
      <4>3. k.wantedParents[u] = gr.wantedParents[u] + (-1)
        BY <2>2, <2>8, <3>1, <3>2, BumpAt DEF wp
      <4> QED
        BY <3>1, <4>1, <4>2, <4>3, Finite, OneLess
    <3>3. CASE ~(u \in old /\ ParentWanted(gr, from))
      <4>1. WantedParents(k, u) = WantedParents(gr, u)
        BY <2>5, <2>8, <2>10, <3>1, <3>3 DEF WantedParents
      <4>2. k.wantedParents[u] = gr.wantedParents[u]
        BY <2>2, <2>8, <3>1, <3>3, BumpAt DEF wp
      <4> QED
        BY <3>1, <4>1, <4>2
    <3> QED
      BY <3>2, <3>3
  <2>12. ASSUME NEW u \in Task
         PROVE  k.activeDependents[u] = Cardinality(ActiveDependents(k, u))
    <3>1. u \in Task /\ gr.activeDependents[u] = Cardinality(ActiveDependents(gr, u))
          /\ gr.activeDependents[u] \in Int
      BY <2>2 DEF Sound, Counted
    <3>2. CASE u \in old /\ ParentActive(gr, from)
      <4>0. from \in Task /\ Active(gr, from)
        BY <3>2 DEF ParentActive
      <4>1. ActiveDependents(k, u) = ActiveDependents(gr, u) \ {from}
        BY <2>5, <2>7, <2>8, <2>10, <3>1, <3>2, <4>0 DEF ActiveDependents, Dependents
      <4>2. from \in ActiveDependents(gr, u)
        BY <2>7, <3>1, <3>2, <4>0 DEF ActiveDependents, Dependents
      <4>3. k.activeDependents[u] = gr.activeDependents[u] + (-1)
        BY <2>2, <2>8, <3>1, <3>2, BumpAt DEF ad
      <4> QED
        BY <3>1, <4>1, <4>2, <4>3, Finite, OneLess
    <3>3. CASE ~(u \in old /\ ParentActive(gr, from))
      <4>1. ActiveDependents(k, u) = ActiveDependents(gr, u)
        BY <2>5, <2>8, <2>10, <3>1, <3>3, TaskAssumption
        DEF ActiveDependents, Dependents, ParentActive
      <4>2. k.activeDependents[u] = gr.activeDependents[u]
        BY <2>2, <2>8, <3>1, <3>3, BumpAt DEF ad
      <4> QED
        BY <3>1, <4>1, <4>2
    <3> QED
      BY <3>2, <3>3
  <2>13. Sound(k)
    BY <2>8, <2>9, <2>11, <2>12 DEF Sound, Counted, SameNodes
  <2> QED
    BY <2>1, <2>8, <2>13, EnqueueSound, EnqueueNodes
<1> QED
  BY <1>1, <1>2
-----------------------------------------------------------------------------
(* Registration and removal *)

\* A task added without edges is counted as nothing.
LEMMA AddedSound ==
  ASSUME NEW gr, Sound(gr), NEW t \in Task \ gr.tasks, NEW h \in Graph,
         h.tasks = gr.tasks \cup {t}, h.edges = gr.edges, h.state = gr.state,
         h.wanted = gr.wanted, h.wantedParents = gr.wantedParents,
         h.activeDependents = gr.activeDependents, h.dirty = gr.dirty,
         h.savedPin \subseteq gr.tasks \cup {t}
  PROVE  Sound(h)
<1>1. Closed(h) /\ Clean(h)
  BY DEF Sound, Closed, Clean, Active
<1>2. \A u : WantedParents(h, u) = WantedParents(gr, u)
  BY DEF WantedParents, ParentWanted
<1>3. \A u : ActiveDependents(h, u) = ActiveDependents(gr, u)
  BY DEF ActiveDependents, Dependents, Active
<1>4. Counted(h)
  BY <1>2, <1>3 DEF Sound, Counted
<1> QED
  BY <1>1, <1>4 DEF Sound

\* A registration (register_task_with_id) yields a sound graph with one task more.
LEMMA RegisterSound ==
  ASSUME NEW gr, Sound(gr), NEW t \in Task \ gr.tasks, NEW def \in TaskDef
  PROVE  Sound(Register(gr, t, def)) /\ Register(gr, t, def).tasks = gr.tasks \cup {t}
<1> DEFINE added == [gr EXCEPT
                       !.tasks = @ \cup {t},
                       !.kind[t] = def.kind, !.ready[t] = def.ready,
                       !.restart[t] = def.restart,
                       !.savedPin = IF def.savedPin THEN @ \cup {t} ELSE @]
           linked == AddEdges(added, t, def.deps)
           pinned == IF def.pinned THEN AddEdges(linked, Init0, {t}) ELSE linked
<1>1. /\ def.kind \in TaskKind /\ def.ready \in ReadyMode
      /\ def.restart \in RestartMode /\ def.deps \in SUBSET Task
  BY DEF TaskDef
<1>2. /\ added \in Graph /\ added.tasks = gr.tasks \cup {t} /\ added.edges = gr.edges
      /\ added.state = gr.state /\ added.wanted = gr.wanted
      /\ added.wantedParents = gr.wantedParents
      /\ added.activeDependents = gr.activeDependents /\ added.dirty = gr.dirty
      /\ added.savedPin \subseteq gr.tasks \cup {t}
  <2> DEFINE pins == IF def.savedPin THEN gr.savedPin \cup {t} ELSE gr.savedPin
  <2>1. gr \in Graph /\ gr.savedPin \subseteq gr.tasks
    BY DEF Sound, Clean
  <2>2. /\ gr.tasks \cup {t} \in SUBSET Task /\ pins \in SUBSET Task
        /\ pins \subseteq gr.tasks \cup {t}
    BY <2>1 DEF Graph
  <2>3. /\ [gr.kind EXCEPT ![t] = def.kind] \in [Task -> TaskKind]
        /\ [gr.ready EXCEPT ![t] = def.ready] \in [Task -> ReadyMode]
        /\ [gr.restart EXCEPT ![t] = def.restart] \in [Task -> RestartMode]
    BY <1>1, <2>1 DEF Graph
  <2>4. added = [gr EXCEPT !.tasks = gr.tasks \cup {t},
                           !.kind = [gr.kind EXCEPT ![t] = def.kind],
                           !.ready = [gr.ready EXCEPT ![t] = def.ready],
                           !.restart = [gr.restart EXCEPT ![t] = def.restart],
                           !.savedPin = pins]
    BY <2>1 DEF Graph
  <2> HIDE DEF added, pins
  <2> QED
    BY <2>1, <2>2, <2>3, <2>4 DEF Graph
<1> HIDE DEF added
<1>3. Sound(added)
  BY <1>2, AddedSound
<1>4. Sound(linked) /\ linked.tasks = added.tasks
  BY <1>1, <1>3, AddEdgesSound DEF SameNodes
<1> HIDE DEF linked
<1>5. Sound(pinned) /\ pinned.tasks = added.tasks
  BY <1>4, AddEdgesSound DEF SameNodes
<1> HIDE DEF pinned
<1>6. /\ Sound(Notify(Enqueue(pinned, {t})))
      /\ Notify(Enqueue(pinned, {t})).tasks = pinned.tasks
  BY <1>5, EnqueueSound, NotifySound DEF SameCore
<1> QED
  BY <1>2, <1>5, <1>6 DEF Register, added, linked, pinned

\* Dropping a task's handle touches neither edges nor counters.
LEMMA ForgetFields ==
  ASSUME NEW gr, Sound(gr), NEW t \in gr.tasks
  PROVE  /\ Forget(gr, t) \in Graph /\ SameCore(gr, Forget(gr, t))
         /\ Forget(gr, t).dirty = gr.dirty /\ Forget(gr, t).savedPin = gr.savedPin \ {t}
<1>1. gr \in Graph /\ t \in Task
  BY DEF Sound, Graph
<1>2. /\ NoExit \in ExitInfo \cup {NoExit} /\ "Service" \in TaskKind
      /\ "Immediate" \in ReadyMode /\ "Never" \in RestartMode
      /\ NoNext \in NextRun \cup {NoNext}
  BY DEF TaskKind, ReadyMode, RestartMode
<1> DEFINE a == [gr EXCEPT !.exit[t] = NoExit, !.kind[t] = "Service",
                            !.ready[t] = "Immediate", !.restart[t] = "Never",
                            !.next[t] = NoNext]
           b(c) == [c EXCEPT !.vetoed = @ \ {t}, !.killed = @ \ {t},
                              !.startFailed = @ \ {t}, !.stopTimedOut = @ \ {t},
                              !.savedPin = @ \ {t}, !.dead = @ \ {t},
                              !.timed = @ \ {t}, !.supported = @ \ {t}]
<1>3. /\ a \in Graph /\ SameCore(gr, a) /\ a.dirty = gr.dirty
      /\ a.savedPin = gr.savedPin /\ a.vetoed = gr.vetoed /\ a.killed = gr.killed
      /\ a.startFailed = gr.startFailed /\ a.stopTimedOut = gr.stopTimedOut
      /\ a.dead = gr.dead /\ a.timed = gr.timed /\ a.supported = gr.supported
  BY <1>1, <1>2, ZenonT(60) DEF Graph, SameCore
<1>4. Forget(gr, t) = b(a)
  BY <1>3, Zenon DEF Forget
<1> HIDE DEF a
<1>5. b(a) \in Graph
  BY <1>1, <1>3, ZenonT(60) DEF Graph
<1>6. SameCore(a, b(a)) /\ b(a).dirty = a.dirty /\ b(a).savedPin = a.savedPin \ {t}
  BY <1>1, <1>3 DEF Graph, SameCore
<1> QED
  BY <1>3, <1>4, <1>5, <1>6 DEF SameCore

\* A removal (remove_task) yields a sound graph without the task: its edges go and
\* its deps are counted down for it.
LEMMA RemoveTaskSound ==
  ASSUME NEW gr, Sound(gr), NEW t \in gr.tasks
  PROVE  Sound(RemoveTask(gr, t)) /\ RemoveTask(gr, t).tasks = gr.tasks \ {t}
<1> DEFINE ed == {e \in gr.edges : e[1] # t /\ e[2] # t}
           wp == [IF t \in gr.wanted THEN Bump(gr.wantedParents, Deps(gr, t), -1)
                  ELSE gr.wantedParents EXCEPT ![t] = 0]
           ad == [IF Active(gr, t) THEN Bump(gr.activeDependents, Deps(gr, t), -1)
                  ELSE gr.activeDependents EXCEPT ![t] = 0]
           dirt == (gr.dirty \cup Deps(gr, t) \cup Dependents(gr, t)) \ {t}
           f == Forget(gr, t)
           k == [f EXCEPT
                   !.tasks = gr.tasks \ {t}, !.edges = ed, !.state[t] = "Idle",
                   !.wanted = gr.wanted \ {t},
                   !.wantedParents = wp, !.activeDependents = ad, !.dirty = dirt]
<1>0. /\ f \in Graph /\ SameCore(gr, f) /\ f.dirty = gr.dirty
      /\ f.savedPin = gr.savedPin \ {t}
  BY ForgetFields
<1>1. RemoveTask(gr, t) = Notify(k)
  BY <1>0 DEF RemoveTask, SameCore
<1>2. /\ gr \in Graph /\ gr.tasks \subseteq Task /\ t \in Task
      /\ gr.wantedParents \in [Task -> Int] /\ gr.activeDependents \in [Task -> Int]
      /\ gr.edges \in SUBSET ((Task \cup {Init0}) \X Task)
  BY DEF Sound, Graph
<1>3. wp \in [Task -> Int] /\ ad \in [Task -> Int]
  BY <1>2, BumpType, SMT
<1>4. /\ dirt \subseteq gr.tasks \ {t}
      /\ ed \in SUBSET ((Task \cup {Init0}) \X Task)
  BY <1>2, Ends DEF Sound, Closed
<1>5. \A p \in Task \cup {Init0}, u \in Task :
        <<p, u>> \in ed <=> <<p, u>> \in gr.edges /\ p # t /\ u # t
  BY <1>2
<1>6. \A e \in ed : e[1] \in (gr.tasks \ {t}) \cup {Init0} /\ e[2] \in gr.tasks \ {t}
  BY DEF Sound, Closed
<1> HIDE DEF wp, ad, ed, dirt
<1>7. /\ k \in Graph /\ k.tasks = gr.tasks \ {t} /\ k.edges = ed
      /\ k.state = [gr.state EXCEPT ![t] = "Idle"] /\ k.savedPin = gr.savedPin \ {t}
      /\ k.wanted = gr.wanted \ {t} /\ k.wantedParents = wp
      /\ k.activeDependents = ad /\ k.dirty = dirt
  <2>1. "Idle" \in TaskState /\ dirt \in SUBSET Task
    BY <1>2, <1>4 DEF TaskState
  <2>2. f \in Graph /\ f.state = gr.state /\ f.savedPin = gr.savedPin \ {t}
        /\ gr.tasks \ {t} \in SUBSET Task /\ gr.wanted \ {t} \in SUBSET Task
    BY <1>0, <1>2 DEF SameCore, Graph
  <2> HIDE DEF f
  <2>3. k \in Graph
    BY <1>2, <1>3, <1>4, <2>1, <2>2, ZenonT(60) DEF Graph
  <2>4. k.tasks = gr.tasks \ {t} /\ k.edges = ed /\ k.wanted = gr.wanted \ {t}
        /\ k.wantedParents = wp /\ k.activeDependents = ad /\ k.dirty = dirt
    BY <2>2 DEF Graph
  <2>5. k.state = [gr.state EXCEPT ![t] = "Idle"] /\ k.savedPin = gr.savedPin \ {t}
    BY <2>2 DEF Graph
  <2> QED
    BY <2>3, <2>4, <2>5
<1> HIDE DEF k
<1>8. \A u \in Task : Active(k, u) <=> Active(gr, u) /\ u # t
  BY <1>2, <1>7 DEF Sound, Graph, Active, is_active, Up
<1>9. Closed(k) /\ Clean(k)
  BY <1>4, <1>6, <1>7, <1>8 DEF Sound, Closed, Clean
<1>10. \A p \in Task \cup {Init0} :
         p # t => (ParentWanted(k, p) <=> ParentWanted(gr, p))
  BY <1>7 DEF ParentWanted
<1>11. ASSUME NEW u \in Task
       PROVE  k.wantedParents[u] = Cardinality(WantedParents(k, u))
  <2>1. /\ gr.wantedParents[u] = Cardinality(WantedParents(gr, u))
        /\ gr.wantedParents[u] \in Int
    BY <1>2 DEF Sound, Counted
  <2>2. CASE u = t
    <3>1. WantedParents(k, u) = {}
      BY <1>5, <1>7, <2>2 DEF WantedParents
    <3>2. k.wantedParents[u] = 0
      BY <1>2, <1>7, <2>2, BumpType DEF wp
    <3> QED
      BY <3>1, <3>2, FS_EmptySet
  <2>3. CASE u # t /\ t \in gr.wanted /\ u \in Deps(gr, t)
    <3>1. WantedParents(k, u) = WantedParents(gr, u) \ {t}
      BY <1>5, <1>7, <1>10, <2>3 DEF WantedParents
    <3>2. t \in WantedParents(gr, u)
      BY <1>2, <2>3 DEF WantedParents, ParentWanted, Deps
    <3>3. k.wantedParents[u] = gr.wantedParents[u] + (-1)
      BY <1>2, <1>7, <2>3, BumpAt, BumpType DEF wp
    <3> QED
      BY <2>1, <3>1, <3>2, <3>3, Finite, OneLess
  <2>4. CASE u # t /\ ~(t \in gr.wanted /\ u \in Deps(gr, t))
    <3>1. t \notin WantedParents(gr, u)
      BY <1>2, <2>4, TaskAssumption DEF WantedParents, ParentWanted, Deps
    <3>2. WantedParents(k, u) = WantedParents(gr, u)
      BY <1>5, <1>7, <1>10, <2>4, <3>1 DEF WantedParents
    <3>3. k.wantedParents[u] = gr.wantedParents[u]
      BY <1>2, <1>7, <2>4, BumpAt, BumpType DEF wp
    <3> QED
      BY <2>1, <3>2, <3>3
  <2> QED
    BY <2>2, <2>3, <2>4
<1>12. ASSUME NEW u \in Task
       PROVE  k.activeDependents[u] = Cardinality(ActiveDependents(k, u))
  <2>1. /\ gr.activeDependents[u] = Cardinality(ActiveDependents(gr, u))
        /\ gr.activeDependents[u] \in Int
    BY <1>2 DEF Sound, Counted
  <2>2. CASE u = t
    <3>1. ActiveDependents(k, u) = {}
      BY <1>5, <1>7, <2>2 DEF ActiveDependents, Dependents
    <3>2. k.activeDependents[u] = 0
      BY <1>2, <1>7, <2>2, BumpType DEF ad
    <3> QED
      BY <3>1, <3>2, FS_EmptySet
  <2>3. CASE u # t /\ Active(gr, t) /\ u \in Deps(gr, t)
    <3>1. ActiveDependents(k, u) = ActiveDependents(gr, u) \ {t}
      BY <1>5, <1>7, <1>8, <2>3 DEF ActiveDependents, Dependents
    <3>2. t \in ActiveDependents(gr, u)
      BY <1>2, <2>3 DEF ActiveDependents, Dependents, Deps
    <3>3. k.activeDependents[u] = gr.activeDependents[u] + (-1)
      BY <1>2, <1>7, <2>3, BumpAt, BumpType DEF ad
    <3> QED
      BY <2>1, <3>1, <3>2, <3>3, Finite, OneLess
  <2>4. CASE u # t /\ ~(Active(gr, t) /\ u \in Deps(gr, t))
    <3>1. t \notin ActiveDependents(gr, u)
      BY <1>2, <2>4 DEF ActiveDependents, Dependents, Deps
    <3>2. ActiveDependents(k, u) = ActiveDependents(gr, u)
      BY <1>5, <1>7, <1>8, <2>4, <3>1 DEF ActiveDependents, Dependents
    <3>3. k.activeDependents[u] = gr.activeDependents[u]
      BY <1>2, <1>7, <2>4, BumpAt, BumpType DEF ad
    <3> QED
      BY <2>1, <3>2, <3>3
  <2> QED
    BY <2>2, <2>3, <2>4
<1>13. Sound(k)
  BY <1>7, <1>9, <1>11, <1>12 DEF Sound, Counted
<1> QED
  BY <1>1, <1>7, <1>13, NotifySound DEF SameCore
-----------------------------------------------------------------------------
(* Driving a task, and what it reports *)

\* Flags and definitions are not counted: changing them is sound.
LEMMA FlagsKept ==
  ASSUME NEW gr, Sound(gr), NEW h \in Graph, SameCore(gr, h),
         h.dirty = gr.dirty, h.savedPin = gr.savedPin
  PROVE  Keeps(gr, h)
BY SameCoreSound DEF Keeps, SameCore, Sound, Closed, Clean

\* Where a run goes is a state.
LEMMA Landings ==
  /\ \A kind, ready : started_state(kind, ready) \in TaskState
  /\ \A kind, restart, info : exit_state(kind, restart, info) \in TaskState
BY DEF started_state, exit_state, TaskState, Up, Ended

\* start_task keeps the graph sound, and its tasks.
LEMMA StartTaskKept ==
  ASSUME NEW gr, Sound(gr), NEW t \in gr.tasks
  PROVE  /\ Keeps(gr, StartTask(gr, t))
         /\ StartTask(gr, t).state = [gr.state EXCEPT ![t] = "Starting"]
<1> DEFINE next == gr.next[t]
           adopted == IF next = NoNext THEN gr ELSE
                      [gr EXCEPT !.kind[t] = next.kind, !.ready[t] = next.ready,
                                 !.next[t] = NoNext]
           changed == IF adopted.kind[t] # gr.kind[t] THEN Notify(adopted) ELSE adopted
           started == SetState(changed, t, "Starting", NoExit)
<1>1. gr \in Graph /\ t \in Task
  BY DEF Sound, Graph
<1>2. Keeps(gr, adopted) /\ adopted.state = gr.state
  <2>1. CASE next = NoNext
    BY <2>1 DEF Keeps
  <2>2. CASE next # NoNext
    <3>1. next.kind \in TaskKind /\ next.ready \in ReadyMode
      BY <1>1, <2>2 DEF Graph, NextRun
    <3>2. /\ adopted \in Graph /\ SameCore(gr, adopted)
          /\ adopted.dirty = gr.dirty /\ adopted.savedPin = gr.savedPin
      BY <1>1, <2>2, <3>1 DEF Graph, SameCore
    <3> QED
      BY <3>2, FlagsKept DEF SameCore
  <2> QED
    BY <2>1, <2>2
<1> HIDE DEF adopted
<1>3. Keeps(gr, changed) /\ changed.state = gr.state
  BY <1>2, NotifySound DEF Keeps, SameCore
<1> HIDE DEF changed
<1>4. Keeps(gr, started) /\ started.state = [gr.state EXCEPT ![t] = "Starting"]
  <2>1. "Starting" \in TaskState
    BY DEF TaskState, Up
  <2> QED
    BY <1>3, <2>1, SetStateSound DEF Keeps
<1> HIDE DEF started
<1>5. Keeps(gr, SendCmd(started, t)) /\ SendCmd(started, t).state = started.state
  BY <1>1, <1>4, SendCmdSound DEF Keeps, SameCore
<1> QED
  BY <1>4, <1>5 DEF StartTask, started, changed, adopted

\* stop_task keeps the graph sound, and its tasks.
LEMMA StopTaskKept ==
  ASSUME NEW gr, Sound(gr), NEW t \in gr.tasks, NEW failed \in BOOLEAN
  PROVE  /\ Keeps(gr, StopTask(gr, t, failed))
         /\ StopTask(gr, t, failed).state = [gr.state EXCEPT ![t] = "Stopping"]
<1> DEFINE stopping == SetState(gr, t, "Stopping", NoExit)
           flag == IF failed THEN stopping.startFailed \cup {t}
                   ELSE stopping.startFailed \ {t}
           h == [stopping EXCEPT !.startFailed = flag]
<1>1. t \in Task /\ "Stopping" \in TaskState
  BY DEF Sound, Graph, TaskState
<1>2. Keeps(gr, stopping) /\ stopping.state = [gr.state EXCEPT ![t] = "Stopping"]
  BY <1>1, SetStateSound
<1> HIDE DEF stopping
<1>3. /\ h \in Graph /\ SameCore(stopping, h)
      /\ h.dirty = stopping.dirty /\ h.savedPin = stopping.savedPin
  <2>1. flag \in SUBSET Task /\ stopping \in Graph
    BY <1>1, <1>2 DEF Keeps, Sound, Graph
  <2> HIDE DEF flag
  <2> QED
    BY <2>1 DEF Graph, SameCore
<1>4. Keeps(gr, h) /\ h.state = stopping.state
  BY <1>2, <1>3, FlagsKept DEF Keeps, SameCore
<1> HIDE DEF h
<1>5. Keeps(gr, Schedule(h, t)) /\ Schedule(h, t).state = h.state
  BY <1>1, <1>4, ScheduleSound DEF Keeps, SameCore
<1>6. /\ Keeps(gr, SendCmd(Schedule(h, t), t))
      /\ SendCmd(Schedule(h, t), t).state = h.state
  BY <1>1, <1>5, SendCmdSound DEF Keeps, SameCore
<1> QED
  BY <1>2, <1>4, <1>6 DEF StopTask, h, flag, stopping

\* hard_kill keeps the graph sound, and its tasks.
LEMMA HardKillKept ==
  ASSUME NEW gr, Sound(gr), NEW t \in gr.tasks
  PROVE  Keeps(gr, HardKill(gr, t))
<1> DEFINE h == [gr EXCEPT !.killed = @ \cup {t}]
<1>1. t \in Task
  BY DEF Sound, Graph
<1>2. /\ h \in Graph /\ SameCore(gr, h)
      /\ h.dirty = gr.dirty /\ h.savedPin = gr.savedPin
  BY <1>1 DEF Sound, Graph, SameCore
<1>3. Keeps(gr, h)
  BY <1>2, FlagsKept
<1> HIDE DEF h
<1>4. Keeps(gr, SendCmd(h, t))
  BY <1>1, <1>3, SendCmdSound DEF Keeps, SameCore
<1>5. Keeps(gr, Schedule(SendCmd(h, t), t))
  BY <1>1, <1>4, ScheduleSound DEF Keeps, SameCore
<1> QED
  BY <1>5 DEF HardKill, h

\* Going back to Idle keeps the graph sound, and its tasks.
LEMMA ToIdleKept ==
  ASSUME NEW gr, Sound(gr), NEW t \in gr.tasks
  PROVE  /\ Keeps(gr, ToIdle(gr, t))
         /\ ToIdle(gr, t).state = [gr.state EXCEPT ![t] = "Idle"]
BY SetStateSound DEF ToIdle, TaskState

\* land_exit keeps the graph sound, and its tasks, wherever the exit lands.
LEMMA LandExitKept ==
  ASSUME NEW gr, Sound(gr), NEW t \in gr.tasks, NEW info \in ExitInfo
  PROVE  Keeps(gr, LandExit(gr, t, info))
<1> DEFINE s == exit_state(gr.kind[t], gr.restart[t], info)
           landed == SetState(gr, t, s, info)
<1>1. t \in Task
  BY DEF Sound, Graph
<1>2. Keeps(gr, landed)
  BY Landings, SetStateSound
<1> HIDE DEF landed
<1>3. Keeps(gr, Schedule(landed, t))
  BY <1>1, <1>2, ScheduleSound DEF Keeps, SameCore
<1> QED
  BY <1>2, <1>3 DEF LandExit, landed

\* land_stop keeps the graph sound, and its tasks.
LEMMA LandStopKept ==
  ASSUME NEW gr, Sound(gr), NEW t \in gr.tasks, NEW info \in ExitInfo
  PROVE  Keeps(gr, LandStop(gr, t, info))
<1>1. "ready_timeout" \in ExitInfo
  BY DEF ExitInfo
<1> QED
  BY <1>1, LandExitKept, ToIdleKept DEF LandStop

\* What tasks report (on_task_started, on_task_ready, on_task_stopped) keeps the
\* graph sound, and its tasks.
LEMMA ReportsKept ==
  ASSUME NEW gr, Sound(gr), NEW t \in Task, NEW info \in ExitInfo
  PROVE  /\ Keeps(gr, OnTaskStarted(gr, t))
         /\ Keeps(gr, OnTaskReady(gr, t))
         /\ Keeps(gr, OnTaskStopped(gr, t, info))
<1>1. Keeps(gr, OnTaskStarted(gr, t))
  <2> DEFINE s == started_state(gr.kind[t], gr.ready[t])
             up == SetState(gr, t, s, NoExit)
  <2>1. CASE t \in gr.tasks
    <3>1. Keeps(gr, up)
      BY <2>1, Landings, SetStateSound
    <3> HIDE DEF up
    <3>2. Keeps(gr, Schedule(up, t))
      BY <3>1, ScheduleSound DEF Keeps, SameCore
    <3>3. Keeps(gr, gr)
      BY DEF Keeps
    <3> QED
      BY <3>1, <3>2, <3>3 DEF OnTaskStarted, up
  <2>2. CASE t \notin gr.tasks
    BY <2>2 DEF OnTaskStarted, Keeps
  <2> QED
    BY <2>1, <2>2
<1>2. Keeps(gr, OnTaskReady(gr, t))
  <2>1. "Ready" \in TaskState
    BY DEF TaskState, Up
  <2>2. t \in gr.tasks => Keeps(gr, SetState(gr, t, "Ready", NoExit))
    BY <2>1, SetStateSound
  <2> QED
    BY <2>2 DEF OnTaskReady, Keeps
<1>3. Keeps(gr, OnTaskStopped(gr, t, info))
  BY LandStopKept, LandExitKept DEF OnTaskStopped, Keeps
<1> QED
  BY <1>1, <1>2, <1>3

\* on_state_timeout keeps the graph sound, and its tasks, in every state.
LEMMA OnStateTimeoutKept ==
  ASSUME NEW gr, Sound(gr), NEW t \in gr.tasks
  PROVE  Keeps(gr, OnStateTimeout(gr, t))
<1> DEFINE out == [gr EXCEPT !.timed = @ \ {t}]
           gone == LandStop(out, t, "err")
           timedOut == [gone EXCEPT !.stopTimedOut = @ \cup {t}]
<1>1. t \in Task /\ "err" \in ExitInfo
  BY DEF Sound, Graph, ExitInfo
<1>2. /\ out \in Graph /\ SameCore(gr, out)
      /\ out.dirty = gr.dirty /\ out.savedPin = gr.savedPin
  BY <1>1 DEF Sound, Graph, SameCore
<1>3. Keeps(gr, out)
  BY <1>2, FlagsKept
<1> HIDE DEF out
<1>4. Keeps(gr, gone)
  BY <1>1, <1>3, LandStopKept DEF Keeps
<1> HIDE DEF gone
<1>5. /\ timedOut \in Graph /\ SameCore(gone, timedOut)
      /\ timedOut.dirty = gone.dirty /\ timedOut.savedPin = gone.savedPin
  BY <1>1, <1>4, ZenonT(60) DEF Keeps, Sound, Graph, SameCore
<1>6. Keeps(gr, timedOut)
  BY <1>4, <1>5, FlagsKept DEF Keeps
<1> HIDE DEF timedOut
<1>7. Keeps(gr, ToIdle(out, t)) /\ Keeps(gr, HardKill(out, t))
      /\ Keeps(gr, StopTask(out, t, TRUE))
  BY <1>3, ToIdleKept, HardKillKept, StopTaskKept DEF Keeps
<1>8. OnStateTimeout(gr, t) \in
        {ToIdle(out, t), timedOut, gone, HardKill(out, t), StopTask(out, t, TRUE), out}
  BY DEF OnStateTimeout, timedOut, gone, out
<1> QED
  BY <1>3, <1>4, <1>6, <1>7, <1>8
-----------------------------------------------------------------------------
(* The verbs, updates and the reconciler *)

\* set_pin keeps the graph sound, and its tasks.
LEMMA SetPinKept ==
  ASSUME NEW gr, Sound(gr), NEW t \in gr.tasks, NEW pinned \in BOOLEAN
  PROVE  Keeps(gr, SetPin(gr, t, pinned)) /\ SetPin(gr, t, pinned).state = gr.state
<1> DEFINE latest == [gr EXCEPT !.savedPin = @ \ {t}]
<1>1. t \in Task /\ {t} \in SUBSET Task
  BY DEF Sound, Graph
<1>2. /\ latest \in Graph /\ SameCore(gr, latest)
      /\ latest.dirty \subseteq gr.tasks /\ latest.savedPin \subseteq gr.tasks
  BY DEF Sound, Graph, SameCore, Closed, Clean
<1>3. Sound(latest) /\ latest.tasks = gr.tasks /\ latest.state = gr.state
  BY <1>2, SameCoreSound DEF SameCore
<1> HIDE DEF latest
<1>4. /\ Sound(AddEdges(latest, Init0, {t})) /\ SameNodes(latest, AddEdges(latest, Init0, {t}))
      /\ Sound(RemoveEdges(latest, Init0, {t}))
      /\ SameNodes(latest, RemoveEdges(latest, Init0, {t}))
  BY <1>1, <1>3, AddEdgesSound, RemoveEdgesSound
<1> QED
  BY <1>3, <1>4 DEF SetPin, latest, SameNodes, Keeps

\* A demand moves no task into or out of the active states.
LEMMA DemandKept ==
  ASSUME NEW gr, Sound(gr), NEW t \in gr.tasks, NEW rerunDone \in BOOLEAN
  PROVE  Keeps(gr, Demand(gr, t, rerunDone))
<1> DEFINE C == Closure(gr, t) \cap gr.tasks
           revive == {u \in C : \/ gr.state[u] \in {"Backoff", "Exited"}
                                \/ gr.state[u] = "Done" /\ rerunDone /\ u = t}
           parents == UNION {Dependents(gr, u) : u \in {r \in revive : Satisfied(gr, r)}}
           st == [u \in Task |-> IF u \in revive THEN "Idle" ELSE gr.state[u]]
           ex == [u \in Task |-> IF u \in revive THEN NoExit ELSE gr.exit[u]]
           dirt == gr.dirty \cup (C \cap gr.vetoed) \cup revive \cup parents
           idle == [gr EXCEPT
                      !.state = st, !.exit = ex,
                      !.killed = @ \ revive, !.stopTimedOut = @ \ revive,
                      !.timed = @ \ revive, !.startFailed = @ \ C, !.vetoed = @ \ C,
                      !.dirty = dirt]
<1>1. gr \in Graph /\ gr.tasks \subseteq Task
  BY DEF Sound, Graph
<1>2. st \in [Task -> TaskState] /\ ex \in [Task -> ExitInfo \cup {NoExit}]
  BY <1>1 DEF Graph, TaskState
<1>3. dirt \subseteq gr.tasks
  <2>1. parents \subseteq gr.tasks
    BY Ends
  <2> QED
    BY <2>1 DEF Sound, Closed
<1>4. \A u \in Task : is_active(st[u]) <=> is_active(gr.state[u])
  BY DEF is_active, Up
<1>5. Demand(gr, t, rerunDone) = IF revive = {} THEN idle ELSE Notify(idle)
  BY DEF Demand
<1> HIDE DEF st, ex, dirt, C, revive
<1>6. idle \in Graph
  <2>1. dirt \in SUBSET Task
    BY <1>1, <1>3
  <2> QED
    BY <1>1, <1>2, <2>1 DEF Graph
<1>7. /\ idle.tasks = gr.tasks /\ idle.edges = gr.edges /\ idle.wanted = gr.wanted
      /\ idle.wantedParents = gr.wantedParents /\ idle.savedPin = gr.savedPin
      /\ idle.activeDependents = gr.activeDependents
      /\ idle.state = st /\ idle.dirty = dirt
  BY <1>1 DEF Graph
<1> HIDE DEF idle
<1>8. \A u \in Task : Active(idle, u) <=> Active(gr, u)
  BY <1>4, <1>7 DEF Active
<1>9. Closed(idle) /\ Clean(idle)
  BY <1>3, <1>7, <1>8 DEF Sound, Closed, Clean
<1>10. \A u : WantedParents(idle, u) = WantedParents(gr, u)
  BY <1>7 DEF WantedParents, ParentWanted
<1>11. \A u : ActiveDependents(idle, u) = ActiveDependents(gr, u)
  BY <1>7, <1>8 DEF ActiveDependents, Dependents
<1>12. Counted(idle)
  BY <1>7, <1>10, <1>11 DEF Sound, Counted
<1>13. Sound(idle)
  BY <1>6, <1>9, <1>12 DEF Sound
<1> QED
  BY <1>5, <1>7, <1>13, NotifySound DEF Keeps, SameCore

\* set_vetoed keeps the graph sound, and its tasks.
LEMMA SetVetoedKept ==
  ASSUME NEW gr, Sound(gr), NEW t \in gr.tasks
  PROVE  Keeps(gr, SetVetoed(gr, t))
<1> DEFINE h == [gr EXCEPT !.vetoed = @ \cup {t}]
<1>1. /\ h \in Graph /\ SameCore(gr, h)
      /\ h.dirty = gr.dirty /\ h.savedPin = gr.savedPin
  <2>1. gr \in Graph
    BY DEF Sound
  <2>2. gr.vetoed \cup {t} \in SUBSET Task
    BY <2>1 DEF Graph
  <2>3. h \in Graph
    BY <2>1, <2>2 DEF Graph
  <2> QED
    BY <2>1, <2>3, ZenonT(60) DEF Graph, SameCore
<1>2. Keeps(gr, h)
  BY <1>1, FlagsKept
<1> HIDE DEF h
<1>3. Keeps(gr, Enqueue(h, {t}))
  BY <1>2, EnqueueSound DEF Keeps, SameCore
<1> QED
  BY <1>3 DEF SetVetoed, h, Keeps

\* cmd_start and cmd_up keep the graph sound, and its tasks.
LEMMA CmdStartKept ==
  ASSUME NEW gr, Sound(gr), NEW t \in gr.tasks
  PROVE  Keeps(gr, CmdStart(gr, t)) /\ Keeps(gr, CmdUp(gr, t))
BY SetPinKept, DemandKept, ZenonT(60) DEF Keeps, CmdStart, CmdUp

\* stop_if_active keeps the graph sound, and its tasks.
LEMMA StopIfActiveKept ==
  ASSUME NEW gr, Sound(gr), NEW t \in gr.tasks
  PROVE  Keeps(gr, StopIfActive(gr, t))
BY StopTaskKept DEF StopIfActive, Keeps

\* cmd_stop and cmd_restart keep the graph sound, and its tasks.
LEMMA CmdStopKept ==
  ASSUME NEW gr, Sound(gr), NEW t \in gr.tasks
  PROVE  Keeps(gr, CmdStop(gr, t)) /\ Keeps(gr, CmdRestart(gr, t))
<1>1. Keeps(gr, SetPin(gr, t, FALSE)) /\ Keeps(gr, CmdStart(gr, t))
  BY SetPinKept, CmdStartKept
<1>2. \A h : Keeps(gr, h) => Keeps(gr, StopIfActive(h, t))
  BY StopIfActiveKept DEF Keeps
<1> QED
  BY <1>1, <1>2 DEF CmdStop, CmdRestart

\* cmd_kill keeps the graph sound, and its tasks.
LEMMA CmdKillKept ==
  ASSUME NEW gr, Sound(gr), NEW t \in gr.tasks
  PROVE  Keeps(gr, CmdKill(gr, t))
<1> DEFINE unpinned == SetPin(gr, t, FALSE)
           stopping == SetState(unpinned, t, "Stopping", NoExit)
<1>1. Keeps(gr, unpinned)
  BY SetPinKept
<1> HIDE DEF unpinned
<1>2. Keeps(gr, stopping)
  <2>1. "Stopping" \in TaskState /\ Sound(unpinned) /\ t \in unpinned.tasks
    BY <1>1 DEF TaskState, Keeps
  <2>2. Keeps(unpinned, stopping)
    BY <2>1, SetStateSound
  <2> QED
    BY <1>1, <2>2 DEF Keeps
<1> HIDE DEF stopping
<1>3. Keeps(gr, HardKill(stopping, t)) /\ Keeps(gr, HardKill(unpinned, t))
  BY <1>1, <1>2, HardKillKept DEF Keeps
<1>4. CmdKill(gr, t) \in {HardKill(stopping, t), HardKill(unpinned, t), unpinned}
  BY DEF CmdKill, stopping, unpinned
<1> QED
  BY <1>1, <1>3, <1>4

\* Every verb yields a sound graph; only a removal changes which tasks it has.
LEMMA ActSound ==
  ASSUME NEW gr, Sound(gr), NEW t \in gr.tasks, NEW verb \in Verb
  PROVE  /\ Sound(Act(verb, gr, t))
         /\ Act(verb, gr, t).tasks \in {gr.tasks, gr.tasks \ {t}}
<1>1. Keeps(gr, CmdStart(CmdKill(gr, t), t))
  BY CmdKillKept, CmdStartKept DEF Keeps
<1>2. Keeps(gr, CmdVeto(gr, t)) /\ Keeps(gr, SetPin(gr, t, FALSE))
  BY SetPinKept, SetVetoedKept, ZenonT(60) DEF Keeps, CmdVeto
<1>3. Act(verb, gr, t) \in
        {CmdUp(gr, t), CmdStart(gr, t), CmdRestart(gr, t), CmdStart(CmdKill(gr, t), t),
         CmdStop(gr, t), CmdKill(gr, t), CmdVeto(gr, t), SetPin(gr, t, FALSE),
         RemoveTask(gr, t)}
  BY DEF Act, Verb
<1>4. \A h : Keeps(gr, h) => Sound(h) /\ h.tasks = gr.tasks
  BY DEF Keeps
<1>5. /\ Keeps(gr, CmdStart(gr, t)) /\ Keeps(gr, CmdUp(gr, t)) /\ Keeps(gr, CmdStop(gr, t))
      /\ Keeps(gr, CmdRestart(gr, t)) /\ Keeps(gr, CmdKill(gr, t))
  BY CmdStartKept, CmdStopKept, CmdKillKept
<1>6. CASE Act(verb, gr, t) = RemoveTask(gr, t)
  BY <1>6, RemoveTaskSound
<1>7. CASE Act(verb, gr, t) # RemoveTask(gr, t)
  <2>1. Keeps(gr, Act(verb, gr, t))
    BY <1>1, <1>2, <1>3, <1>5, <1>7
  <2> QED
    BY <1>4, <2>1
<1> QED
  BY <1>6, <1>7

\* update_task keeps the graph sound, and its tasks, whatever the new deps: an edge
\* to a task that is not registered is not added.
LEMMA UpdateTaskKept ==
  ASSUME NEW gr, Sound(gr), NEW t \in gr.tasks, NEW def \in TaskDef
  PROVE  Keeps(gr, UpdateTask(gr, t, def))
<1> DEFINE now == [gr EXCEPT !.kind[t] = def.kind, !.ready[t] = def.ready,
                             !.next[t] = NoNext, !.restart[t] = def.restart]
           later == [gr EXCEPT !.next[t] = [kind |-> def.kind, ready |-> def.ready],
                               !.restart[t] = def.restart]
           redefined == IF gr.state[t] = "Idle" THEN now ELSE later
           unlinked == RemoveEdges(redefined, t, Deps(gr, t) \ def.deps)
           linked == AddEdges(unlinked, t, def.deps)
           told == Enqueue(Notify(linked), {t})
<1>1. /\ def.kind \in TaskKind /\ def.ready \in ReadyMode
      /\ def.restart \in RestartMode /\ def.deps \in SUBSET Task
  BY DEF TaskDef
<1>2. gr \in Graph /\ t \in Task /\ Deps(gr, t) \ def.deps \in SUBSET Task
  BY DEF Sound, Graph, Deps
<1>3. Keeps(gr, now)
  <2>1. /\ now \in Graph /\ SameCore(gr, now)
        /\ now.dirty = gr.dirty /\ now.savedPin = gr.savedPin
    BY <1>1, <1>2 DEF Graph, SameCore
  <2> QED
    BY <2>1, FlagsKept
<1>4. Keeps(gr, later)
  <2>1. [kind |-> def.kind, ready |-> def.ready] \in NextRun
    BY <1>1 DEF NextRun
  <2>2. /\ later \in Graph /\ SameCore(gr, later)
        /\ later.dirty = gr.dirty /\ later.savedPin = gr.savedPin
    BY <1>1, <1>2, <2>1 DEF Graph, SameCore
  <2> QED
    BY <2>2, FlagsKept
<1> HIDE DEF now, later
<1>5. Keeps(gr, redefined)
  BY <1>3, <1>4
<1> HIDE DEF redefined
<1>6. Keeps(gr, unlinked)
  BY <1>2, <1>5, RemoveEdgesSound DEF Keeps, SameNodes
<1> HIDE DEF unlinked
<1>7. Keeps(gr, linked)
  BY <1>1, <1>2, <1>6, AddEdgesSound DEF Keeps, SameNodes
<1> HIDE DEF linked
<1>8. Keeps(gr, told)
  BY <1>7, NotifySound, EnqueueSound DEF Keeps, SameCore
<1> HIDE DEF told
<1>9. Keeps(gr, CmdRestart(told, t))
  BY <1>8, CmdStopKept DEF Keeps
<1> QED
  BY <1>8, <1>9 DEF UpdateTask, told, linked, unlinked, redefined, now, later

\* Turning a task's `wanted` moves the counters of its deps with it.
LEMMA RecomputeKept ==
  ASSUME NEW gr, Sound(gr), NEW t \in gr.tasks
  PROVE  Keeps(gr, RecomputeCaches(gr, t)) /\ RecomputeCaches(gr, t).state = gr.state
<1> DEFINE now == ComputeWanted(gr, t)
           turned == now # (t \in gr.wanted)
           want == IF now THEN gr.wanted \cup {t} ELSE gr.wanted \ {t}
           wp == Bump(gr.wantedParents, Deps(gr, t), IF now THEN 1 ELSE -1)
           k == [gr EXCEPT !.wanted = want, !.wantedParents = wp]
           g1 == IF ~turned THEN gr ELSE Enqueue(k, Deps(gr, t))
           sup == IF ComputeSupported(g1, t) THEN g1.supported \cup {t}
                  ELSE g1.supported \ {t}
           m == [g1 EXCEPT !.supported = sup]
<1>1. /\ gr \in Graph /\ t \in Task /\ gr.tasks \subseteq Task
      /\ gr.wantedParents \in [Task -> Int] /\ gr.wanted \subseteq gr.tasks
  BY DEF Sound, Graph, Clean
<1>2. now \in BOOLEAN
  BY DEF ComputeWanted
<1>3. wp \in [Task -> Int] /\ want \subseteq gr.tasks
  BY <1>1, BumpType
<1>4. turned => Sound(k) /\ k.tasks = gr.tasks /\ k.state = gr.state
  <2> SUFFICES ASSUME turned PROVE Sound(k) /\ k.tasks = gr.tasks /\ k.state = gr.state
    OBVIOUS
  <2> HIDE DEF want, wp, now
  <2>1. /\ k \in Graph /\ SameCounted(gr, k) /\ k.dirty = gr.dirty
        /\ k.savedPin = gr.savedPin /\ k.wanted = want /\ k.wantedParents = wp
    BY <1>1, <1>3 DEF Graph, SameCounted
  <2> HIDE DEF k
  <2>2. Closed(k) /\ Clean(k)
    BY <1>3, <2>1 DEF Sound, Closed, Clean, SameCounted, Active
  <2>3. \A u : ActiveDependents(k, u) = ActiveDependents(gr, u)
    BY <2>1 DEF ActiveDependents, Dependents, SameCounted, Active
  <2>4. ASSUME NEW u \in Task
        PROVE  k.wantedParents[u] = Cardinality(WantedParents(k, u))
    <3>1. /\ gr.wantedParents[u] = Cardinality(WantedParents(gr, u))
          /\ gr.wantedParents[u] \in Int
      BY <1>1 DEF Sound, Counted
    <3>2. u \in Deps(gr, t) <=> <<t, u>> \in gr.edges
      BY DEF Deps
    <3>3. k.edges = gr.edges
      BY <2>1 DEF SameCounted
    <3>4. t # Init0
      BY <1>1, TaskAssumption
    <3>5. CASE u \notin Deps(gr, t)
      <4>1. WantedParents(k, u) = WantedParents(gr, u)
        BY <2>1, <3>2, <3>3, <3>5 DEF WantedParents, ParentWanted, want
      <4>2. k.wantedParents[u] = gr.wantedParents[u]
        BY <1>1, <2>1, <3>5, BumpAt DEF wp
      <4> QED
        BY <3>1, <4>1, <4>2
    <3>6. CASE u \in Deps(gr, t) /\ now
      <4>0. t \notin gr.wanted /\ want = gr.wanted \cup {t}
        BY <1>2, <3>6 DEF want
      <4>1. WantedParents(k, u) = WantedParents(gr, u) \cup {t}
        BY <1>1, <2>1, <3>2, <3>3, <3>6, <4>0 DEF WantedParents, ParentWanted
      <4>2. t \notin WantedParents(gr, u)
        BY <3>4, <4>0 DEF WantedParents, ParentWanted
      <4>3. k.wantedParents[u] = gr.wantedParents[u] + 1
        BY <1>1, <2>1, <3>6, BumpAt DEF wp
      <4> QED
        BY <3>1, <4>1, <4>2, <4>3, Finite, OneMore
    <3>7. CASE u \in Deps(gr, t) /\ ~now
      <4>0. t \in gr.wanted /\ want = gr.wanted \ {t}
        BY <1>2, <3>7 DEF want
      <4>1. WantedParents(k, u) = WantedParents(gr, u) \ {t}
        BY <1>1, <2>1, <3>2, <3>3, <3>4, <3>7, <4>0 DEF WantedParents, ParentWanted
      <4>2. t \in WantedParents(gr, u)
        BY <1>1, <3>2, <3>7, <4>0 DEF WantedParents, ParentWanted
      <4>3. k.wantedParents[u] = gr.wantedParents[u] + (-1)
        BY <1>1, <2>1, <3>7, BumpAt DEF wp
      <4> QED
        BY <3>1, <4>1, <4>2, <4>3, Finite, OneLess
    <3> QED
      BY <3>5, <3>6, <3>7
  <2>5. Counted(k)
    BY <2>1, <2>3, <2>4 DEF Sound, Counted, SameCounted
  <2> QED
    BY <2>1, <2>2, <2>5 DEF Sound, SameCounted
<1>5. Keeps(gr, g1) /\ g1.state = gr.state
  <2> HIDE DEF k
  <2> QED
    BY <1>4, EnqueueSound DEF Keeps, SameCore
<1>6. RecomputeCaches(gr, t) = IF ComputeSupported(g1, t) = (t \in g1.supported) THEN g1
                               ELSE Enqueue(m, Dependents(gr, t))
  BY DEF RecomputeCaches
<1> HIDE DEF g1
<1>7. sup \in SUBSET Task /\ g1 \in Graph
  BY <1>1, <1>5 DEF Keeps, Sound, Graph
<1> HIDE DEF sup
<1>8. /\ m \in Graph /\ SameCore(g1, m)
      /\ m.dirty = g1.dirty /\ m.savedPin = g1.savedPin
  BY <1>7 DEF Graph, SameCore
<1>9. Keeps(g1, m) /\ m.state = g1.state
  BY <1>5, <1>8, FlagsKept DEF Keeps, SameCore
<1> HIDE DEF m
<1>10. Keeps(gr, Enqueue(m, Dependents(gr, t))) /\ Enqueue(m, Dependents(gr, t)).state = gr.state
  BY <1>5, <1>9, EnqueueSound DEF Keeps, SameCore
<1> QED
  BY <1>5, <1>6, <1>10

\* drive_task keeps the graph sound, and its tasks.
LEMMA DriveTaskKept ==
  ASSUME NEW gr, Sound(gr), NEW t \in gr.tasks
  PROVE  Keeps(gr, DriveTask(gr, t))
<1>1. DriveTask(gr, t) \in {StartTask(gr, t), StopTask(gr, t, FALSE), ToIdle(gr, t), gr}
  BY DEF DriveTask
<1>2. Keeps(gr, gr)
  BY DEF Keeps
<1>3. /\ Keeps(gr, StartTask(gr, t)) /\ Keeps(gr, ToIdle(gr, t))
      /\ Keeps(gr, StopTask(gr, t, FALSE))
  BY StartTaskKept, StopTaskKept, ToIdleKept
<1> QED
  BY <1>1, <1>2, <1>3
\* A step that drives one task stops no other, and stops that one only when
\* its count of active dependents is zero.
LEMMA DriveStops ==
  ASSUME NEW gr, Sound(gr), NEW t \in gr.tasks, NEW u \in gr.tasks,
         gr.state[u] \in Up, DriveTask(gr, t).state[u] = "Stopping"
  PROVE  u = t /\ gr.activeDependents[u] = 0
<1>1. gr.state \in [Task -> TaskState] /\ t \in Task /\ u \in Task
  BY DEF Sound, Graph
<1>2. gr.state[u] # "Stopping"
  BY DEF Up
<1>3. /\ StartTask(gr, t).state = [gr.state EXCEPT ![t] = "Starting"]
      /\ ToIdle(gr, t).state = [gr.state EXCEPT ![t] = "Idle"]
      /\ StopTask(gr, t, FALSE).state = [gr.state EXCEPT ![t] = "Stopping"]
  BY StartTaskKept, ToIdleKept, StopTaskKept
<1>4. /\ StartTask(gr, t).state[u] # "Stopping" /\ ToIdle(gr, t).state[u] # "Stopping"
      /\ StopTask(gr, t, FALSE).state[u] = "Stopping" => u = t
  BY <1>1, <1>2, <1>3
<1>5. \/ DriveTask(gr, t) \in {gr, StartTask(gr, t), ToIdle(gr, t)}
      \/ DriveTask(gr, t) = StopTask(gr, t, FALSE) /\ gr.activeDependents[t] = 0
  <2> DEFINE stops == t \notin gr.supported /\ gr.state[t] \in Up /\ gr.activeDependents[t] = 0
  <2>1. CASE stops
    <3>1. gr.state[t] # "Idle" /\ gr.state[t] # "Backoff"
      BY <2>1 DEF Up
    <3> QED
      BY <2>1, <3>1 DEF DriveTask
  <2>2. CASE ~stops
    BY <2>2 DEF DriveTask
  <2> QED
    BY <2>1, <2>2
<1> QED
  BY <1>2, <1>4, <1>5

-----------------------------------------------------------------------------
(* The kernel *)

Work == [verb : Verb] \cup [verb : {"Update"}, def : TaskDef]

\* What holds between any two steps of the loop.
IInv ==
  /\ TypeOK
  /\ Sound(g)
  /\ toDrive \subseteq g.tasks
  /\ todo \subseteq g.tasks
  /\ fresh \cap g.tasks = {}
  /\ pc \notin {"propagate", "drive"} => toDrive = {}
  /\ pc = "dispatch" => apply \in Work
  /\ pc # "dispatch" => todo = {}

\* The empty graph satisfies the inductive invariant.
LEMMA InitIInv == Init => IInv
<1> SUFFICES ASSUME Init PROVE IInv
  OBVIOUS
<1>1. EmptyGraph \in Graph
  BY DEF EmptyGraph, Graph, TaskState, TaskKind, ReadyMode, RestartMode
<1>2. /\ EmptyGraph.tasks = {} /\ EmptyGraph.edges = {} /\ EmptyGraph.dirty = {}
      /\ EmptyGraph.wanted = {} /\ EmptyGraph.savedPin = {}
      /\ \A t \in Task : EmptyGraph.state[t] = "Idle"
      /\ \A t \in Task : EmptyGraph.wantedParents[t] = 0
      /\ \A t \in Task : EmptyGraph.activeDependents[t] = 0
  BY DEF EmptyGraph
<1>3. Closed(EmptyGraph) /\ Clean(EmptyGraph)
  BY <1>2 DEF Closed, Clean, Active, is_active, Up
<1>4. \A t \in Task : WantedParents(EmptyGraph, t) = {} /\ ActiveDependents(EmptyGraph, t) = {}
  BY <1>2 DEF WantedParents, ActiveDependents, Dependents
<1>5. Counted(EmptyGraph)
  BY <1>2, <1>4, FS_EmptySet DEF Counted
<1>6. Sound(g)
  BY <1>1, <1>3, <1>5 DEF Sound, Init
<1>7. TypeOK
  BY <1>1, KernelAssumption DEF TypeOK, Init
<1> QED
  BY <1>2, <1>6, <1>7 DEF IInv, Init

\* Every step of the loop preserves the inductive invariant.
LEMMA NextIInv == IInv /\ [Next]_vars => IInv'
<1> SUFFICES ASSUME IInv, [Next]_vars PROVE IInv'
  OBVIOUS
<1> USE DEF IInv
<1>0. g.tasks \subseteq Task /\ g.savedPin \subseteq g.tasks
  BY DEF Sound, Graph, Clean
<1>1. ASSUME NEW t \in fresh, NEW def \in Def[t], RecvRegister(t, def) PROVE IInv'
  <2>1. t \in Task \ g.tasks /\ def \in TaskDef
    BY KernelAssumption DEF TypeOK
  <2>2. Sound(g)' /\ g'.tasks \subseteq g.tasks \cup {t}
    BY <1>1, <2>1, RegisterSound DEF RecvRegister
  <2>3. g' \in Graph
    BY <2>2 DEF Sound
  <2> QED
    BY <1>1, <2>2, <2>3 DEF RecvRegister, TypeOK
<1>2. ASSUME NEW verb \in VerbSet, NEW S \in Selection, RecvAct(verb, S) PROVE IInv'
  <2>1. [verb |-> verb] \in Work
    BY KernelAssumption DEF Work
  <2> QED
    BY <1>0, <1>2, <2>1, KernelAssumption
    DEF RecvAct, UserCommand, BeginDispatch, TypeOK, Work
<1>3. ASSUME NEW S \in Selection, NEW def \in UNION {Def[t] : t \in S},
             RecvUpdate(S, def)
      PROVE  IInv'
  <2>1. def \in TaskDef
    BY KernelAssumption
  <2>2. [verb |-> "Update", def |-> def] \in Work
    BY <2>1 DEF Work
  <2> DEFINE T == IF UpdateAccepted(S \cap g.tasks, def) THEN S \cap g.tasks ELSE {}
  <2>3. T \subseteq g.tasks /\ BeginDispatch(T, [verb |-> "Update", def |-> def])
    BY <1>3 DEF RecvUpdate
  <2> HIDE DEF T
  <2>4. /\ pc = "recv" /\ cmds' \in 0 .. MaxCmds /\ g' = g /\ toDrive' = toDrive
        /\ fresh' = fresh
    BY <1>3, KernelAssumption DEF RecvUpdate, UserCommand, TypeOK
  <2> QED
    BY <1>0, <2>2, <2>3, <2>4 DEF BeginDispatch, TypeOK, Work
<1>4. CASE RecvQuit
  <2> DEFINE h == [g EXCEPT !.quitting = TRUE]
  <2>1. h \in Graph /\ SameCore(g, h) /\ h.dirty = g.dirty /\ h.savedPin = g.savedPin
    BY DEF TypeOK, Graph, SameCore
  <2>2. Keeps(g, h)
    BY <2>1, FlagsKept
  <2> HIDE DEF h
  <2>3. Sound(Enqueue(h, g.tasks)) /\ Enqueue(h, g.tasks).tasks = g.tasks
    BY <2>2, EnqueueSound DEF Keeps, SameCore
  <2>4. Sound(g)' /\ g'.tasks = g.tasks
    BY <1>4, <2>3 DEF RecvQuit, h
  <2>5. /\ pc' \in {"exited", "settle"} /\ cmds' \in 0 .. MaxCmds /\ toDrive' = toDrive
        /\ pc = "recv" /\ fresh' = fresh /\ todo' = todo /\ apply' = apply
    BY <1>4, KernelAssumption DEF RecvQuit, UserCommand, TypeOK
  <2> QED
    BY <2>4, <2>5 DEF TypeOK, Sound
<1>5. ASSUME NEW t \in Task, NEW report \in Report, RecvReport(t, report) PROVE IInv'
  <2>1. "ok" \in ExitInfo /\ "err" \in ExitInfo
    BY DEF ExitInfo
  <2>2. g' \in {OnTaskStarted(g, t), OnTaskReady(g, t), OnTaskStopped(g, t, "ok"),
                OnTaskStopped(g, t, "err")}
    BY <1>5 DEF RecvReport, Report
  <2>3. Sound(g)' /\ g'.tasks = g.tasks
    BY <2>1, <2>2, ReportsKept DEF Keeps
  <2> QED
    BY <1>5, <2>3 DEF RecvReport, TypeOK, Sound
<1>6. ASSUME NEW t \in Task, RecvTimeout(t) PROVE IInv'
  <2>1. Sound(g)' /\ g'.tasks = g.tasks
    BY <1>6, OnStateTimeoutKept DEF RecvTimeout, Keeps
  <2> QED
    BY <1>6, <2>1 DEF RecvTimeout, TypeOK, Sound
<1>7. ASSUME NEW t \in Mortal, HandlerEnds(t) PROVE IInv'
  <2> DEFINE h == [g EXCEPT !.dead = @ \cup {t}]
  <2>0. t \in Task
    BY KernelAssumption
  <2>1. h \in Graph /\ SameCore(g, h) /\ h.dirty = g.dirty /\ h.savedPin = g.savedPin
    BY <2>0, SMTT(30) DEF TypeOK, Graph, SameCore
  <2>2. Keeps(g, h)
    BY <2>1, FlagsKept
  <2>3. Sound(g)' /\ g'.tasks = g.tasks
    BY <1>7, <2>2 DEF HandlerEnds, Keeps
  <2> QED
    BY <1>7, <2>3 DEF HandlerEnds, TypeOK, Sound
<1>8. ASSUME NEW t \in Task, ActOn(t) PROVE IInv'
  <2>1. t \in g.tasks /\ apply \in Work
    BY <1>8 DEF ActOn
  <2>2. Sound(g)' /\ g'.tasks \in {g.tasks, g.tasks \ {t}}
    <3>1. CASE apply.verb = "Update"
      <4>1. apply.def \in TaskDef
        BY <2>1, <3>1 DEF Work, Verb
      <4> QED
        BY <1>8, <2>1, <3>1, <4>1, UpdateTaskKept DEF ActOn, Keeps
    <3>2. CASE apply.verb # "Update"
      <4>1. apply.verb \in Verb
        BY <2>1, <3>2 DEF Work
      <4> QED
        BY <1>8, <2>1, <3>2, <4>1, ActSound DEF ActOn
    <3> QED
      BY <3>1, <3>2
  <2> QED
    BY <1>8, <2>1, <2>2 DEF ActOn, BeginDispatch, TypeOK, Sound, Work
<1>9. ASSUME NEW t \in Task, ApplyEffect(t) PROVE IInv'
  <2> DEFINE h == [g EXCEPT !.effects = @ \ {t}]
  <2>1. h \in Graph /\ SameCore(g, h) /\ h.dirty = g.dirty /\ h.savedPin = g.savedPin
    BY DEF TypeOK, Graph, SameCore
  <2>2. Keeps(g, h)
    BY <2>1, FlagsKept
  <2> HIDE DEF h
  <2>3. Keeps(h, OnTaskStopped(h, t, "err"))
    BY <2>2, ReportsKept DEF Keeps, ExitInfo
  <2>4. Sound(g)' /\ g'.tasks = g.tasks
    BY <1>9, <2>2, <2>3 DEF ApplyEffect, Keeps, h
  <2> QED
    BY <1>9, <2>4 DEF ApplyEffect, TypeOK, Sound
<1>10. ASSUME NEW t \in Task, Recompute(t) PROVE IInv'
  <2> DEFINE h == [g EXCEPT !.dirty = @ \ {t}]
  <2>1. h \in Graph /\ SameCore(g, h) /\ h.dirty \subseteq g.tasks /\ h.savedPin \subseteq g.tasks
    BY <1>0 DEF TypeOK, Graph, SameCore, Sound, Closed
  <2>2. Sound(h) /\ h.tasks = g.tasks
    BY <2>1, SameCoreSound DEF SameCore
  <2> HIDE DEF h
  <2>3. t \in g.tasks
    BY <1>10 DEF Recompute, Sound, Closed
  <2>4. Sound(g)' /\ g'.tasks = g.tasks
    BY <1>10, <2>2, <2>3, RecomputeKept DEF Recompute, Keeps, h
  <2> QED
    BY <1>10, <2>3, <2>4 DEF Recompute, TypeOK, Sound
<1>11. ASSUME NEW t \in Task, Drive(t) PROVE IInv'
  <2>1. Sound(g)' /\ g'.tasks = g.tasks
    BY <1>11, DriveTaskKept DEF Drive, Keeps
  <2> QED
    BY <1>11, <2>1 DEF Drive, TypeOK, Sound
<1>12. CASE Settled
  BY <1>12 DEF Settled, TypeOK
<1>13. CASE UNCHANGED vars
  BY <1>13 DEF vars, TypeOK
<1> QED
  BY <1>1, <1>2, <1>3, <1>4, <1>5, <1>6, <1>7, <1>8, <1>9, <1>10, <1>11, <1>12, <1>13
  DEF Next, Message, Turn, Stand

\* So it holds throughout.
LEMMA Invariance == Spec => []IInv
BY InitIInv, NextIInv, PTL DEF Spec

\* Type correctness: whatever the tasks report and the users ask, the state is
\* of its type.
THEOREM TypeCorrect == Spec => []TypeOK
<1>1. IInv => TypeOK
  BY DEF IInv
<1> QED
  BY <1>1, Invariance, PTL

\* No edge and no queue ever names a task that is gone, so the kernel's
\* `expect("queued id live")` cannot fail.
THEOREM GraphStaysClosed == Spec => []GraphClosed
<1>1. IInv => GraphClosed
  BY DEF IInv, Sound, GraphClosed
<1> QED
  BY <1>1, Invariance, PTL

\* The counters are exact at every step, though they are only ever moved by
\* increments and decrements; so they never go below zero.
THEOREM CountersStayExact == Spec => []CountersExact
<1>1. IInv => CountersExact
  BY DEF IInv, Sound, CountersExact
<1> QED
  BY <1>1, Invariance, PTL

\* Dependents first: the reconciler never stops a task while one that
\* requires it is active, for any graph.  It decides on a counter; the
\* counter's exactness is what makes the decision right.
THEOREM DependentsFirst == Spec => StopsAfterDependents
<1>1. IInv /\ [Next]_vars =>
        [\A t \in g.tasks :
           pc = "drive" /\ g.state[t] \in Up /\ g'.state[t] = "Stopping" =>
             ActiveDependents(g, t) = {}]_g
  <2> SUFFICES ASSUME IInv, [Next]_vars, NEW t \in g.tasks, pc = "drive",
                      g.state[t] \in Up, g'.state[t] = "Stopping"
               PROVE  ActiveDependents(g, t) = {}
    OBVIOUS
  <2>1. Sound(g) /\ toDrive \subseteq g.tasks /\ t \in Task
    BY DEF IInv, Sound, Graph
  <2>2. g'.state # g.state
    BY DEF Up
  <2>3. PICK u \in Task : Drive(u)
    <3>1. ASSUME NEW u \in Mortal, HandlerEnds(u) PROVE FALSE
      BY <2>1, <2>2, <3>1 DEF HandlerEnds, Sound, Graph
    <3> QED
      BY <2>2, <3>1
      DEF Next, Message, Turn, Stand, vars, RecvRegister, RecvAct, RecvUpdate, RecvQuit,
          RecvReport, RecvTimeout, ActOn, ApplyEffect, Recompute, Settled, UserCommand
  <2>4. g.activeDependents[t] = 0
    BY <2>1, <2>3, DriveStops DEF Drive
  <2>5. Cardinality(ActiveDependents(g, t)) = 0
    BY <2>1, <2>4 DEF Sound, Counted
  <2> QED
    BY <2>5, Finite, FS_EmptySet
<1> QED
  BY <1>1, Invariance, PTL DEF Spec, StopsAfterDependents

-----------------------------------------------------------------------------
(***************************************************************************)
(* Where each run is: its state, the timer on it, the flags of a stop and  *)
(* the exit it ended with, at every step of the kernel's loop.             *)
(***************************************************************************)

\* The marks on one task: its timer and the flags of its stop are those of its
\* state.
Marked(gr, t) ==
  /\ t \in gr.timed <=> timed_state(gr.state[t], gr.ready[t])
  /\ t \in gr.killed => gr.state[t] = "Stopping"
  /\ t \in gr.startFailed => gr.state[t] = "Stopping" /\ has_timeout(gr.ready[t])
  /\ t \in gr.stopTimedOut => gr.state[t] = "Idle"

\* The marks on every task; one that is not registered is idle, so that no timer
\* is set on it when its id is given to a task.
Marks(gr) ==
  /\ \A t \in Task : Marked(gr, t)
  /\ \A t \in Task \ gr.tasks : gr.state[t] = "Idle"

\* The state of u in h is its state in gr, or one the diagram leads to, with the
\* exit that goes with it.  It is not a start: only the reconciler starts a task.
Move(gr, h, u) ==
  gr.state[u] # h.state[u] =>
    /\ gr.state[u] # "Idle"
    /\ gr.state[u] = "Starting" => h.state[u] \in {"Running", "Ready", "Stopping"} \cup Ended
    /\ gr.state[u] = "Running" => h.state[u] \in {"Ready", "Stopping"} \cup Ended
    /\ gr.state[u] = "Ready" => h.state[u] \in {"Stopping"} \cup Ended
    /\ gr.state[u] = "Stopping" /\ u \in gr.startFailed => h.state[u] \in {"Backoff", "Exited"}
    /\ gr.state[u] = "Stopping" /\ u \notin gr.startFailed => h.state[u] = "Idle"
    /\ gr.state[u] \in Ended => h.state[u] = "Idle"
    /\ h.exit[u] = "ready_timeout" <=> gr.state[u] = "Stopping" /\ h.state[u] \in Ended

\* What every operation but a start gives: the marks, and legal moves only.
Fine(gr, h) ==
  Marks(h) /\ \A u \in Task : u \in gr.tasks \cap h.tasks => Move(gr, h, u)

\* h says of u's run what gr says.
SameRun(gr, h, u) ==
  /\ h.state[u] = gr.state[u] /\ h.exit[u] = gr.exit[u] /\ h.ready[u] = gr.ready[u]
  /\ u \in h.timed <=> u \in gr.timed
  /\ u \in h.killed <=> u \in gr.killed
  /\ u \in h.startFailed <=> u \in gr.startFailed
  /\ u \in h.stopTimedOut <=> u \in gr.stopTimedOut

\* h says of every run what gr says, or of every run but t's.
SameRuns(gr, h) == h.tasks = gr.tasks /\ \A u \in Task : SameRun(gr, h, u)
OnlyAt(gr, h, t) == h.tasks = gr.tasks /\ \A u \in Task \ {t} : SameRun(gr, h, u)

\* t is in state s with exit info, and bears no mark.
Plain(h, t, s, info) ==
  /\ h.state[t] = s /\ h.exit[t] = info
  /\ t \notin h.timed /\ t \notin h.killed /\ t \notin h.startFailed
  /\ t \notin h.stopTimedOut

\* What a start gives.
Starts(gr, h, t) ==
  /\ gr.state[t] = "Idle" /\ Marks(h) /\ OnlyAt(gr, h, t)
  /\ Plain(h, t, "Starting", NoExit)

-----------------------------------------------------------------------------
(* How the marks and the moves compose *)

\* The marks of t are its run's.
LEMMA SameRunMarked ==
  ASSUME NEW gr, NEW h, NEW u, SameRun(gr, h, u), Marked(gr, u)
  PROVE  Marked(h, u)
BY DEF SameRun, Marked

\* An operation that leaves the runs alone is fine.
LEMMA SameRunsFine ==
  ASSUME NEW gr, Marks(gr), NEW h, SameRuns(gr, h)
  PROVE  Fine(gr, h)
<1>1. Marks(h)
  <2>1. \A u \in Task : Marked(h, u)
    BY SameRunMarked DEF Marks, SameRuns
  <2> QED
    BY <2>1 DEF Marks, SameRuns, SameRun
<1>2. \A u \in Task : Move(gr, h, u)
  BY DEF SameRuns, SameRun, Move
<1> QED
  BY <1>1, <1>2 DEF Fine

-----------------------------------------------------------------------------
(* set_state *)

\* h is gr with t moved to s, every part of it that anyone looks at.
MovedTo(gr, h, t, s, info) ==
  /\ h.edges = gr.edges /\ h.kind = gr.kind /\ h.ready = gr.ready
  /\ h.vetoed = gr.vetoed /\ h.wanted = gr.wanted /\ h.supported = gr.supported
  /\ h.wantedParents = gr.wantedParents /\ h.quitting = gr.quitting
  /\ h.state = [gr.state EXCEPT ![t] = s]
  /\ h.exit = [gr.exit EXCEPT ![t] = info]
  /\ h.killed = gr.killed \ {t} /\ h.startFailed = gr.startFailed \ {t}
  /\ h.stopTimedOut = gr.stopTimedOut \ {t} /\ h.timed = gr.timed \ {t}
  /\ h.activeDependents =
       IF Active(gr, t) # is_active(s)
       THEN Bump(gr.activeDependents, Deps(gr, t), IF is_active(s) THEN 1 ELSE -1)
       ELSE gr.activeDependents
  /\ h.dirty = gr.dirty \cup {t}
       \cup (IF Satisfied(gr, t) # is_satisfied(gr.kind[t], s)
             THEN Dependents(gr, t) ELSE {})
       \cup (IF Active(gr, t) # is_active(s) THEN Deps(gr, t) ELSE {})

\* set_state moves a task whose state is another.
LEMMA SetStateAll ==
  ASSUME NEW gr, Sound(gr), NEW t \in gr.tasks, NEW s \in TaskState,
         NEW info \in ExitInfo \cup {NoExit}, gr.state[t] # s
  PROVE  /\ Keeps(gr, SetState(gr, t, s, info))
         /\ MovedTo(gr, SetState(gr, t, s, info), t, s, info)
<1> DEFINE h == SetState(gr, t, s, info)
<1>1. Keeps(gr, h)
  BY SetStateSound
<1>2. gr \in Graph
  BY DEF Sound
<1> DEFINE gate == Active(gr, t) # is_active(s)
           count == IF gate
                    THEN Bump(gr.activeDependents, Deps(gr, t), IF is_active(s) THEN 1 ELSE -1)
                    ELSE gr.activeDependents
           dirt == gr.dirty \cup {t}
                     \cup (IF Satisfied(gr, t) # is_satisfied(gr.kind[t], s)
                           THEN Dependents(gr, t) ELSE {})
                     \cup (IF gate THEN Deps(gr, t) ELSE {})
           k == [gr EXCEPT
                   !.state[t] = s, !.exit[t] = info,
                   !.killed = @ \ {t}, !.startFailed = @ \ {t},
                   !.stopTimedOut = @ \ {t}, !.timed = @ \ {t},
                   !.activeDependents = count, !.dirty = dirt]
<1>3. h = [k EXCEPT !.effects = @ \cup (Listener \cap k.tasks \cap k.dead)]
  BY DEF SetState, Notify
<1> HIDE DEF count, dirt
<1>4. /\ k.edges = gr.edges /\ k.kind = gr.kind /\ k.ready = gr.ready
      /\ k.vetoed = gr.vetoed /\ k.wanted = gr.wanted /\ k.supported = gr.supported
      /\ k.wantedParents = gr.wantedParents /\ k.quitting = gr.quitting
      /\ k.state = [gr.state EXCEPT ![t] = s]
      /\ k.exit = [gr.exit EXCEPT ![t] = info]
      /\ k.killed = gr.killed \ {t} /\ k.startFailed = gr.startFailed \ {t}
      /\ k.stopTimedOut = gr.stopTimedOut \ {t} /\ k.timed = gr.timed \ {t}
      /\ k.activeDependents = count /\ k.dirty = dirt
      /\ DOMAIN k = DOMAIN gr
  BY <1>2 DEF Graph
<1>5. DOMAIN gr =
        {"tasks", "edges", "state", "exit", "kind", "ready", "restart", "next", "vetoed",
         "killed", "startFailed", "stopTimedOut", "savedPin", "dead", "timed", "wanted",
         "supported", "wantedParents", "activeDependents", "dirty", "effects", "quitting"}
  BY <1>2 DEF Graph
<1> HIDE DEF k
<1>6. /\ h.edges = k.edges /\ h.kind = k.kind /\ h.ready = k.ready
      /\ h.vetoed = k.vetoed /\ h.wanted = k.wanted /\ h.supported = k.supported
      /\ h.wantedParents = k.wantedParents /\ h.quitting = k.quitting
      /\ h.state = k.state /\ h.exit = k.exit
      /\ h.killed = k.killed /\ h.startFailed = k.startFailed
      /\ h.stopTimedOut = k.stopTimedOut /\ h.timed = k.timed
      /\ h.activeDependents = k.activeDependents /\ h.dirty = k.dirty
  BY <1>3, <1>4, <1>5
<1> QED
  BY <1>1, <1>4, <1>6 DEF count, dirt, MovedTo, h

\* The same, said of runs: set_state changes one run, and leaves it without marks.
LEMMA SetStateRun ==
  ASSUME NEW gr, Sound(gr), NEW t \in gr.tasks, NEW s \in TaskState,
         NEW info \in ExitInfo \cup {NoExit}, gr.state[t] # s
  PROVE  LET h == SetState(gr, t, s, info)
         IN Keeps(gr, h) /\ OnlyAt(gr, h, t) /\ Plain(h, t, s, info) /\ h.ready = gr.ready
<1>1. gr \in Graph /\ t \in Task
  BY DEF Sound, Graph
<1>2. gr.state \in [Task -> TaskState] /\ gr.exit \in [Task -> ExitInfo \cup {NoExit}]
  BY <1>1 DEF Graph
<1>3. PICK h : h = SetState(gr, t, s, info)
  OBVIOUS
<1>4. /\ Keeps(gr, h) /\ h.ready = gr.ready
      /\ h.state = [gr.state EXCEPT ![t] = s]
      /\ h.exit = [gr.exit EXCEPT ![t] = info]
      /\ h.killed = gr.killed \ {t} /\ h.startFailed = gr.startFailed \ {t}
      /\ h.stopTimedOut = gr.stopTimedOut \ {t} /\ h.timed = gr.timed \ {t}
  BY <1>3, SetStateAll DEF MovedTo
<1>5. OnlyAt(gr, h, t)
  BY <1>2, <1>4 DEF OnlyAt, SameRun, Keeps
<1>6. Plain(h, t, s, info)
  BY <1>1, <1>2, <1>4 DEF Plain
<1> QED
  BY <1>3, <1>4, <1>5, <1>6

-----------------------------------------------------------------------------
(* What leaves every run alone *)

\* Queueing, notifying and sending a command leave the runs alone.
LEMMA QuietRuns ==
  ASSUME NEW gr, Sound(gr), NEW S, NEW t \in Task
  PROVE  /\ SameRuns(gr, Enqueue(gr, S))
         /\ SameRuns(gr, Notify(gr))
         /\ SameRuns(gr, SendCmd(gr, t))
<1>1. gr \in Graph
  BY DEF Sound
<1>2. SameRuns(gr, Enqueue(gr, S))
  BY <1>1 DEF Graph, Enqueue, SameRuns, SameRun
<1>3. SameRuns(gr, Notify(gr))
  BY <1>1 DEF Graph, Notify, SameRuns, SameRun
<1>4. SameRuns(gr, SendCmd(gr, t))
  BY <1>1 DEF Graph, SendCmd, SameRuns, SameRun
<1> QED
  BY <1>2, <1>3, <1>4

\* Adding and removing edges leaves the runs alone.
LEMMA EdgeRuns ==
  ASSUME NEW gr, Sound(gr), NEW from \in Task \cup {Init0}, NEW S \in SUBSET Task
  PROVE  SameRuns(gr, AddEdges(gr, from, S)) /\ SameRuns(gr, RemoveEdges(gr, from, S))
<1>1. gr \in Graph
  BY DEF Sound
<1>2. SameRuns(gr, AddEdges(gr, from, S))
  <2> DEFINE valid == {to \in S \cap gr.tasks : to # from}
             new == {to \in valid : <<from, to>> \notin gr.edges}
             ed == gr.edges \cup {<<from, to>> : to \in new}
             wp == IF ParentWanted(gr, from) THEN Bump(gr.wantedParents, new, 1)
                   ELSE gr.wantedParents
             ad == IF ParentActive(gr, from) THEN Bump(gr.activeDependents, new, 1)
                   ELSE gr.activeDependents
             k == [gr EXCEPT !.edges = ed, !.wantedParents = wp, !.activeDependents = ad]
  <2>1. AddEdges(gr, from, S) \in {gr, Enqueue(k, valid \cup {from})}
    BY DEF AddEdges
  <2> HIDE DEF ed, wp, ad
  <2>2. SameRuns(gr, Enqueue(k, valid \cup {from}))
    BY <1>1 DEF Graph, Enqueue, SameRuns, SameRun
  <2> QED
    BY <2>1, <2>2 DEF SameRuns, SameRun
<1>3. SameRuns(gr, RemoveEdges(gr, from, S))
  <2> DEFINE old == {to \in S : <<from, to>> \in gr.edges}
             ed == gr.edges \ {<<from, to>> : to \in old}
             wp == IF ParentWanted(gr, from) THEN Bump(gr.wantedParents, old, -1)
                   ELSE gr.wantedParents
             ad == IF ParentActive(gr, from) THEN Bump(gr.activeDependents, old, -1)
                   ELSE gr.activeDependents
             k == [gr EXCEPT !.edges = ed, !.wantedParents = wp, !.activeDependents = ad]
  <2>1. RemoveEdges(gr, from, S) \in {gr, Enqueue(k, S \cup {from})}
    BY DEF RemoveEdges
  <2> HIDE DEF ed, wp, ad
  <2>2. SameRuns(gr, Enqueue(k, S \cup {from}))
    BY <1>1 DEF Graph, Enqueue, SameRuns, SameRun
  <2> QED
    BY <2>1, <2>2 DEF SameRuns, SameRun
<1> QED
  BY <1>2, <1>3

\* Runs left alone twice are left alone.
LEMMA SameRunsTwice ==
  ASSUME NEW gr, NEW k, NEW h, SameRuns(gr, k), SameRuns(k, h)
  PROVE  SameRuns(gr, h)
BY DEF SameRuns, SameRun

\* Pinning and vetoing leave the runs alone.
LEMMA PinRuns ==
  ASSUME NEW gr, Sound(gr), NEW t \in gr.tasks, NEW pinned \in BOOLEAN
  PROVE  SameRuns(gr, SetPin(gr, t, pinned)) /\ SameRuns(gr, SetVetoed(gr, t))
<1>1. gr \in Graph /\ {t} \in SUBSET Task /\ t \in Task
  BY DEF Sound, Graph
<1>2. SameRuns(gr, SetPin(gr, t, pinned))
  <2> DEFINE latest == [gr EXCEPT !.savedPin = @ \ {t}]
  <2>1. /\ latest \in Graph /\ SameCore(gr, latest)
        /\ latest.dirty \subseteq gr.tasks /\ latest.savedPin \subseteq gr.tasks
    BY DEF Sound, Graph, SameCore, Closed, Clean
  <2>2. Sound(latest)
    BY <2>1, SameCoreSound
  <2>3. SameRuns(gr, latest)
    BY <1>1 DEF Graph, SameRuns, SameRun
  <2>4. SetPin(gr, t, pinned) \in {AddEdges(latest, Init0, {t}), RemoveEdges(latest, Init0, {t})}
    BY DEF SetPin
  <2> HIDE DEF latest
  <2>5. /\ SameRuns(latest, AddEdges(latest, Init0, {t}))
        /\ SameRuns(latest, RemoveEdges(latest, Init0, {t}))
    BY <1>1, <2>2, EdgeRuns
  <2> QED
    BY <2>3, <2>4, <2>5, SameRunsTwice
<1>3. SameRuns(gr, SetVetoed(gr, t))
  <2> DEFINE h == [gr EXCEPT !.vetoed = @ \cup {t}]
  <2>1. SameRuns(gr, Enqueue(h, {t}))
    BY <1>1 DEF Graph, Enqueue, SameRuns, SameRun
  <2> QED
    BY <2>1 DEF SetVetoed, SameRuns, SameRun
<1> QED
  BY <1>2, <1>3

\* Recomputing the caches leaves the runs alone.
LEMMA RecomputeRuns ==
  ASSUME NEW gr, Sound(gr), NEW t \in gr.tasks
  PROVE  SameRuns(gr, RecomputeCaches(gr, t))
<1> DEFINE now == ComputeWanted(gr, t)
           want == IF now THEN gr.wanted \cup {t} ELSE gr.wanted \ {t}
           wp == Bump(gr.wantedParents, Deps(gr, t), IF now THEN 1 ELSE -1)
           k == Enqueue([gr EXCEPT !.wanted = want, !.wantedParents = wp], Deps(gr, t))
           g1 == IF now = (t \in gr.wanted) THEN gr ELSE k
           sup == IF ComputeSupported(g1, t) THEN g1.supported \cup {t}
                  ELSE g1.supported \ {t}
           m == Enqueue([g1 EXCEPT !.supported = sup], Dependents(gr, t))
<1>1. gr \in Graph
  BY DEF Sound
<1>2. RecomputeCaches(gr, t) \in {g1, m}
  BY DEF RecomputeCaches
<1> HIDE DEF now, want, wp
<1>3. SameRuns(gr, k) /\ DOMAIN k = DOMAIN gr
  BY <1>1 DEF Graph, Enqueue, SameRuns, SameRun
<1> HIDE DEF k
<1>4. SameRuns(gr, g1) /\ DOMAIN g1 = DOMAIN gr
  BY <1>3 DEF SameRuns, SameRun
<1> HIDE DEF sup, g1
<1>5. SameRuns(g1, m)
  BY <1>1, <1>4 DEF Graph, Enqueue, SameRuns, SameRun
<1> QED
  BY <1>2, <1>4, <1>5, SameRunsTwice

-----------------------------------------------------------------------------
(* Steps of one run *)

\* An operation on one run keeps the marks if it keeps that run's.
LEMMA OnlyAtMarks ==
  ASSUME NEW gr, Sound(gr), Marks(gr), NEW t \in gr.tasks, NEW h, OnlyAt(gr, h, t),
         Marked(h, t)
  PROVE  Marks(h)
<1>1. ASSUME NEW u \in Task \ {t} PROVE Marked(h, u)
  <2>1. SameRun(gr, h, u)
    BY <1>1 DEF OnlyAt
  <2> QED
    BY <1>1, <2>1, SameRunMarked DEF Marks
<1>2. \A u \in Task \ h.tasks : h.state[u] = "Idle"
  BY DEF OnlyAt, SameRun, Marks
<1> QED
  BY <1>1, <1>2 DEF Marks

\* An operation on one run is fine when that run's marks and move are.
LEMMA OnlyAtFine ==
  ASSUME NEW gr, Sound(gr), Marks(gr), NEW t \in gr.tasks, NEW h, OnlyAt(gr, h, t),
         Marked(h, t), Move(gr, h, t)
  PROVE  Fine(gr, h)
<1>1. ASSUME NEW u \in Task \ {t} PROVE Move(gr, h, u)
  BY <1>1 DEF OnlyAt, SameRun, Move
<1> QED
  BY <1>1, OnlyAtMarks DEF Fine

\* A run in a state without a timer, and without marks, is well marked.
LEMMA PlainMarked ==
  ASSUME NEW h, NEW t, NEW s, NEW info, Plain(h, t, s, info),
         ~timed_state(s, h.ready[t])
  PROVE  Marked(h, t)
BY DEF Plain, Marked

\* After an operation on t, one that leaves the runs alone changes nothing.
LEMMA OnlyAtThenSame ==
  ASSUME NEW gr, NEW t, NEW k, OnlyAt(gr, k, t), NEW h, SameRuns(k, h)
  PROVE  OnlyAt(gr, h, t)
BY DEF OnlyAt, SameRuns, SameRun

\* A state the diagram leads to, by an operation that leaves no mark or, on a
\* state that has one, the timer alone.
LEMMA LandFine ==
  ASSUME NEW gr, Sound(gr), Marks(gr), NEW t \in gr.tasks, NEW h, OnlyAt(gr, h, t),
         NEW s, NEW info, h.state[t] = s, h.exit[t] = info,
         t \notin h.killed, t \notin h.startFailed, t \notin h.stopTimedOut,
         t \in h.timed <=> timed_state(s, h.ready[t]), Move(gr, h, t)
  PROVE  Fine(gr, h)
<1>1. Marked(h, t)
  BY DEF Marked
<1> QED
  BY <1>1, OnlyAtFine

\* Setting a timer changes the timer.
LEMMA ScheduleRun ==
  ASSUME NEW gr, Sound(gr), NEW t \in Task
  PROVE  LET h == Schedule(gr, t)
         IN /\ Keeps(gr, h) /\ h.tasks = gr.tasks /\ h.state = gr.state /\ h.exit = gr.exit
            /\ h.ready = gr.ready /\ h.killed = gr.killed
            /\ h.startFailed = gr.startFailed /\ h.stopTimedOut = gr.stopTimedOut
            /\ h.timed = gr.timed \cup {t}
<1>1. gr \in Graph
  BY DEF Sound
<1>2. Keeps(gr, Schedule(gr, t))
  BY ScheduleSound DEF Keeps, SameCore
<1> QED
  BY <1>1, <1>2 DEF Graph, Schedule

\* start_task moves an idle run to Starting.
LEMMA StartTaskStarts ==
  ASSUME NEW gr, Sound(gr), Marks(gr), NEW t \in gr.tasks, gr.state[t] = "Idle"
  PROVE  Starts(gr, StartTask(gr, t), t)
<1> DEFINE next == gr.next[t]
           adopted == IF next = NoNext THEN gr ELSE
                      [gr EXCEPT !.kind[t] = next.kind, !.ready[t] = next.ready,
                                 !.next[t] = NoNext]
           changed == IF adopted.kind[t] # gr.kind[t] THEN Notify(adopted) ELSE adopted
           up == SetState(changed, t, "Starting", NoExit)
<1>1. gr \in Graph /\ t \in Task
  BY DEF Sound, Graph
<1>2. /\ Sound(adopted) /\ OnlyAt(gr, adopted, t)
      /\ adopted.state = gr.state /\ adopted.tasks = gr.tasks
  <2>1. CASE next = NoNext
    BY <2>1 DEF OnlyAt, SameRun
  <2>2. CASE next # NoNext
    <3> DEFINE h == [gr EXCEPT !.kind[t] = next.kind, !.ready[t] = next.ready,
                               !.next[t] = NoNext]
    <3>1. gr.next[t] \in NextRun
      BY <1>1, <2>2 DEF Graph
    <3>2. next.kind \in TaskKind /\ next.ready \in ReadyMode
      BY <3>1 DEF NextRun
    <3>3. /\ SameCore(gr, h) /\ h.dirty = gr.dirty /\ h.savedPin = gr.savedPin
      BY <1>1 DEF Graph, SameCore
    <3>4. Keeps(gr, h)
      <4>1. h \in Graph
        BY <1>1, <3>2 DEF Graph
      <4> QED
        BY <3>3, <4>1, FlagsKept
    <3>5. OnlyAt(gr, h, t)
      BY <1>1 DEF Graph, OnlyAt, SameRun
    <3> QED
      BY <2>2, <3>3, <3>4, <3>5 DEF Keeps, SameCore
  <2> QED
    BY <2>1, <2>2
<1> HIDE DEF adopted
<1>3. Sound(changed) /\ SameRuns(adopted, changed)
  BY <1>1, <1>2, NotifySound, QuietRuns DEF SameRuns, SameRun
<1> HIDE DEF changed
<1>4. changed.state[t] = "Idle" /\ t \in changed.tasks
  BY <1>1, <1>2, <1>3 DEF SameRuns, SameRun
<1>5. /\ Keeps(changed, up) /\ OnlyAt(changed, up, t)
      /\ Plain(up, t, "Starting", NoExit)
  BY <1>3, <1>4, SetStateRun DEF TaskState, Up
<1> HIDE DEF up
<1>6. SameRuns(up, SendCmd(up, t))
  BY <1>1, <1>5, QuietRuns DEF Keeps
<1> DEFINE h == SendCmd(up, t)
<1>7. OnlyAt(gr, h, t) /\ Plain(h, t, "Starting", NoExit)
  BY <1>1, <1>2, <1>3, <1>5, <1>6 DEF OnlyAt, SameRuns, SameRun, Plain
<1>8. StartTask(gr, t) = h
  BY DEF StartTask, up, changed, adopted
<1> HIDE DEF h
<1>9. Marked(h, t)
  BY <1>7, PlainMarked DEF timed_state
<1> QED
  BY <1>7, <1>8, <1>9, OnlyAtMarks DEF Starts

\* stop_task: the run is stopping, with a timer, and the flag of a failed start.
LEMMA StopTaskRun ==
  ASSUME NEW gr, Sound(gr), NEW t \in gr.tasks, gr.state[t] \in Up, NEW failed \in BOOLEAN
  PROVE  LET h == StopTask(gr, t, failed)
         IN /\ OnlyAt(gr, h, t) /\ h.state[t] = "Stopping" /\ h.exit[t] = NoExit
            /\ t \in h.timed /\ t \notin h.killed /\ t \notin h.stopTimedOut
            /\ t \in h.startFailed <=> failed
            /\ h.ready[t] = gr.ready[t]
<1> DEFINE stopping == SetState(gr, t, "Stopping", NoExit)
           flag == IF failed THEN stopping.startFailed \cup {t}
                   ELSE stopping.startFailed \ {t}
           k == [stopping EXCEPT !.startFailed = flag]
           timed == Schedule(k, t)
           h == SendCmd(timed, t)
<1>1. t \in Task /\ "Stopping" \in TaskState /\ gr.state[t] # "Stopping"
  BY DEF Sound, Graph, TaskState, Up
<1>2. /\ Keeps(gr, stopping) /\ OnlyAt(gr, stopping, t)
      /\ Plain(stopping, t, "Stopping", NoExit) /\ stopping.ready = gr.ready
  BY <1>1, SetStateRun
<1> HIDE DEF stopping
<1>3. stopping \in Graph
  BY <1>2 DEF Keeps, Sound
<1>4. flag \in SUBSET Task /\ (t \in flag <=> failed)
      /\ \A u \in Task \ {t} : u \in flag <=> u \in stopping.startFailed
  BY <1>1, <1>3 DEF Graph
<1> HIDE DEF flag
<1>5. Sound(k)
  <2>1. /\ k \in Graph /\ SameCore(stopping, k)
        /\ k.dirty = stopping.dirty /\ k.savedPin = stopping.savedPin
    BY <1>3, <1>4 DEF Graph, SameCore
  <2> QED
    BY <1>2, <2>1, FlagsKept DEF Keeps
<1>6. OnlyAt(gr, k, t) /\ k.state = stopping.state /\ k.exit = stopping.exit
      /\ k.killed = stopping.killed /\ k.stopTimedOut = stopping.stopTimedOut
      /\ k.ready = stopping.ready /\ k.startFailed = flag
  <2>1. /\ k.state = stopping.state /\ k.exit = stopping.exit /\ k.tasks = stopping.tasks
        /\ k.killed = stopping.killed /\ k.stopTimedOut = stopping.stopTimedOut
        /\ k.ready = stopping.ready /\ k.startFailed = flag /\ k.timed = stopping.timed
    BY <1>3 DEF Graph
  <2> QED
    BY <1>2, <1>4, <2>1 DEF OnlyAt, SameRun
<1> HIDE DEF k
<1>7. /\ Sound(timed) /\ OnlyAt(gr, timed, t) /\ timed.state = k.state /\ timed.exit = k.exit
      /\ timed.killed = k.killed /\ timed.startFailed = k.startFailed
      /\ timed.stopTimedOut = k.stopTimedOut /\ t \in timed.timed /\ timed.ready = k.ready
  BY <1>1, <1>5, <1>6, ScheduleRun DEF Keeps, OnlyAt, SameRun
<1> HIDE DEF timed
<1>8. SameRuns(timed, h)
  BY <1>1, <1>7, QuietRuns
<1>9. StopTask(gr, t, failed) = h
  BY DEF StopTask, h, timed, k, flag, stopping
<1> HIDE DEF h
<1>10. OnlyAt(gr, h, t)
  BY <1>7, <1>8, OnlyAtThenSame
<1> QED
  BY <1>1, <1>2, <1>4, <1>6, <1>7, <1>8, <1>9, <1>10 DEF Plain, SameRuns, SameRun

\* hard_kill: the run is killed, with a timer on what follows.
LEMMA HardKillRun ==
  ASSUME NEW gr, Sound(gr), NEW t \in gr.tasks
  PROVE  LET h == HardKill(gr, t)
         IN /\ OnlyAt(gr, h, t) /\ h.state[t] = gr.state[t] /\ h.exit[t] = gr.exit[t]
            /\ h.ready[t] = gr.ready[t] /\ t \in h.timed /\ t \in h.killed
            /\ t \in h.startFailed <=> t \in gr.startFailed
            /\ t \in h.stopTimedOut <=> t \in gr.stopTimedOut
<1> DEFINE k == [gr EXCEPT !.killed = @ \cup {t}]
<1>1. t \in Task /\ gr \in Graph
  BY DEF Sound, Graph
<1>2. /\ k \in Graph /\ SameCore(gr, k)
      /\ k.dirty = gr.dirty /\ k.savedPin = gr.savedPin
  BY <1>1 DEF Graph, SameCore
<1>3. Keeps(gr, k)
  BY <1>2, FlagsKept
<1>4. /\ OnlyAt(gr, k, t) /\ k.state[t] = gr.state[t] /\ k.exit[t] = gr.exit[t]
      /\ k.ready[t] = gr.ready[t] /\ t \in k.killed
      /\ t \in k.startFailed <=> t \in gr.startFailed
      /\ t \in k.stopTimedOut <=> t \in gr.stopTimedOut
  BY <1>1 DEF Graph, OnlyAt, SameRun
<1> HIDE DEF k
<1>5. SameRuns(k, SendCmd(k, t)) /\ Sound(SendCmd(k, t))
  BY <1>1, <1>3, QuietRuns, SendCmdSound DEF Keeps
<1> DEFINE sent == SendCmd(k, t)
<1>6. HardKill(gr, t) = Schedule(sent, t)
  BY DEF HardKill, k
<1>7. /\ OnlyAt(gr, sent, t) /\ sent.state[t] = gr.state[t] /\ sent.exit[t] = gr.exit[t]
      /\ sent.ready[t] = gr.ready[t] /\ t \in sent.killed
      /\ t \in sent.startFailed <=> t \in gr.startFailed
      /\ t \in sent.stopTimedOut <=> t \in gr.stopTimedOut
  BY <1>1, <1>4, <1>5 DEF OnlyAt, SameRuns, SameRun
<1>8. Sound(sent)
  BY <1>5
<1> HIDE DEF sent
<1> QED
  BY <1>1, <1>6, <1>7, <1>8, ScheduleRun DEF OnlyAt, SameRun

\* land_exit: the run has landed where its exit takes it, with a timer if that is
\* the restart delay.
LEMMA LandExitRun ==
  ASSUME NEW gr, Sound(gr), NEW t \in gr.tasks, gr.state[t] \notin Ended,
         NEW info \in ExitInfo
  PROVE  LET h == LandExit(gr, t, info)
             s == exit_state(gr.kind[t], gr.restart[t], info)
         IN /\ OnlyAt(gr, h, t) /\ h.state[t] = s /\ h.exit[t] = info
            /\ t \notin h.killed /\ t \notin h.startFailed /\ t \notin h.stopTimedOut
            /\ t \in h.timed <=> s = "Backoff"
<1> DEFINE s == exit_state(gr.kind[t], gr.restart[t], info)
           landed == SetState(gr, t, s, info)
<1>1. s \in Ended /\ s \in TaskState /\ t \in Task
  BY DEF exit_state, Ended, TaskState, Sound, Graph
<1>2. s \in TaskState /\ gr.state[t] # s
  BY <1>1
<1> HIDE DEF s
<1>3. Keeps(gr, landed) /\ OnlyAt(gr, landed, t) /\ Plain(landed, t, s, info)
  BY <1>2, SetStateRun
<1>4. LandExit(gr, t, info) = IF s = "Backoff" THEN Schedule(landed, t) ELSE landed
  BY DEF LandExit, s
<1> HIDE DEF landed
<1>5. CASE s = "Backoff"
  <2>1. Sound(landed)
    BY <1>3 DEF Keeps
  <2> QED
    BY <1>1, <1>3, <1>4, <1>5, <2>1, ScheduleRun DEF OnlyAt, SameRun, Plain, s
<1>6. CASE s # "Backoff"
  BY <1>3, <1>4, <1>6 DEF Plain, s
<1> QED
  BY <1>5, <1>6

\* to_idle: the run is idle, without marks.
LEMMA ToIdleRun ==
  ASSUME NEW gr, Sound(gr), NEW t \in gr.tasks, gr.state[t] # "Idle"
  PROVE  OnlyAt(gr, ToIdle(gr, t), t) /\ Plain(ToIdle(gr, t), t, "Idle", NoExit)
<1>1. "Idle" \in TaskState
  BY DEF TaskState
<1> QED
  BY <1>1, SetStateRun DEF ToIdle

\* land_stop: a commanded stop lands in Idle, the stop of a failed start as a
\* failed exit.
LEMMA LandStopRun ==
  ASSUME NEW gr, Sound(gr), NEW t \in gr.tasks, gr.state[t] = "Stopping", NEW info \in ExitInfo
  PROVE  LET h == LandStop(gr, t, info)
         IN /\ OnlyAt(gr, h, t)
            /\ t \notin h.killed /\ t \notin h.startFailed /\ t \notin h.stopTimedOut
            /\ t \in h.timed <=> h.state[t] = "Backoff"
            /\ t \notin gr.startFailed => h.state[t] = "Idle" /\ h.exit[t] = NoExit
            /\ t \in gr.startFailed => /\ h.state[t] \in {"Backoff", "Exited"}
                                       /\ h.exit[t] = "ready_timeout"
<1>1. "ready_timeout" \in ExitInfo /\ ~success("ready_timeout")
  BY DEF ExitInfo, success
<1>2. exit_state(gr.kind[t], gr.restart[t], "ready_timeout") \in {"Backoff", "Exited"}
  BY <1>1 DEF exit_state
<1>3. gr.state[t] \notin Ended /\ gr.state[t] # "Idle"
  BY DEF Ended
<1>4. CASE t \in gr.startFailed
  BY <1>1, <1>2, <1>3, <1>4, LandExitRun DEF LandStop
<1>5. CASE t \notin gr.startFailed
  BY <1>3, <1>5, ToIdleRun DEF LandStop, Plain
<1> QED
  BY <1>4, <1>5

\* What tasks report moves runs along the diagram (on_task_started, on_task_ready,
\* on_task_stopped).
LEMMA ReportsFine ==
  ASSUME NEW gr, Sound(gr), Marks(gr), NEW t \in Task, NEW info \in {"ok", "err"}
  PROVE  /\ Fine(gr, OnTaskStarted(gr, t))
         /\ Fine(gr, OnTaskReady(gr, t))
         /\ Fine(gr, OnTaskStopped(gr, t, info))
<1>0. SameRuns(gr, gr) /\ Fine(gr, gr)
  BY SameRunsFine DEF SameRuns, SameRun
<1>1. info \in ExitInfo
  BY DEF ExitInfo
<1>2. Fine(gr, OnTaskStarted(gr, t))
  <2> DEFINE s == started_state(gr.kind[t], gr.ready[t])
             up == SetState(gr, t, s, NoExit)
  <2>1. CASE t \in gr.tasks /\ gr.state[t] = "Starting"
    <3>1. s \in {"Ready", "Running"} /\ s \in TaskState /\ gr.state[t] # s
      BY <2>1 DEF started_state, TaskState, Up
    <3>2. s = "Running" \/ s = "Ready"
      BY <3>1
    <3> HIDE DEF s
    <3>3. Keeps(gr, up) /\ OnlyAt(gr, up, t) /\ Plain(up, t, s, NoExit) /\ up.ready = gr.ready
      BY <2>1, <3>1, SetStateRun
    <3>4. OnTaskStarted(gr, t) = IF s = "Running" /\ has_timeout(gr.ready[t])
                                 THEN Schedule(up, t) ELSE up
      BY <2>1 DEF OnTaskStarted, s
    <3> HIDE DEF up
    <3>5. CASE s = "Running" /\ has_timeout(gr.ready[t])
      <4> DEFINE h == Schedule(up, t)
      <4>0. Sound(up)
        BY <3>3 DEF Keeps
      <4>1. /\ OnlyAt(gr, h, t) /\ h.state[t] = "Running" /\ h.exit[t] = NoExit
            /\ t \notin h.killed /\ t \notin h.startFailed /\ t \notin h.stopTimedOut
            /\ t \in h.timed /\ h.ready = gr.ready
        BY <3>3, <3>5, <4>0, ScheduleRun DEF OnlyAt, SameRun, Plain
      <4> HIDE DEF h
      <4>2. Move(gr, h, t)
        BY <2>1, <4>1 DEF Move, Ended, NoExit
      <4>3. t \in h.timed <=> timed_state("Running", h.ready[t])
        BY <3>5, <4>1 DEF timed_state
      <4>4. Fine(gr, h)
        BY <2>1, <4>1, <4>2, <4>3, LandFine
      <4> QED
        BY <3>4, <3>5, <4>4 DEF h
    <3>6. CASE ~(s = "Running" /\ has_timeout(gr.ready[t]))
      <4>1. ~timed_state(s, up.ready[t])
        BY <3>2, <3>3, <3>6 DEF timed_state
      <4>2. Move(gr, up, t)
        BY <2>1, <3>2, <3>3 DEF Move, Ended, Plain, NoExit
      <4> QED
        BY <2>1, <3>3, <3>4, <3>6, <4>1, <4>2, PlainMarked, OnlyAtFine
    <3> QED
      BY <3>5, <3>6
  <2> QED
    BY <1>0, <2>1 DEF OnTaskStarted
<1>3. Fine(gr, OnTaskReady(gr, t))
  <2> DEFINE h == SetState(gr, t, "Ready", NoExit)
  <2>1. CASE t \in gr.tasks /\ gr.state[t] = "Running"
    <3>1. OnlyAt(gr, h, t) /\ Plain(h, t, "Ready", NoExit)
      BY <2>1, SetStateRun DEF TaskState, Up
    <3> HIDE DEF h
    <3>2. Marked(h, t)
      BY <3>1, PlainMarked DEF timed_state
    <3>3. Move(gr, h, t)
      BY <2>1, <3>1 DEF Move, Plain, Ended, NoExit
    <3>4. Fine(gr, h)
      BY <2>1, <3>1, <3>2, <3>3, OnlyAtFine
    <3> QED
      BY <2>1, <3>4 DEF OnTaskReady, h
  <2> QED
    BY <1>0, <2>1 DEF OnTaskReady
<1>4. Fine(gr, OnTaskStopped(gr, t, info))
  <2>1. CASE t \in gr.tasks /\ gr.state[t] = "Stopping"
    <3> DEFINE h == LandStop(gr, t, info)
    <3>1. /\ OnlyAt(gr, h, t)
          /\ t \notin h.killed /\ t \notin h.startFailed /\ t \notin h.stopTimedOut
          /\ t \in h.timed <=> h.state[t] = "Backoff"
          /\ t \notin gr.startFailed => h.state[t] = "Idle" /\ h.exit[t] = NoExit
          /\ t \in gr.startFailed => /\ h.state[t] \in {"Backoff", "Exited"}
                                     /\ h.exit[t] = "ready_timeout"
      BY <1>1, <2>1, LandStopRun
    <3>2. OnTaskStopped(gr, t, info) = h
      BY <2>1 DEF OnTaskStopped
    <3> HIDE DEF h
    <3>3. Move(gr, h, t)
      BY <2>1, <3>1 DEF Move, Ended, NoExit
    <3>4. t \in h.timed <=> timed_state(h.state[t], h.ready[t])
      BY <3>1 DEF timed_state
    <3> QED
      BY <2>1, <3>1, <3>2, <3>3, <3>4, LandFine
  <2>2. CASE t \in gr.tasks /\ gr.state[t] \in Up
    <3> DEFINE h == LandExit(gr, t, info)
               s == exit_state(gr.kind[t], gr.restart[t], info)
    <3>1. gr.state[t] \notin Ended /\ gr.state[t] # "Stopping" /\ s \in Ended
      BY <2>2 DEF Up, Ended, exit_state
    <3>2. /\ OnlyAt(gr, h, t) /\ h.state[t] = s /\ h.exit[t] = info
          /\ t \notin h.killed /\ t \notin h.startFailed /\ t \notin h.stopTimedOut
          /\ t \in h.timed <=> s = "Backoff"
      BY <1>1, <2>2, <3>1, LandExitRun
    <3>3. OnTaskStopped(gr, t, info) = h
      BY <2>2, <3>1 DEF OnTaskStopped
    <3> HIDE DEF h, s
    <3>4. Move(gr, h, t)
      BY <2>2, <3>1, <3>2 DEF Move, Up, Ended
    <3>5. t \in h.timed <=> timed_state(s, h.ready[t])
      BY <3>1, <3>2 DEF timed_state, Ended
    <3> QED
      BY <2>2, <3>2, <3>3, <3>4, <3>5, LandFine
  <2> QED
    BY <1>0, <2>1, <2>2 DEF OnTaskStopped
<1> QED
  BY <1>2, <1>3, <1>4

\* The timer on a state moves its run along the diagram (on_state_timeout).
LEMMA OnStateTimeoutFine ==
  ASSUME NEW gr, Sound(gr), Marks(gr), NEW t \in gr.tasks, t \in gr.timed
  PROVE  Fine(gr, OnStateTimeout(gr, t))
<1> DEFINE out == [gr EXCEPT !.timed = @ \ {t}]
           h == OnStateTimeout(gr, t)
<1>1. gr \in Graph /\ t \in Task /\ "err" \in ExitInfo
  BY DEF Sound, Graph, ExitInfo
<1>2. /\ out \in Graph /\ SameCore(gr, out)
      /\ out.dirty = gr.dirty /\ out.savedPin = gr.savedPin
  BY <1>1 DEF Graph, SameCore
<1>3. Sound(out) /\ out.tasks = gr.tasks /\ out.state = gr.state
  BY <1>2, FlagsKept DEF Keeps, SameCore
<1>4. /\ OnlyAt(gr, out, t) /\ out.ready = gr.ready /\ out.exit = gr.exit
      /\ out.killed = gr.killed /\ out.startFailed = gr.startFailed
      /\ out.stopTimedOut = gr.stopTimedOut
  BY <1>1 DEF Graph, OnlyAt, SameRun
<1>5. Marked(gr, t) /\ timed_state(gr.state[t], gr.ready[t])
  BY <1>1 DEF Marks, Marked
<1>6. ASSUME NEW k, OnlyAt(out, k, t)
      PROVE  OnlyAt(gr, k, t)
  BY <1>4, <1>6 DEF OnlyAt, SameRun
<1>7. /\ gr.state[t] = "Backoff" => h = ToIdle(out, t)
      /\ gr.state[t] = "Stopping" /\ t \notin gr.killed => h = HardKill(out, t)
      /\ gr.state[t] = "Stopping" /\ t \in gr.killed /\ t \in gr.startFailed
           => h = LandStop(out, t, "err")
      /\ gr.state[t] = "Stopping" /\ t \in gr.killed /\ t \notin gr.startFailed
           => h = [LandStop(out, t, "err") EXCEPT !.stopTimedOut = @ \cup {t}]
      /\ gr.state[t] = "Running" /\ has_timeout(gr.ready[t])
           => h = StopTask(out, t, TRUE)
  BY DEF OnStateTimeout
<1> HIDE DEF out, h
<1>8. CASE gr.state[t] = "Backoff"
  <2>1. OnlyAt(gr, h, t) /\ Plain(h, t, "Idle", NoExit)
    BY <1>3, <1>6, <1>7, <1>8, ToIdleRun
  <2>2. Marked(h, t)
    BY <2>1, PlainMarked DEF timed_state
  <2>3. Move(gr, h, t)
    BY <1>8, <2>1 DEF Move, Plain, Ended, NoExit
  <2> QED
    BY <2>1, <2>2, <2>3, OnlyAtFine DEF h
<1>9. CASE gr.state[t] = "Running" /\ has_timeout(gr.ready[t])
  <2>1. out.state[t] \in Up
    BY <1>3, <1>9 DEF Up
  <2>2. /\ OnlyAt(gr, h, t) /\ h.state[t] = "Stopping" /\ h.exit[t] = NoExit
        /\ t \in h.timed /\ t \notin h.killed /\ t \notin h.stopTimedOut
        /\ t \in h.startFailed /\ h.ready[t] = gr.ready[t]
    <3> DEFINE k == StopTask(out, t, TRUE)
    <3>1. /\ OnlyAt(out, k, t) /\ k.state[t] = "Stopping" /\ k.exit[t] = NoExit
          /\ t \in k.timed /\ t \notin k.killed /\ t \notin k.stopTimedOut
          /\ t \in k.startFailed <=> TRUE
          /\ k.ready[t] = out.ready[t]
      BY <1>3, <2>1, StopTaskRun, Zenon
    <3>2. h = k
      BY <1>7, <1>9
    <3> QED
      BY <1>4, <1>6, <3>1, <3>2
  <2>3. Marked(h, t)
    BY <1>9, <2>2 DEF Marked, timed_state
  <2>4. Move(gr, h, t)
    BY <1>9, <2>2 DEF Move, Ended, NoExit
  <2> QED
    BY <2>2, <2>3, <2>4, OnlyAtFine DEF h
<1>10. CASE gr.state[t] = "Stopping" /\ t \notin gr.killed
  <2>1. /\ OnlyAt(gr, h, t) /\ h.state[t] = "Stopping"
        /\ h.ready[t] = gr.ready[t] /\ t \in h.timed /\ t \in h.killed
        /\ t \in h.startFailed <=> t \in gr.startFailed
        /\ t \in h.stopTimedOut <=> t \in gr.stopTimedOut
    BY <1>3, <1>4, <1>6, <1>7, <1>10, HardKillRun
  <2>2. Marked(h, t)
    BY <1>5, <1>10, <2>1 DEF Marked, timed_state
  <2>3. Move(gr, h, t)
    BY <1>10, <2>1 DEF Move
  <2> QED
    BY <2>1, <2>2, <2>3, OnlyAtFine DEF h
<1>11. CASE gr.state[t] = "Stopping" /\ t \in gr.killed
  <2> DEFINE k == LandStop(out, t, "err")
  <2>1. /\ OnlyAt(gr, k, t)
        /\ t \notin k.killed /\ t \notin k.startFailed /\ t \notin k.stopTimedOut
        /\ t \in k.timed <=> k.state[t] = "Backoff"
        /\ t \notin gr.startFailed => k.state[t] = "Idle" /\ k.exit[t] = NoExit
        /\ t \in gr.startFailed => /\ k.state[t] \in {"Backoff", "Exited"}
                                   /\ k.exit[t] = "ready_timeout"
    BY <1>1, <1>3, <1>4, <1>6, <1>11, LandStopRun
  <2>2. k \in Graph
    BY <1>1, <1>3, LandStopKept DEF Keeps, Sound
  <2> HIDE DEF k
  <2>3. CASE t \in gr.startFailed
    <3>1. Move(gr, k, t)
      BY <1>11, <2>1, <2>3 DEF Move, Ended, NoExit
    <3>2. t \in k.timed <=> timed_state(k.state[t], k.ready[t])
      BY <2>1, <2>3 DEF timed_state
    <3> QED
      BY <1>7, <1>11, <2>1, <2>3, <3>1, <3>2, LandFine DEF h, k
  <2>4. CASE t \notin gr.startFailed
    <3> DEFINE m == [k EXCEPT !.stopTimedOut = @ \cup {t}]
    <3>1. /\ OnlyAt(gr, m, t) /\ m.state[t] = "Idle" /\ m.exit[t] = NoExit
          /\ t \notin m.killed /\ t \notin m.startFailed /\ t \notin m.timed
      BY <2>1, <2>2, <2>4 DEF Graph, OnlyAt, SameRun
    <3>2. h = m
      BY <1>7, <1>11, <2>4 DEF k
    <3> HIDE DEF m
    <3>3. Marked(m, t)
      BY <3>1 DEF Marked, timed_state
    <3>4. Move(gr, m, t)
      BY <1>11, <2>4, <3>1 DEF Move, Ended, NoExit
    <3> QED
      BY <3>1, <3>2, <3>3, <3>4, OnlyAtFine DEF h
  <2> QED
    BY <2>3, <2>4
<1> QED
  BY <1>5, <1>8, <1>9, <1>10, <1>11 DEF timed_state

-----------------------------------------------------------------------------
(* Two operations, one after the other *)

\* An operation that is fine after one that leaves the runs alone is fine.
LEMMA SameThenFine ==
  ASSUME NEW gr, NEW k, SameRuns(gr, k), NEW h, Fine(k, h)
  PROVE  Fine(gr, h)
<1>1. \A u \in Task : u \in gr.tasks \cap h.tasks => Move(k, h, u)
  BY DEF SameRuns, Fine
<1>2. ASSUME NEW u \in Task, Move(k, h, u) PROVE Move(gr, h, u)
  <2>1. k.state[u] = gr.state[u] /\ (u \in k.startFailed <=> u \in gr.startFailed)
    BY DEF SameRuns, SameRun
  <2> QED
    BY <1>2, <2>1 DEF Move
<1> QED
  BY <1>1, <1>2 DEF Fine

\* Two operations are fine together when no run is moved by both.
LEMMA FineTwice ==
  ASSUME NEW gr, NEW k, NEW h, Fine(gr, k), Fine(k, h), k.tasks = gr.tasks,
         \A u \in Task : \/ k.state[u] = gr.state[u] /\ (u \in k.startFailed <=> u \in gr.startFailed)
                         \/ h.state[u] = k.state[u] /\ h.exit[u] = k.exit[u]
  PROVE  Fine(gr, h)
<1>1. ASSUME NEW u \in Task, u \in gr.tasks \cap h.tasks PROVE Move(gr, h, u)
  <2>1. Move(gr, k, u) /\ Move(k, h, u)
    BY <1>1 DEF Fine
  <2>2. CASE k.state[u] = gr.state[u] /\ (u \in k.startFailed <=> u \in gr.startFailed)
    BY <2>1, <2>2 DEF Move
  <2>3. CASE h.state[u] = k.state[u] /\ h.exit[u] = k.exit[u]
    BY <2>1, <2>3 DEF Move
  <2> QED
    BY <2>2, <2>3
<1> QED
  BY <1>1 DEF Fine

-----------------------------------------------------------------------------
(* The verbs *)

\* u's run in h is its run in gr, perhaps without the flag of a failed start, or an
\* ended one made idle.
Revived(gr, h, u) ==
  \/ /\ h.state[u] = gr.state[u] /\ h.exit[u] = gr.exit[u]
     /\ h.ready[u] = gr.ready[u]
     /\ u \in h.timed <=> u \in gr.timed
     /\ u \in h.killed <=> u \in gr.killed
     /\ u \in h.startFailed => u \in gr.startFailed
     /\ u \in h.stopTimedOut <=> u \in gr.stopTimedOut
  \/ gr.state[u] \in Ended /\ u \in gr.tasks /\ Plain(h, u, "Idle", NoExit)

\* What a demand moves: tasks in a state that carries an exit, to Idle.
LEMMA DemandRuns ==
  ASSUME NEW gr, Sound(gr), NEW t \in gr.tasks, NEW rerunDone \in BOOLEAN
  PROVE  \A u \in Task : Revived(gr, Demand(gr, t, rerunDone), u)
<1> DEFINE C == Closure(gr, t) \cap gr.tasks
           revive == {u \in C : \/ gr.state[u] \in {"Backoff", "Exited"}
                                \/ gr.state[u] = "Done" /\ rerunDone /\ u = t}
           parents == UNION {Dependents(gr, u) : u \in {r \in revive : Satisfied(gr, r)}}
           st == [u \in Task |-> IF u \in revive THEN "Idle" ELSE gr.state[u]]
           ex == [u \in Task |-> IF u \in revive THEN NoExit ELSE gr.exit[u]]
           dirt == gr.dirty \cup (C \cap gr.vetoed) \cup revive \cup parents
           idle == [gr EXCEPT
                      !.state = st, !.exit = ex,
                      !.killed = @ \ revive, !.stopTimedOut = @ \ revive,
                      !.timed = @ \ revive, !.startFailed = @ \ C, !.vetoed = @ \ C,
                      !.dirty = dirt]
           h == Demand(gr, t, rerunDone)
<1>1. gr \in Graph
  BY DEF Sound
<1>2. revive \subseteq C /\ C \subseteq gr.tasks /\ \A u \in revive : gr.state[u] \in Ended
  BY DEF Ended
<1>3. h \in {idle, Notify(idle)}
  BY DEF Demand
<1> HIDE DEF dirt, revive, C
<1>4. /\ idle.state = st /\ idle.exit = ex /\ idle.ready = gr.ready
      /\ idle.killed = gr.killed \ revive /\ idle.stopTimedOut = gr.stopTimedOut \ revive
      /\ idle.timed = gr.timed \ revive /\ idle.startFailed = gr.startFailed \ C
      /\ DOMAIN idle = DOMAIN gr
  BY <1>1 DEF Graph
<1>5. DOMAIN gr =
        {"tasks", "edges", "state", "exit", "kind", "ready", "restart", "next", "vetoed",
         "killed", "startFailed", "stopTimedOut", "savedPin", "dead", "timed", "wanted",
         "supported", "wantedParents", "activeDependents", "dirty", "effects", "quitting"}
  BY <1>1 DEF Graph
<1> HIDE DEF idle
<1>6. /\ h.state = st /\ h.exit = ex /\ h.ready = gr.ready
      /\ h.killed = gr.killed \ revive /\ h.stopTimedOut = gr.stopTimedOut \ revive
      /\ h.timed = gr.timed \ revive /\ h.startFailed = gr.startFailed \ C
  BY <1>3, <1>4, <1>5 DEF Notify
<1> HIDE DEF h
<1>7. ASSUME NEW u \in Task, u \in revive
      PROVE  gr.state[u] \in Ended /\ u \in gr.tasks /\ Plain(h, u, "Idle", NoExit)
  BY <1>2, <1>6, <1>7 DEF Plain
<1>8. ASSUME NEW u \in Task, u \notin revive
      PROVE  /\ h.state[u] = gr.state[u] /\ h.exit[u] = gr.exit[u]
             /\ h.ready[u] = gr.ready[u]
             /\ u \in h.timed <=> u \in gr.timed
             /\ u \in h.killed <=> u \in gr.killed
             /\ u \in h.startFailed => u \in gr.startFailed
             /\ u \in h.stopTimedOut <=> u \in gr.stopTimedOut
  BY <1>6, <1>8
<1> QED
  BY <1>7, <1>8 DEF h, Revived

\* A demand revives runs that have ended.
LEMMA DemandFine ==
  ASSUME NEW gr, Sound(gr), Marks(gr), NEW t \in gr.tasks, NEW rerunDone \in BOOLEAN
  PROVE  Fine(gr, Demand(gr, t, rerunDone))
<1> DEFINE h == Demand(gr, t, rerunDone)
<1>1. \A u \in Task : Revived(gr, h, u)
  BY DemandRuns
<1>2. h.tasks = gr.tasks
  BY DemandKept DEF Keeps
<1> HIDE DEF h
<1>3. ASSUME NEW u \in Task PROVE Marked(h, u) /\ Move(gr, h, u)
  <2>1. Marked(gr, u)
    BY DEF Marks
  <2>2. CASE gr.state[u] \in Ended /\ Plain(h, u, "Idle", NoExit)
    <3>1. Marked(h, u)
      BY <2>2, PlainMarked DEF timed_state
    <3> QED
      BY <2>2, <3>1 DEF Move, Plain, Ended, NoExit
  <2>3. CASE /\ h.state[u] = gr.state[u] /\ h.exit[u] = gr.exit[u]
             /\ h.ready[u] = gr.ready[u]
             /\ u \in h.timed <=> u \in gr.timed
             /\ u \in h.killed <=> u \in gr.killed
             /\ u \in h.startFailed => u \in gr.startFailed
             /\ u \in h.stopTimedOut <=> u \in gr.stopTimedOut
    BY <2>1, <2>3 DEF Marked, Move
  <2> QED
    BY <1>1, <2>2, <2>3 DEF Revived
<1>4. \A u \in Task \ h.tasks : h.state[u] = "Idle"
  BY <1>1, <1>2 DEF Marks, Revived
<1> QED
  BY <1>3, <1>4 DEF Fine, Marks, h

\* stop_if_active stops a run that is up, and leaves the others alone.
LEMMA StopIfActiveFine ==
  ASSUME NEW gr, Sound(gr), Marks(gr), NEW t \in gr.tasks
  PROVE  /\ Fine(gr, StopIfActive(gr, t)) /\ OnlyAt(gr, StopIfActive(gr, t), t)
         /\ gr.state[t] \notin Up => SameRuns(gr, StopIfActive(gr, t))
<1>1. SameRuns(gr, gr) /\ Fine(gr, gr) /\ OnlyAt(gr, gr, t)
  BY SameRunsFine DEF SameRuns, SameRun, OnlyAt
<1>2. CASE gr.state[t] \in Up
  <2> DEFINE h == StopTask(gr, t, FALSE)
  <2>1. /\ OnlyAt(gr, h, t) /\ h.state[t] = "Stopping" /\ h.exit[t] = NoExit
        /\ t \in h.timed /\ t \notin h.killed /\ t \notin h.stopTimedOut
        /\ t \in h.startFailed <=> FALSE
    BY <1>2, StopTaskRun, Zenon
  <2>2. StopIfActive(gr, t) = h
    BY <1>2 DEF StopIfActive
  <2> HIDE DEF h
  <2>3. Marked(h, t)
    BY <2>1 DEF Marked, timed_state
  <2>4. Move(gr, h, t)
    BY <1>2, <2>1 DEF Move, Up, Ended, NoExit
  <2> QED
    BY <1>2, <2>1, <2>2, <2>3, <2>4, OnlyAtFine
<1>3. CASE gr.state[t] \notin Up
  BY <1>1, <1>3 DEF StopIfActive
<1> QED
  BY <1>2, <1>3

\* cmd_start and cmd_up are fine; the runs they move are ended ones, which go to Idle.
LEMMA CmdStartFine ==
  ASSUME NEW gr, Sound(gr), Marks(gr), NEW t \in gr.tasks
  PROVE  /\ Fine(gr, CmdStart(gr, t)) /\ Fine(gr, CmdUp(gr, t))
         /\ \A u \in Task : CmdStart(gr, t).state[u] \notin {gr.state[u]} =>
              gr.state[u] \in Ended /\ CmdStart(gr, t).state[u] = "Idle"
         /\ \A u \in Task : gr.state[u] \notin Ended =>
              /\ CmdStart(gr, t).exit[u] = gr.exit[u]
              /\ u \in CmdStart(gr, t).startFailed => u \in gr.startFailed
<1> DEFINE k == SetPin(gr, t, TRUE)
<1>1. SameRuns(gr, k) /\ Sound(k) /\ k.tasks = gr.tasks
  BY PinRuns, SetPinKept DEF Keeps
<1>2. Marks(k)
  BY <1>1, SameRunsFine DEF Fine
<1> HIDE DEF k
<1>3. Fine(k, Demand(k, t, TRUE)) /\ Fine(k, Demand(k, t, FALSE))
  BY <1>1, <1>2, DemandFine
<1>4. Fine(gr, Demand(k, t, TRUE)) /\ Fine(gr, Demand(k, t, FALSE))
  BY <1>1, <1>3, SameThenFine
<1>5. CmdStart(gr, t) = Demand(k, t, TRUE) /\ CmdUp(gr, t) = Demand(k, t, FALSE)
  BY DEF CmdStart, CmdUp, k
<1> DEFINE h == CmdStart(gr, t)
<1>6. \A u \in Task : Revived(k, h, u)
  BY <1>1, <1>5, DemandRuns
<1> HIDE DEF h
<1>7. \A u \in Task :
        \/ /\ h.state[u] = gr.state[u] /\ h.exit[u] = gr.exit[u]
           /\ u \in h.startFailed => u \in gr.startFailed
        \/ gr.state[u] \in Ended /\ h.state[u] = "Idle"
  BY <1>1, <1>6 DEF SameRuns, SameRun, Plain, Revived
<1> QED
  BY <1>4, <1>5, <1>7 DEF h

\* cmd_kill is fine; the run it moves, if any, is t's, and it is stopping then.
LEMMA CmdKillFine ==
  ASSUME NEW gr, Sound(gr), Marks(gr), NEW t \in gr.tasks
  PROVE  LET h == CmdKill(gr, t)
         IN /\ Fine(gr, h) /\ OnlyAt(gr, h, t)
            /\ \/ h.state[t] = gr.state[t] /\ (t \in h.startFailed <=> t \in gr.startFailed)
               \/ h.state[t] = "Stopping"
<1> DEFINE k == SetPin(gr, t, FALSE)
           stopping == SetState(k, t, "Stopping", NoExit)
           h == CmdKill(gr, t)
<1>1. SameRuns(gr, k) /\ Sound(k) /\ k.tasks = gr.tasks /\ k.state = gr.state
  BY PinRuns, SetPinKept DEF Keeps
<1>2. Fine(gr, k) /\ Marks(k) /\ OnlyAt(gr, k, t) /\ t \in Task
  BY <1>1, SameRunsFine DEF Fine, SameRuns, OnlyAt, Sound, Graph
<1>3. /\ gr.state[t] \in Up => h = HardKill(stopping, t)
      /\ gr.state[t] = "Stopping" => h = HardKill(k, t)
      /\ gr.state[t] \notin Up \cup {"Stopping"} => h = k
  BY DEF CmdKill, Up
<1> HIDE DEF k, h
<1>4. CASE gr.state[t] \in Up
  <2>1. "Stopping" \in TaskState /\ k.state[t] # "Stopping"
    BY <1>1, <1>4 DEF TaskState, Up
  <2>2. Keeps(k, stopping) /\ OnlyAt(k, stopping, t) /\ Plain(stopping, t, "Stopping", NoExit)
    BY <1>1, <2>1, SetStateRun
  <2> HIDE DEF stopping
  <2>3. /\ OnlyAt(stopping, h, t) /\ h.state[t] = "Stopping" /\ h.exit[t] = NoExit
        /\ t \in h.timed /\ t \in h.killed
        /\ t \notin h.startFailed /\ t \notin h.stopTimedOut
    BY <1>1, <1>3, <1>4, <2>2, HardKillRun DEF Keeps, Plain
  <2>4. OnlyAt(gr, h, t)
    BY <1>1, <2>2, <2>3 DEF OnlyAt, SameRuns, SameRun
  <2>5. Marked(h, t)
    BY <2>3 DEF Marked, timed_state
  <2>6. Move(gr, h, t)
    BY <1>4, <2>3 DEF Move, Up, Ended, NoExit
  <2> QED
    BY <2>3, <2>4, <2>5, <2>6, OnlyAtFine DEF h
<1>5. CASE gr.state[t] = "Stopping"
  <2>1. /\ OnlyAt(k, h, t) /\ h.state[t] = k.state[t] /\ h.exit[t] = k.exit[t]
        /\ h.ready[t] = k.ready[t] /\ t \in h.timed /\ t \in h.killed
        /\ t \in h.startFailed <=> t \in k.startFailed
        /\ t \in h.stopTimedOut <=> t \in k.stopTimedOut
    BY <1>1, <1>3, <1>5, HardKillRun
  <2>2. OnlyAt(gr, h, t) /\ h.state[t] = gr.state[t]
        /\ (t \in h.startFailed <=> t \in gr.startFailed)
    BY <1>1, <1>2, <2>1 DEF OnlyAt, SameRuns, SameRun
  <2>3. Marked(k, t)
    BY <1>2 DEF Marks
  <2>4. Marked(h, t)
    BY <1>1, <1>5, <2>1, <2>3 DEF Marked, timed_state
  <2>5. Move(gr, h, t)
    BY <2>2 DEF Move
  <2> QED
    BY <2>2, <2>4, <2>5, OnlyAtFine DEF h
<1>6. CASE gr.state[t] \notin Up \cup {"Stopping"}
  BY <1>1, <1>2, <1>3, <1>6 DEF h, SameRuns, SameRun
<1> QED
  BY <1>4, <1>5, <1>6

\* A verb moves runs along the diagram, whichever of the several operations it is
\* made of move them.
LEMMA VerbsFine ==
  ASSUME NEW gr, Sound(gr), Marks(gr), NEW t \in gr.tasks
  PROVE  /\ Fine(gr, CmdStop(gr, t)) /\ Fine(gr, CmdRestart(gr, t))
         /\ Fine(gr, CmdVeto(gr, t)) /\ Fine(gr, SetPin(gr, t, FALSE))
         /\ Fine(gr, CmdStart(CmdKill(gr, t), t))
<1> DEFINE unpinned == SetPin(gr, t, FALSE)
           started == CmdStart(gr, t)
           killed == CmdKill(gr, t)
<1>0. t \in Task
  BY DEF Sound, Graph
<1>1. SameRuns(gr, unpinned) /\ Sound(unpinned) /\ unpinned.tasks = gr.tasks
  BY PinRuns, SetPinKept DEF Keeps
<1>2. Fine(gr, unpinned) /\ Marks(unpinned)
  BY <1>1, SameRunsFine DEF Fine
<1> HIDE DEF unpinned
<1>3. Fine(gr, StopIfActive(unpinned, t))
  BY <1>1, <1>2, StopIfActiveFine, SameThenFine
<1>4. Fine(gr, SetVetoed(unpinned, t))
  <2>1. SameRuns(unpinned, SetVetoed(unpinned, t))
    BY <1>1, PinRuns
  <2> QED
    BY <1>1, <2>1, SameRunsTwice, SameRunsFine
<1>5. Fine(gr, StopIfActive(started, t))
  <2>1. Sound(started) /\ started.tasks = gr.tasks /\ Fine(gr, started)
    BY CmdStartKept, CmdStartFine DEF Keeps
  <2>2. \A u \in Task : gr.state[u] \notin Ended =>
          (u \in started.startFailed => u \in gr.startFailed)
    BY CmdStartFine
  <2>3. started.state[t] # gr.state[t] => started.state[t] = "Idle"
    BY <1>0, CmdStartFine
  <2> HIDE DEF started
  <2> DEFINE h == StopIfActive(started, t)
  <2>4. Marks(started)
    BY <2>1 DEF Fine
  <2>5. /\ Fine(started, h) /\ OnlyAt(started, h, t)
        /\ started.state[t] \notin Up => SameRuns(started, h)
    BY <2>1, <2>4, StopIfActiveFine
  <2> HIDE DEF h
  <2>6. ASSUME NEW u \in Task
        PROVE  \/ /\ started.state[u] = gr.state[u]
                  /\ u \in started.startFailed <=> u \in gr.startFailed
               \/ h.state[u] = started.state[u] /\ h.exit[u] = started.exit[u]
    <3>1. CASE u # t
      BY <2>5, <3>1 DEF OnlyAt, SameRun
    <3>2. CASE u = t /\ started.state[t] \notin Up
      BY <2>5, <3>2 DEF SameRuns, SameRun
    <3>3. CASE u = t /\ started.state[t] \in Up
      <4>1. started.state[t] = gr.state[t] /\ gr.state[t] # "Stopping"
        BY <2>3, <3>3 DEF Up
      <4>2. t \notin started.startFailed /\ t \notin gr.startFailed
        BY <1>0, <2>4, <4>1 DEF Marks, Marked
      <4> QED
        BY <3>3, <4>1, <4>2
    <3> QED
      BY <3>1, <3>2, <3>3
  <2> QED
    BY <2>1, <2>5, <2>6, FineTwice DEF h
<1>6. Fine(gr, CmdStart(killed, t))
  <2>1. Sound(killed) /\ killed.tasks = gr.tasks /\ Fine(gr, killed) /\ OnlyAt(gr, killed, t)
    BY CmdKillKept, CmdKillFine DEF Keeps
  <2>2. \/ /\ killed.state[t] = gr.state[t]
           /\ t \in killed.startFailed <=> t \in gr.startFailed
        \/ killed.state[t] = "Stopping"
    BY CmdKillFine
  <2> HIDE DEF killed
  <2> DEFINE h == CmdStart(killed, t)
  <2>3. Marks(killed)
    BY <2>1 DEF Fine
  <2>4. /\ Fine(killed, h)
        /\ \A u \in Task : h.state[u] \notin {killed.state[u]} => killed.state[u] \in Ended
        /\ \A u \in Task : killed.state[u] \notin Ended => h.exit[u] = killed.exit[u]
    BY <2>1, <2>3, CmdStartFine
  <2> HIDE DEF h
  <2>5. ASSUME NEW u \in Task
        PROVE  \/ /\ killed.state[u] = gr.state[u]
                  /\ u \in killed.startFailed <=> u \in gr.startFailed
               \/ h.state[u] = killed.state[u] /\ h.exit[u] = killed.exit[u]
    <3>1. CASE u # t
      BY <2>1, <3>1 DEF OnlyAt, SameRun
    <3>2. CASE u = t
      BY <2>2, <2>4, <3>2 DEF Ended
    <3> QED
      BY <3>1, <3>2
  <2> QED
    BY <2>1, <2>4, <2>5, FineTwice DEF h
<1> QED
  BY <1>2, <1>3, <1>4, <1>5, <1>6 DEF CmdStop, CmdRestart, CmdVeto, unpinned, started, killed

-----------------------------------------------------------------------------
(* Registration, removal, redefinition *)

\* A removal leaves nothing on the task, and the other runs alone.
LEMMA RemoveTaskFine ==
  ASSUME NEW gr, Sound(gr), Marks(gr), NEW t \in gr.tasks
  PROVE  Fine(gr, RemoveTask(gr, t))
<1> DEFINE f == Forget(gr, t)
           ed == {e \in f.edges : e[1] # t /\ e[2] # t}
           wp == [IF t \in gr.wanted THEN Bump(f.wantedParents, Deps(gr, t), -1)
                  ELSE f.wantedParents EXCEPT ![t] = 0]
           ad == [IF Active(gr, t) THEN Bump(f.activeDependents, Deps(gr, t), -1)
                  ELSE f.activeDependents EXCEPT ![t] = 0]
           dirt == (f.dirty \cup Deps(gr, t) \cup Dependents(gr, t)) \ {t}
           k == [f EXCEPT !.tasks = @ \ {t}, !.edges = ed, !.state[t] = "Idle",
                          !.wanted = @ \ {t}, !.wantedParents = wp,
                          !.activeDependents = ad, !.dirty = dirt]
           h == RemoveTask(gr, t)
<1>1. gr \in Graph /\ t \in Task
  BY DEF Sound, Graph
<1>2. h = [k EXCEPT !.effects = @ \cup (Listener \cap k.tasks \cap k.dead)]
  BY DEF RemoveTask, Notify
<1>3. f \in Graph
  BY ForgetFields
<1>4. /\ f.tasks = gr.tasks /\ f.state = gr.state /\ f.exit = [gr.exit EXCEPT ![t] = NoExit]
      /\ f.ready = [gr.ready EXCEPT ![t] = "Immediate"]
      /\ f.timed = gr.timed \ {t} /\ f.killed = gr.killed \ {t}
      /\ f.startFailed = gr.startFailed \ {t} /\ f.stopTimedOut = gr.stopTimedOut \ {t}
  BY <1>1 DEF Graph, Forget
<1> HIDE DEF f, ed, wp, ad, dirt
<1>5. /\ h.tasks = f.tasks \ {t} /\ h.state = [f.state EXCEPT ![t] = "Idle"]
      /\ h.exit = f.exit /\ h.ready = f.ready /\ h.timed = f.timed /\ h.killed = f.killed
      /\ h.startFailed = f.startFailed /\ h.stopTimedOut = f.stopTimedOut
  BY <1>2, <1>3 DEF Graph
<1> HIDE DEF h
<1>6. /\ gr.state \in [Task -> TaskState] /\ gr.exit \in [Task -> ExitInfo \cup {NoExit}]
      /\ gr.ready \in [Task -> ReadyMode]
  BY <1>1 DEF Graph
<1>7. ASSUME NEW u \in Task \ {t} PROVE SameRun(gr, h, u)
  BY <1>4, <1>5, <1>6 DEF SameRun
<1>8. Marked(h, t)
  <2>1. /\ h.state[t] = "Idle" /\ t \notin h.timed /\ t \notin h.killed
        /\ t \notin h.startFailed
    BY <1>1, <1>4, <1>5, <1>6
  <2> QED
    BY <2>1 DEF Marked, timed_state
<1>9. \A u \in Task : Marked(h, u)
  BY <1>7, <1>8, SameRunMarked DEF Marks
<1>10. \A u \in Task \ h.tasks : h.state[u] = "Idle"
  BY <1>1, <1>4, <1>5, <1>6 DEF Marks
<1>11. \A u \in Task : u \in gr.tasks \cap h.tasks => Move(gr, h, u)
  BY <1>4, <1>5, <1>7 DEF SameRun, Move
<1> QED
  BY <1>9, <1>10, <1>11 DEF Fine, Marks, h

\* A registration adds an idle task.
LEMMA RegisterFine ==
  ASSUME NEW gr, Sound(gr), Marks(gr), NEW t \in Task \ gr.tasks, NEW def \in TaskDef
  PROVE  Fine(gr, Register(gr, t, def))
<1> DEFINE added == [gr EXCEPT
                       !.tasks = @ \cup {t},
                       !.kind[t] = def.kind, !.ready[t] = def.ready,
                       !.restart[t] = def.restart,
                       !.savedPin = IF def.savedPin THEN @ \cup {t} ELSE @]
           linked == AddEdges(added, t, def.deps)
           pinned == IF def.pinned THEN AddEdges(linked, Init0, {t}) ELSE linked
           queued == Enqueue(pinned, {t})
           h == Notify(queued)
<1>1. /\ gr \in Graph /\ def.kind \in TaskKind /\ def.ready \in ReadyMode
      /\ def.restart \in RestartMode /\ def.deps \in SUBSET Task /\ {t} \in SUBSET Task
  BY DEF Sound, TaskDef
<1>2. Sound(added)
  <2>1. added \in Graph
    BY <1>1 DEF Graph
  <2>2. /\ added.tasks = gr.tasks \cup {t} /\ added.edges = gr.edges
        /\ added.state = gr.state /\ added.wanted = gr.wanted
        /\ added.wantedParents = gr.wantedParents
        /\ added.activeDependents = gr.activeDependents /\ added.dirty = gr.dirty
        /\ added.savedPin \subseteq gr.tasks \cup {t}
    BY <1>1 DEF Graph, Sound, Clean
  <2> QED
    BY <2>1, <2>2, AddedSound
<1>3. /\ added.tasks = gr.tasks \cup {t} /\ added.state = gr.state /\ added.exit = gr.exit
      /\ added.ready = [gr.ready EXCEPT ![t] = def.ready] /\ added.timed = gr.timed
      /\ added.killed = gr.killed /\ added.startFailed = gr.startFailed
      /\ added.stopTimedOut = gr.stopTimedOut
  BY <1>1 DEF Graph
<1> HIDE DEF added
<1>4. SameRuns(added, linked) /\ Sound(linked)
  BY <1>1, <1>2, EdgeRuns, AddEdgesSound
<1> HIDE DEF linked
<1>5. SameRuns(added, pinned) /\ Sound(pinned)
  <2>1. SameRuns(linked, AddEdges(linked, Init0, {t})) /\ Sound(AddEdges(linked, Init0, {t}))
    BY <1>1, <1>4, EdgeRuns, AddEdgesSound
  <2> QED
    BY <1>4, <2>1, SameRunsTwice
<1> HIDE DEF pinned
<1>6. SameRuns(pinned, queued) /\ Sound(queued)
  BY <1>5, QuietRuns, EnqueueSound
<1> HIDE DEF queued
<1>7. SameRuns(queued, h)
  BY <1>6, QuietRuns
<1>8. Register(gr, t, def) = h
  BY DEF Register, h, queued, pinned, linked, added
<1> HIDE DEF h
<1>9. SameRuns(added, h)
  BY <1>5, <1>6, <1>7, SameRunsTwice
<1>10. ASSUME NEW u \in Task \ {t} PROVE SameRun(gr, h, u)
  <2>1. gr.ready \in [Task -> ReadyMode]
    BY <1>1 DEF Graph
  <2> QED
    BY <1>3, <1>9, <2>1 DEF SameRuns, SameRun
<1>11. Marked(h, t) /\ h.state[t] = "Idle"
  <2>1. gr.state[t] = "Idle" /\ Marked(gr, t)
    BY DEF Marks
  <2>2. /\ h.state[t] = "Idle" /\ t \notin h.timed /\ t \notin h.killed
        /\ t \notin h.startFailed
    BY <1>3, <1>9, <2>1 DEF SameRuns, SameRun, Marked, timed_state
  <2> QED
    BY <2>2 DEF Marked, timed_state
<1>12. \A u \in Task : Marked(h, u)
  BY <1>10, <1>11, SameRunMarked DEF Marks
<1>13. \A u \in Task \ h.tasks : h.state[u] = "Idle"
  BY <1>3, <1>9, <1>10, <1>11 DEF Marks, SameRuns, SameRun
<1>14. \A u \in Task : u \in gr.tasks \cap h.tasks => Move(gr, h, u)
  BY <1>10 DEF SameRun, Move
<1> QED
  BY <1>8, <1>12, <1>13, <1>14 DEF Fine, Marks

\* An update changes how a run gets ready only while there is none; the restart it
\* may ask for moves runs along the diagram.
LEMMA UpdateTaskFine ==
  ASSUME NEW gr, Sound(gr), Marks(gr), NEW t \in gr.tasks, NEW def \in TaskDef
  PROVE  Fine(gr, UpdateTask(gr, t, def))
<1> DEFINE now == [gr EXCEPT !.kind[t] = def.kind, !.ready[t] = def.ready,
                             !.next[t] = NoNext, !.restart[t] = def.restart]
           later == [gr EXCEPT !.next[t] = [kind |-> def.kind, ready |-> def.ready],
                               !.restart[t] = def.restart]
           redefined == IF gr.state[t] = "Idle" THEN now ELSE later
           unlinked == RemoveEdges(redefined, t, Deps(gr, t) \ def.deps)
           linked == AddEdges(unlinked, t, def.deps)
           noted == Notify(linked)
           told == Enqueue(noted, {t})
<1>1. /\ def.kind \in TaskKind /\ def.ready \in ReadyMode
      /\ def.restart \in RestartMode /\ def.deps \in SUBSET Task
  BY DEF TaskDef
<1>2. gr \in Graph /\ t \in Task /\ Deps(gr, t) \ def.deps \in SUBSET Task
  BY DEF Sound, Graph, Deps
<1>3. Sound(redefined) /\ redefined.tasks = gr.tasks
  <2>1. Keeps(gr, now)
    <3>1. SameCore(gr, now) /\ now.dirty = gr.dirty /\ now.savedPin = gr.savedPin
      BY <1>1, <1>2 DEF Graph, SameCore
    <3>2. now \in Graph
      BY <1>1, <1>2 DEF Graph
    <3> QED
      BY <3>1, <3>2, FlagsKept
  <2>2. Keeps(gr, later)
    <3>1. [kind |-> def.kind, ready |-> def.ready] \in NextRun
      BY <1>1 DEF NextRun
    <3>2. SameCore(gr, later) /\ later.dirty = gr.dirty /\ later.savedPin = gr.savedPin
      BY <1>1, <1>2 DEF Graph, SameCore
    <3>3. later \in Graph
      BY <1>1, <1>2, <3>1 DEF Graph
    <3> QED
      BY <3>2, <3>3, FlagsKept
  <2> QED
    BY <2>1, <2>2 DEF Keeps
<1>4. \A u \in Task : Marked(redefined, u)
  <2>1. ASSUME NEW u \in Task, u # t \/ gr.state[t] # "Idle"
        PROVE  SameRun(gr, redefined, u)
    BY <1>2, <2>1 DEF Graph, SameRun
  <2>2. ASSUME gr.state[t] = "Idle" PROVE Marked(redefined, t)
    <3>1. Marked(gr, t)
      BY <1>2 DEF Marks
    <3>2. /\ redefined.state[t] = "Idle"
          /\ t \in redefined.timed <=> t \in gr.timed
          /\ t \in redefined.killed <=> t \in gr.killed
          /\ t \in redefined.startFailed <=> t \in gr.startFailed
      BY <1>2, <2>2 DEF Graph
    <3> QED
      BY <2>2, <3>1, <3>2 DEF Marked, timed_state
  <2> QED
    BY <2>1, <2>2, SameRunMarked DEF Marks
<1>5. /\ redefined.state = gr.state /\ redefined.exit = gr.exit
      /\ redefined.startFailed = gr.startFailed
  BY <1>2 DEF Graph
<1> HIDE DEF redefined
<1>6. Fine(gr, redefined)
  BY <1>3, <1>4, <1>5 DEF Fine, Marks, Move
<1>7. SameRuns(redefined, unlinked) /\ Sound(unlinked)
  BY <1>2, <1>3, EdgeRuns, RemoveEdgesSound
<1> HIDE DEF unlinked
<1>8. SameRuns(unlinked, linked) /\ Sound(linked)
  BY <1>1, <1>2, <1>7, EdgeRuns, AddEdgesSound
<1> HIDE DEF linked
<1>9. SameRuns(linked, noted) /\ Sound(noted)
  BY <1>2, <1>8, QuietRuns, NotifySound
<1> HIDE DEF noted
<1>10. SameRuns(noted, told) /\ Sound(told)
  BY <1>2, <1>9, QuietRuns, EnqueueSound
<1> HIDE DEF told
<1>11. SameRuns(redefined, told)
  BY <1>7, <1>8, <1>9, <1>10, SameRunsTwice
<1>12. Fine(redefined, told) /\ told.tasks = gr.tasks
  BY <1>3, <1>6, <1>11, SameRunsFine DEF Fine, SameRuns
<1>13. Fine(told, CmdRestart(told, t))
  BY <1>10, <1>12, VerbsFine DEF Fine
<1>14. ASSUME NEW h, Fine(told, h) PROVE Fine(gr, h)
  <2>1. Fine(redefined, h)
    BY <1>11, <1>14, SameThenFine
  <2> QED
    BY <1>3, <1>5, <1>6, <2>1, FineTwice
<1>15. Fine(told, told)
  BY <1>12, SameRunsFine DEF Fine, SameRuns, SameRun
<1>16. UpdateTask(gr, t, def) \in {told, CmdRestart(told, t)}
  BY DEF UpdateTask, told, noted, linked, unlinked, redefined
<1> QED
  BY <1>13, <1>14, <1>15, <1>16

\* Driving a task starts it from Idle, stops it when up, or ends its delay.
LEMMA DriveTaskFine ==
  ASSUME NEW gr, Sound(gr), Marks(gr), NEW t \in gr.tasks
  PROVE  \/ Fine(gr, DriveTask(gr, t))
         \/ t \in gr.supported /\ Starts(gr, DriveTask(gr, t), t)
<1>1. CASE t \in gr.supported /\ gr.state[t] = "Idle"
  BY <1>1, StartTaskStarts DEF DriveTask
<1>2. CASE t \notin gr.supported /\ gr.state[t] \in Up /\ gr.activeDependents[t] = 0
  <2>1. DriveTask(gr, t) = StopIfActive(gr, t)
    BY <1>2 DEF DriveTask, StopIfActive, Up
  <2> QED
    BY <2>1, StopIfActiveFine
<1>3. CASE t \notin gr.supported /\ gr.state[t] = "Backoff"
  <2> DEFINE h == ToIdle(gr, t)
  <2>1. OnlyAt(gr, h, t) /\ Plain(h, t, "Idle", NoExit)
    BY <1>3, ToIdleRun
  <2>2. DriveTask(gr, t) = h
    BY <1>3 DEF DriveTask, Up
  <2> HIDE DEF h
  <2>3. Marked(h, t)
    BY <2>1, PlainMarked DEF timed_state
  <2>4. Move(gr, h, t)
    BY <1>3, <2>1 DEF Move, Plain, Ended, NoExit
  <2> QED
    BY <2>1, <2>2, <2>3, <2>4, OnlyAtFine
<1>4. SameRuns(gr, gr)
  BY DEF SameRuns, SameRun
<1> QED
  BY <1>1, <1>2, <1>3, <1>4, SameRunsFine DEF DriveTask

\* Every verb is fine.
LEMMA ActFine ==
  ASSUME NEW gr, Sound(gr), Marks(gr), NEW t \in gr.tasks, NEW verb \in Verb
  PROVE  Fine(gr, Act(verb, gr, t))
<1>1. Act(verb, gr, t) \in
        {CmdUp(gr, t), CmdStart(gr, t), CmdRestart(gr, t), CmdStart(CmdKill(gr, t), t),
         CmdStop(gr, t), CmdKill(gr, t), CmdVeto(gr, t), SetPin(gr, t, FALSE),
         RemoveTask(gr, t)}
  BY DEF Act, Verb
<1>2. Fine(gr, CmdUp(gr, t)) /\ Fine(gr, CmdStart(gr, t)) /\ Fine(gr, CmdKill(gr, t))
  BY CmdStartFine, CmdKillFine
<1> QED
  BY <1>1, <1>2, VerbsFine, RemoveTaskFine

-----------------------------------------------------------------------------
(* The kernel *)

\* The empty graph bears no mark.
LEMMA InitMarks == Init => Marks(g)
<1>1. /\ EmptyGraph.timed = {} /\ EmptyGraph.killed = {} /\ EmptyGraph.startFailed = {}
      /\ EmptyGraph.stopTimedOut = {} /\ \A t \in Task : EmptyGraph.state[t] = "Idle"
  BY DEF EmptyGraph
<1> QED
  BY <1>1 DEF Init, Marks, Marked, timed_state

\* The loop starts t: it drives it, and finds it supported.
DriveStarts(t) == Drive(t) /\ t \in g.supported /\ Starts(g, g', t)

\* Every step of the loop moves runs along the diagram and keeps the marks; the only
\* ones that start a task are those of the reconciler that find it supported.
LEMMA NextFine ==
  IInv /\ Marks(g) /\ [Next]_vars => Fine(g, g') \/ \E t \in Task : DriveStarts(t)
<1> SUFFICES ASSUME IInv, Marks(g), [Next]_vars
             PROVE  Fine(g, g') \/ \E t \in Task : DriveStarts(t)
  OBVIOUS
<1>0. Sound(g) /\ g \in Graph
  BY DEF IInv, Sound
<1>1. ASSUME g' = g PROVE Fine(g, g')
  BY <1>1, SameRunsFine DEF SameRuns, SameRun
<1>2. ASSUME NEW t \in fresh, NEW def \in Def[t], RecvRegister(t, def) PROVE Fine(g, g')
  <2>1. t \in Task \ g.tasks /\ def \in TaskDef
    BY KernelAssumption DEF IInv, TypeOK
  <2> QED
    BY <1>0, <1>1, <1>2, <2>1, RegisterFine DEF RecvRegister
<1>3. CASE RecvQuit
  <2> DEFINE k == [g EXCEPT !.quitting = TRUE]
  <2>1. /\ k \in Graph /\ SameCore(g, k) /\ k.dirty = g.dirty /\ k.savedPin = g.savedPin
    BY <1>0 DEF Graph, SameCore
  <2>2. Sound(k) /\ SameRuns(g, k)
    BY <1>0, <2>1, FlagsKept DEF Keeps, Graph, SameRuns, SameRun
  <2> HIDE DEF k
  <2>3. SameRuns(k, Enqueue(k, g.tasks))
    BY <2>2, <1>0, EnqueueSound DEF Sound, Graph, Enqueue, SameRuns, SameRun
  <2>4. g' = g \/ g' = Enqueue(k, g.tasks)
    BY <1>3 DEF RecvQuit, k
  <2> QED
    BY <1>1, <2>2, <2>3, <2>4, SameRunsTwice, SameRunsFine
<1>4. ASSUME NEW t \in Task, NEW report \in Report, RecvReport(t, report) PROVE Fine(g, g')
  <2>1. g' \in {OnTaskStarted(g, t), OnTaskReady(g, t), OnTaskStopped(g, t, "ok"),
                OnTaskStopped(g, t, "err")}
    BY <1>4 DEF RecvReport, Report
  <2> QED
    BY <1>0, <2>1, ReportsFine
<1>5. ASSUME NEW t \in Task, RecvTimeout(t) PROVE Fine(g, g')
  BY <1>0, <1>5, OnStateTimeoutFine DEF RecvTimeout
<1>6. ASSUME NEW t \in Mortal, HandlerEnds(t) PROVE Fine(g, g')
  <2>1. SameRuns(g, g')
    BY <1>0, <1>6 DEF HandlerEnds, Graph, SameRuns, SameRun
  <2> QED
    BY <2>1, SameRunsFine
<1>7. ASSUME NEW t \in Task, ActOn(t) PROVE Fine(g, g')
  <2>1. t \in g.tasks /\ apply \in Work
    BY <1>7 DEF ActOn, IInv
  <2>2. CASE apply.verb = "Update"
    <3>1. apply.def \in TaskDef
      BY <2>1, <2>2 DEF Work, Verb
    <3> QED
      BY <1>0, <1>7, <2>1, <2>2, <3>1, UpdateTaskFine DEF ActOn
  <2>3. CASE apply.verb # "Update"
    <3>1. apply.verb \in Verb
      BY <2>1, <2>3 DEF Work
    <3> QED
      BY <1>0, <1>7, <2>1, <2>3, <3>1, ActFine DEF ActOn
  <2> QED
    BY <2>2, <2>3
<1>8. ASSUME NEW t \in Task, ApplyEffect(t) PROVE Fine(g, g')
  <2> DEFINE k == [g EXCEPT !.effects = @ \ {t}]
  <2>1. k \in Graph /\ SameCore(g, k) /\ k.dirty = g.dirty /\ k.savedPin = g.savedPin
    BY <1>0 DEF Graph, SameCore
  <2>2. Sound(k) /\ SameRuns(g, k)
    BY <1>0, <2>1, FlagsKept DEF Keeps, Graph, SameRuns, SameRun
  <2>3. g' = OnTaskStopped(k, t, "err")
    BY <1>8 DEF ApplyEffect
  <2> HIDE DEF k
  <2>4. Marks(k)
    BY <2>2, SameRunsFine DEF Fine
  <2> QED
    BY <2>2, <2>3, <2>4, ReportsFine, SameThenFine
<1>9. ASSUME NEW t \in Task, Recompute(t) PROVE Fine(g, g')
  <2> DEFINE k == [g EXCEPT !.dirty = @ \ {t}]
  <2>1. /\ k \in Graph /\ SameCore(g, k) /\ k.dirty \subseteq g.tasks
        /\ k.savedPin \subseteq g.tasks
    BY <1>0 DEF Graph, SameCore, Sound, Closed, Clean
  <2>2. Sound(k) /\ SameRuns(g, k) /\ k.tasks = g.tasks
    BY <1>0, <2>1, SameCoreSound DEF Graph, SameRuns, SameRun, SameCore
  <2>3. g' = RecomputeCaches(k, t) /\ t \in g.tasks
    BY <1>0, <1>9 DEF Recompute, Sound, Closed
  <2> HIDE DEF k
  <2>4. SameRuns(k, g')
    BY <2>2, <2>3, RecomputeRuns
  <2> QED
    BY <2>2, <2>4, SameRunsTwice, SameRunsFine
<1>10. ASSUME NEW t \in Task, Drive(t) PROVE Fine(g, g') \/ DriveStarts(t)
  BY <1>0, <1>10, DriveTaskFine DEF Drive, IInv, DriveStarts
<1>11. ASSUME NEW verb \in VerbSet, NEW S \in Selection, RecvAct(verb, S) PROVE g' = g
  BY <1>11 DEF RecvAct
<1>12. ASSUME NEW S \in Selection, NEW def \in UNION {Def[t] : t \in S}, RecvUpdate(S, def)
       PROVE  g' = g
  BY <1>12 DEF RecvUpdate
<1>13. CASE Settled
  BY <1>1, <1>13 DEF Settled
<1>14. CASE UNCHANGED vars
  BY <1>1, <1>14 DEF vars
<1> QED
  BY <1>1, <1>2, <1>3, <1>4, <1>5, <1>6, <1>7, <1>8, <1>9, <1>10, <1>11, <1>12, <1>13, <1>14
  DEF Next, Message, Turn, Stand

\* So the marks are right throughout.
LEMMA MarksInvariance == Spec => [](IInv /\ Marks(g))
<1>1. Marks(g) /\ IInv /\ [Next]_vars => Marks(g)'
  BY NextFine DEF Fine, DriveStarts, Starts
<1> QED
  BY <1>1, InitMarks, Invariance, PTL DEF Spec

\* A timer is set exactly on the states that have one, and the flags of a stop are on
\* a stop: every way into Stopping, Backoff and a Running with a timeout sets the timer
\* (stop_task, hard_kill, land_exit, on_task_started), and set_state drops what the
\* state before had.
THEOREM TimersStayExact == Spec => []TimersExact
<1>1. IInv /\ Marks(g) => TimersExact
  <2> SUFFICES ASSUME IInv, Marks(g), NEW t \in g.tasks PROVE Marked(g, t)
    BY DEF TimersExact, Marked
  <2>1. t \in Task
    BY DEF IInv, Sound, Graph
  <2> QED
    BY <2>1 DEF Marks
<1> QED
  BY <1>1, MarksInvariance, PTL

\* Every change of a task's state is one of the diagram of TaskState, by whatever way
\* the kernel comes to it, and only the stop of a failed start lands as a failed exit.
THEOREM TransitionsLegal == Spec => LegalTransitions
<1>1. IInv /\ Marks(g) /\ [Next]_vars =>
        [\A t \in g.tasks \cap g'.tasks :
           g.state[t] # g'.state[t] =>
             /\ Legal(t, g.state[t], g'.state[t])
             /\ g'.exit[t] = "ready_timeout" <=>
                  (g.state[t] = "Stopping" /\ g'.state[t] \in Ended)]_g
  <2> SUFFICES ASSUME IInv, Marks(g), [Next]_vars, NEW t \in g.tasks \cap g'.tasks,
                      g.state[t] # g'.state[t]
               PROVE  /\ Legal(t, g.state[t], g'.state[t])
                      /\ g'.exit[t] = "ready_timeout" <=>
                           (g.state[t] = "Stopping" /\ g'.state[t] \in Ended)
    OBVIOUS
  <2>1. t \in Task /\ g.state[t] \in TaskState
    BY DEF IInv, Sound, Graph
  <2>2. CASE Move(g, g', t)
    BY <2>1, <2>2 DEF Move, Legal, TaskState, Up, Ended
  <2>3. CASE Starts(g, g', t)
    BY <2>3 DEF Starts, Plain, Legal, Ended, NoExit
  <2>4. Move(g, g', t) \/ Starts(g, g', t)
    <3>1. CASE Fine(g, g')
      BY <2>1, <3>1 DEF Fine
    <3>2. CASE \E u \in Task : DriveStarts(u)
      BY <2>1, <3>2 DEF DriveStarts, Starts, OnlyAt, SameRun
    <3> QED
      BY <3>1, <3>2, NextFine
  <2> QED
    BY <2>2, <2>3, <2>4
<1> QED
  BY <1>1, MarksInvariance, PTL DEF Spec, LegalTransitions


-----------------------------------------------------------------------------
(***************************************************************************)
(* The reconciler: the caches it keeps step by step are what the whole     *)
(* graph says, and it leaves every task where it should be.                *)
(***************************************************************************)

-----------------------------------------------------------------------------
(* Who has to be looked at again *)

\* The caches of t are what its neighbours' give.
Current(gr, t) ==
  /\ t \in gr.wanted <=> ComputeWanted(gr, t)
  /\ t \in gr.supported <=> ComputeSupported(gr, t)

\* The tasks that are not queued have nothing to learn.
Tracked(gr) ==
  /\ gr.supported \subseteq gr.tasks
  /\ \A t \in gr.tasks \ gr.dirty : Current(gr, t)

\* A task is where its cache puts it.
Driven(gr, t) ==
  /\ t \in gr.supported => gr.state[t] # "Idle"
  /\ t \notin gr.supported =>
       /\ gr.state[t] # "Backoff"
       /\ gr.state[t] \in Up => gr.activeDependents[t] # 0

\* t sees in h what it sees in gr, and was not queued there.
Same(gr, h, t) ==
  /\ t \in gr.tasks \ gr.dirty
  /\ t \in h.wanted <=> t \in gr.wanted
  /\ t \in h.supported <=> t \in gr.supported
  /\ ComputeWanted(h, t) <=> ComputeWanted(gr, t)
  /\ ComputeSupported(h, t) <=> ComputeSupported(gr, t)
  /\ h.state[t] = gr.state[t]
  /\ h.activeDependents[t] = gr.activeDependents[t]

\* An operation queues every task that sees a change of it.
Seen(gr, h) ==
  /\ gr.supported \subseteq gr.tasks => h.supported \subseteq h.tasks
  /\ \A t \in h.tasks \ h.dirty : Same(gr, h, t)

\* What is seen in two steps is seen.
LEMMA SeenTwice ==
  ASSUME NEW gr, NEW k, NEW h, Seen(gr, k), Seen(k, h)
  PROVE  Seen(gr, h)
<1>1. ASSUME NEW t \in h.tasks \ h.dirty PROVE Same(gr, h, t)
  <2>1. Same(k, h, t) /\ t \in k.tasks \ k.dirty
    BY DEF Seen, Same
  <2>2. Same(gr, k, t)
    BY <2>1 DEF Seen
  <2> QED
    BY <2>1, <2>2 DEF Same
<1> QED
  BY <1>1 DEF Seen

\* So the tasks that are not queued have nothing to learn, and are where they were.
LEMMA SeenTracked ==
  ASSUME NEW gr, Tracked(gr), NEW h, Seen(gr, h)
  PROVE  /\ Tracked(h)
         /\ \A t \in h.tasks \ h.dirty : Driven(gr, t) => Driven(h, t)
BY DEF Tracked, Seen, Same, Current, Driven

\* A task sees its own caches, its state, its veto, its counters, its deps and,
\* of each of them, whether it is supported and whether it is satisfied.
LEMMA Sight ==
  ASSUME NEW gr, NEW h, NEW t \in gr.tasks \ gr.dirty,
         h.quitting = gr.quitting,
         t \in h.wanted <=> t \in gr.wanted,
         t \in h.supported <=> t \in gr.supported,
         t \in h.vetoed <=> t \in gr.vetoed,
         h.wantedParents[t] = gr.wantedParents[t],
         h.activeDependents[t] = gr.activeDependents[t],
         h.state[t] = gr.state[t],
         Deps(h, t) = Deps(gr, t),
         \A d \in Deps(gr, t) : /\ d \in h.supported <=> d \in gr.supported
                                /\ Satisfied(h, d) <=> Satisfied(gr, d)
  PROVE  Same(gr, h, t)
BY DEF Same, ComputeWanted, ComputeSupported

\* What a task sees, all of it left alone.
SameSight(gr, h) ==
  /\ h.tasks = gr.tasks /\ h.edges = gr.edges /\ h.kind = gr.kind /\ h.state = gr.state
  /\ h.vetoed = gr.vetoed /\ h.wanted = gr.wanted /\ h.supported = gr.supported
  /\ h.wantedParents = gr.wantedParents /\ h.activeDependents = gr.activeDependents
  /\ h.quitting = gr.quitting

\* An operation that leaves all that alone is seen by nobody.
LEMMA SameSightSeen ==
  ASSUME NEW gr, NEW h, SameSight(gr, h), gr.dirty \subseteq h.dirty
  PROVE  Seen(gr, h)
<1>1. \A t : Deps(h, t) = Deps(gr, t)
  BY DEF SameSight, Deps
<1>2. \A t : Satisfied(h, t) <=> Satisfied(gr, t)
  BY DEF SameSight, Satisfied
<1>3. \A t \in h.tasks \ h.dirty : Same(gr, h, t)
  BY <1>1, <1>2, Sight DEF SameSight
<1> QED
  BY <1>3 DEF Seen, SameSight

\* Queueing, notifying, sending a command and setting a timer are seen by nobody.
LEMMA QuietSeen ==
  ASSUME NEW gr, gr \in Graph, NEW S, NEW t
  PROVE  /\ SameSight(gr, Enqueue(gr, S)) /\ Seen(gr, Enqueue(gr, S))
         /\ SameSight(gr, Notify(gr)) /\ Seen(gr, Notify(gr))
         /\ SameSight(gr, SendCmd(gr, t)) /\ Seen(gr, SendCmd(gr, t))
         /\ SameSight(gr, Schedule(gr, t)) /\ Seen(gr, Schedule(gr, t))
<1>1. SameSight(gr, Enqueue(gr, S)) /\ gr.dirty \subseteq Enqueue(gr, S).dirty
  BY DEF Graph, Enqueue, SameSight
<1>2. SameSight(gr, Notify(gr)) /\ gr.dirty \subseteq Notify(gr).dirty
  BY DEF Graph, Notify, SameSight
<1>3. SameSight(gr, SendCmd(gr, t)) /\ gr.dirty \subseteq SendCmd(gr, t).dirty
  BY DEF Graph, SendCmd, SameSight
<1>4. SameSight(gr, Schedule(gr, t)) /\ gr.dirty \subseteq Schedule(gr, t).dirty
  BY DEF Graph, Schedule, SameSight
<1> QED
  BY <1>1, <1>2, <1>3, <1>4, SameSightSeen

\* A change of state is seen by the task, by its dependents when it satisfies them or
\* no longer does, and by its deps when it begins or stops to hold them.
LEMMA SetStateSeen ==
  ASSUME NEW gr, Sound(gr), NEW t \in gr.tasks, NEW s \in TaskState,
         NEW info \in ExitInfo \cup {NoExit}, gr.state[t] # s
  PROVE  /\ Seen(gr, SetState(gr, t, s, info))
         /\ SetState(gr, t, s, info).edges = gr.edges
         /\ t \in SetState(gr, t, s, info).dirty
<1>1. PICK h : h = SetState(gr, t, s, info)
  OBVIOUS
<1>2. gr \in Graph /\ t \in Task /\ gr.tasks \subseteq Task
  BY DEF Sound, Graph
<1>3. /\ gr.state \in [Task -> TaskState] /\ gr.kind \in [Task -> TaskKind]
      /\ gr.activeDependents \in [Task -> Int]
  BY <1>2 DEF Graph
<1>0. h.tasks = gr.tasks /\ MovedTo(gr, h, t, s, info)
  BY <1>1, SetStateAll DEF Keeps
<1>4. /\ h.tasks = gr.tasks
      /\ h.edges = gr.edges /\ h.kind = gr.kind
      /\ h.vetoed = gr.vetoed /\ h.wanted = gr.wanted /\ h.supported = gr.supported
      /\ h.wantedParents = gr.wantedParents /\ h.quitting = gr.quitting
      /\ h.state = [gr.state EXCEPT ![t] = s]
      /\ h.activeDependents =
           IF Active(gr, t) # is_active(s)
           THEN Bump(gr.activeDependents, Deps(gr, t), IF is_active(s) THEN 1 ELSE -1)
           ELSE gr.activeDependents
      /\ h.dirty = gr.dirty \cup {t}
           \cup (IF Satisfied(gr, t) # is_satisfied(gr.kind[t], s)
                 THEN Dependents(gr, t) ELSE {})
           \cup (IF Active(gr, t) # is_active(s) THEN Deps(gr, t) ELSE {})
  BY <1>0 DEF MovedTo
<1>5. ASSUME NEW u \in h.tasks \ h.dirty PROVE Same(gr, h, u)
  <2>1. u \in gr.tasks \ gr.dirty /\ u # t /\ u \in Task
    BY <1>2, <1>4
  <2>2. h.state[u] = gr.state[u]
    BY <1>3, <1>4, <2>1
  <2>3. h.activeDependents[u] = gr.activeDependents[u]
    <3>1. CASE Active(gr, t) # is_active(s)
      <4>1. u \notin Deps(gr, t)
        BY <1>4, <1>5, <3>1
      <4> QED
        BY <1>3, <1>4, <2>1, <3>1, <4>1 DEF Bump
    <3>2. CASE ~(Active(gr, t) # is_active(s))
      BY <1>4, <3>2
    <3> QED
      BY <3>1, <3>2
  <2>4. Deps(h, u) = Deps(gr, u)
    BY <1>4 DEF Deps
  <2>5. ASSUME NEW d \in Deps(gr, u) PROVE Satisfied(h, d) <=> Satisfied(gr, d)
    <3>1. CASE d # t
      BY <1>3, <1>4, <3>1 DEF Satisfied
    <3>2. CASE d = t
      <4>1. u \in Dependents(gr, t)
        BY <2>1, <2>5, <3>2 DEF Deps, Dependents
      <4>2. ~(Satisfied(gr, t) # is_satisfied(gr.kind[t], s))
        BY <1>4, <1>5, <4>1
      <4>3. h.state[t] = s
        BY <1>2, <1>3, <1>4
      <4> QED
        BY <1>4, <3>2, <4>2, <4>3 DEF Satisfied, is_satisfied
    <3> QED
      BY <3>1, <3>2
  <2> QED
    BY <1>4, <2>1, <2>2, <2>3, <2>4, <2>5, Sight
<1> QED
  BY <1>1, <1>4, <1>5 DEF Seen

-----------------------------------------------------------------------------
(* Edges *)

\* h has no edge between tasks that gr has not; it may have other pins.
FewerEdges(gr, h) == \A e \in h.edges : e[1] = Init0 \/ e \in gr.edges

\* An operation that is seen and joins no two tasks.
Follows(gr, h) == Seen(gr, h) /\ FewerEdges(gr, h)

\* Operations that do so one after the other do so together.
LEMMA FollowsTwice ==
  ASSUME NEW gr, NEW k, NEW h, Follows(gr, k), Follows(k, h)
  PROVE  Follows(gr, h)
<1>1. Seen(gr, h)
  BY SeenTwice DEF Follows
<1> QED
  BY <1>1 DEF Follows, FewerEdges

\* An operation that leaves alone all that is seen, or the graph.
LEMMA SameSightFollows ==
  ASSUME NEW gr, NEW h, SameSight(gr, h), gr.dirty \subseteq h.dirty
  PROVE  Follows(gr, h)
BY SameSightSeen DEF Follows, FewerEdges, SameSight

\* Doing nothing.
LEMMA SelfFollows ==
  ASSUME NEW gr
  PROVE  Follows(gr, gr)
BY SameSightFollows DEF SameSight

\* Queueing, notifying, sending a command and setting a timer.
LEMMA QuietFollows ==
  ASSUME NEW gr, gr \in Graph, NEW S, NEW t
  PROVE  /\ Follows(gr, Enqueue(gr, S)) /\ Follows(gr, Notify(gr))
         /\ Follows(gr, SendCmd(gr, t)) /\ Follows(gr, Schedule(gr, t))
BY QuietSeen DEF Follows, FewerEdges, SameSight

\* A change of edges from one task, or of pins, is seen by that task and by the tasks
\* the edges go to: whoever else looks sees the same.
LEMMA EdgesSeen ==
  ASSUME NEW gr, Sound(gr), NEW h, NEW from, NEW S \in SUBSET Task,
         h.tasks = gr.tasks, h.kind = gr.kind, h.state = gr.state,
         h.vetoed = gr.vetoed, h.wanted = gr.wanted, h.supported = gr.supported,
         h.quitting = gr.quitting,
         gr.dirty \subseteq h.dirty, (S \cup {from}) \cap gr.tasks \subseteq h.dirty,
         \A e : e[1] # from => (e \in h.edges <=> e \in gr.edges),
         \A u \in Task \ S : /\ h.wantedParents[u] = gr.wantedParents[u]
                             /\ h.activeDependents[u] = gr.activeDependents[u]
  PROVE  Seen(gr, h)
<1>1. ASSUME NEW u \in h.tasks \ h.dirty PROVE Same(gr, h, u)
  <2>1. u \in Task /\ u # from /\ u \notin S /\ u \in gr.tasks \ gr.dirty
    BY DEF Sound, Graph
  <2>2. Deps(h, u) = Deps(gr, u)
    <3>1. \A d : <<u, d>>[1] = u
      OBVIOUS
    <3> QED
      BY <2>1, <3>1 DEF Deps
  <2>3. \A d : Satisfied(h, d) <=> Satisfied(gr, d)
    BY DEF Satisfied
  <2> QED
    BY <2>1, <2>2, <2>3, Sight
<1> QED
  BY <1>1 DEF Seen

\* add_edge is seen.
LEMMA AddEdgesSeen ==
  ASSUME NEW gr, Sound(gr), NEW from \in Task \cup {Init0}, NEW S \in SUBSET Task
  PROVE  LET h == AddEdges(gr, from, S)
         IN /\ Seen(gr, h)
            /\ \A e \in h.edges : e \in gr.edges \/ \E d \in S \ {from} : e = <<from, d>>
<1> DEFINE valid == {to \in S \cap gr.tasks : to # from}
           new == {to \in valid : <<from, to>> \notin gr.edges}
           wp == IF ParentWanted(gr, from) THEN Bump(gr.wantedParents, new, 1)
                 ELSE gr.wantedParents
           ad == IF ParentActive(gr, from) THEN Bump(gr.activeDependents, new, 1)
                 ELSE gr.activeDependents
           ed == gr.edges \cup {<<from, to>> : to \in new}
           k == [gr EXCEPT !.edges = ed, !.wantedParents = wp, !.activeDependents = ad]
           h == Enqueue(k, valid \cup {from})
<1>1. gr \in Graph
  BY DEF Sound
<1>2. AddEdges(gr, from, S) \in {gr, h}
  BY DEF AddEdges
<1>3. /\ gr.wantedParents \in [Task -> Int] /\ gr.activeDependents \in [Task -> Int]
  BY <1>1 DEF Graph
<1>4. \A u \in Task \ valid : wp[u] = gr.wantedParents[u] /\ ad[u] = gr.activeDependents[u]
  <2>1. new \subseteq valid
    OBVIOUS
  <2> HIDE DEF new, valid
  <2>2. \A u \in Task \ valid : Bump(gr.wantedParents, new, 1)[u] = gr.wantedParents[u]
    BY <2>1 DEF Bump
  <2>3. \A u \in Task \ valid : Bump(gr.activeDependents, new, 1)[u] = gr.activeDependents[u]
    BY <2>1 DEF Bump
  <2> QED
    BY <2>2, <2>3
<1>5. ASSUME NEW e, e[1] # from PROVE e \in ed <=> e \in gr.edges
  <2>1. \A to : <<from, to>>[1] = from
    OBVIOUS
  <2>2. e \notin {<<from, to>> : to \in new}
    BY <1>5, <2>1
  <2> QED
    BY <2>2
<1>6. \A e \in ed : e \in gr.edges \/ \E d \in S \ {from} : e = <<from, d>>
  OBVIOUS
<1> HIDE DEF wp, ad, ed
<1>7. /\ h.tasks = gr.tasks /\ h.kind = gr.kind /\ h.state = gr.state
      /\ h.vetoed = gr.vetoed /\ h.wanted = gr.wanted /\ h.supported = gr.supported
      /\ h.quitting = gr.quitting /\ h.edges = ed /\ h.wantedParents = wp
      /\ h.activeDependents = ad
      /\ h.dirty = gr.dirty \cup ((valid \cup {from}) \cap gr.tasks)
  BY <1>1 DEF Graph, Enqueue
<1> HIDE DEF h
<1>8. Seen(gr, h)
  BY <1>4, <1>5, <1>7, EdgesSeen
<1>9. Seen(gr, gr)
  BY SelfFollows DEF Follows
<1> QED
  BY <1>2, <1>6, <1>7, <1>8, <1>9

\* remove_edge is seen.
LEMMA RemoveEdgesFollows ==
  ASSUME NEW gr, Sound(gr), NEW from \in Task \cup {Init0}, NEW S \in SUBSET Task
  PROVE  Follows(gr, RemoveEdges(gr, from, S))
<1> DEFINE old == {to \in S : <<from, to>> \in gr.edges}
           wp == IF ParentWanted(gr, from) THEN Bump(gr.wantedParents, old, -1)
                 ELSE gr.wantedParents
           ad == IF ParentActive(gr, from) THEN Bump(gr.activeDependents, old, -1)
                 ELSE gr.activeDependents
           ed == gr.edges \ {<<from, to>> : to \in old}
           k == [gr EXCEPT !.edges = ed, !.wantedParents = wp, !.activeDependents = ad]
           h == Enqueue(k, S \cup {from})
<1>1. gr \in Graph
  BY DEF Sound
<1>2. RemoveEdges(gr, from, S) \in {gr, h}
  BY DEF RemoveEdges
<1>3. /\ gr.wantedParents \in [Task -> Int] /\ gr.activeDependents \in [Task -> Int]
  BY <1>1 DEF Graph
<1>4. \A u \in Task \ S : wp[u] = gr.wantedParents[u] /\ ad[u] = gr.activeDependents[u]
  <2>1. old \subseteq S
    OBVIOUS
  <2> HIDE DEF old
  <2>2. \A u \in Task \ S : Bump(gr.wantedParents, old, -1)[u] = gr.wantedParents[u]
    BY <2>1 DEF Bump
  <2>3. \A u \in Task \ S : Bump(gr.activeDependents, old, -1)[u] = gr.activeDependents[u]
    BY <2>1 DEF Bump
  <2> QED
    BY <2>2, <2>3
<1>5. ASSUME NEW e, e[1] # from PROVE e \in ed <=> e \in gr.edges
  <2>1. \A to : <<from, to>>[1] = from
    OBVIOUS
  <2>2. e \notin {<<from, to>> : to \in old}
    BY <1>5, <2>1
  <2> QED
    BY <2>2
<1>6. ed \subseteq gr.edges
  OBVIOUS
<1> HIDE DEF wp, ad, ed
<1>7. /\ h.tasks = gr.tasks /\ h.kind = gr.kind /\ h.state = gr.state
      /\ h.vetoed = gr.vetoed /\ h.wanted = gr.wanted /\ h.supported = gr.supported
      /\ h.quitting = gr.quitting /\ h.edges = ed /\ h.wantedParents = wp
      /\ h.activeDependents = ad
      /\ h.dirty = gr.dirty \cup ((S \cup {from}) \cap gr.tasks)
  BY <1>1 DEF Graph, Enqueue
<1> HIDE DEF h
<1>8. Seen(gr, h)
  BY <1>4, <1>5, <1>7, EdgesSeen
<1> QED
  BY <1>2, <1>6, <1>7, <1>8, SelfFollows DEF Follows, FewerEdges

\* set_pin and set_vetoed are seen.
LEMMA PinFollows ==
  ASSUME NEW gr, Sound(gr), NEW t \in gr.tasks, NEW pinned \in BOOLEAN
  PROVE  Follows(gr, SetPin(gr, t, pinned)) /\ Follows(gr, SetVetoed(gr, t))
<1>1. gr \in Graph /\ {t} \in SUBSET Task /\ t \in Task
  BY DEF Sound, Graph
<1>2. Follows(gr, SetPin(gr, t, pinned))
  <2> DEFINE latest == [gr EXCEPT !.savedPin = @ \ {t}]
  <2>1. /\ latest \in Graph /\ SameCore(gr, latest) /\ latest.dirty = gr.dirty
        /\ latest.savedPin \subseteq gr.tasks
    BY DEF Sound, Graph, SameCore, Closed, Clean
  <2>2. Sound(latest)
    BY <2>1, SameCoreSound DEF Sound, Closed
  <2>3. Follows(gr, latest)
    <3>1. SameSight(gr, latest)
      BY <1>1 DEF Graph, SameSight
    <3> QED
      BY <2>1, <3>1, SameSightFollows
  <2>4. SetPin(gr, t, pinned) \in {AddEdges(latest, Init0, {t}), RemoveEdges(latest, Init0, {t})}
    BY DEF SetPin
  <2> HIDE DEF latest
  <2>5. Follows(latest, AddEdges(latest, Init0, {t}))
    <3>1. Init0 \in Task \cup {Init0}
      OBVIOUS
    <3>2. Seen(latest, AddEdges(latest, Init0, {t}))
      BY <1>1, <2>2, <3>1, AddEdgesSeen
    <3>3. \A e \in AddEdges(latest, Init0, {t}).edges :
             e \in latest.edges \/ \E d \in {t} \ {Init0} : e = <<Init0, d>>
      BY <1>1, <2>2, <3>1, AddEdgesSeen
    <3> QED
      BY <3>2, <3>3 DEF Follows, FewerEdges
  <2>6. Follows(latest, RemoveEdges(latest, Init0, {t}))
    BY <1>1, <2>2, RemoveEdgesFollows
  <2> QED
    BY <2>3, <2>4, <2>5, <2>6, FollowsTwice
<1>3. Follows(gr, SetVetoed(gr, t))
  <2> DEFINE h == Enqueue([gr EXCEPT !.vetoed = @ \cup {t}], {t})
  <2>1. /\ h.tasks = gr.tasks /\ h.kind = gr.kind /\ h.state = gr.state
        /\ h.vetoed = gr.vetoed \cup {t} /\ h.wanted = gr.wanted
        /\ h.supported = gr.supported /\ h.quitting = gr.quitting /\ h.edges = gr.edges
        /\ h.wantedParents = gr.wantedParents /\ h.activeDependents = gr.activeDependents
        /\ h.dirty = gr.dirty \cup {t}
    BY <1>1 DEF Graph, Enqueue
  <2>2. SetVetoed(gr, t) \in {gr, h}
    BY DEF SetVetoed
  <2> HIDE DEF h
  <2>3. ASSUME NEW u \in h.tasks \ h.dirty PROVE Same(gr, h, u)
    <3>1. Deps(h, u) = Deps(gr, u) /\ \A d : Satisfied(h, d) <=> Satisfied(gr, d)
      BY <2>1 DEF Deps, Satisfied
    <3> QED
      BY <2>1, <3>1, Sight
  <2> QED
    BY <2>1, <2>2, <2>3, SelfFollows DEF Follows, FewerEdges, Seen
<1> QED
  BY <1>2, <1>3

-----------------------------------------------------------------------------
(* Runs *)

\* h is a sound graph of the same tasks, and what it changed is queued.
Path(gr, h) == Keeps(gr, h) /\ Follows(gr, h)

\* Paths lead on.
LEMMA PathTwice ==
  ASSUME NEW gr, NEW k, NEW h, Path(gr, k), Path(k, h)
  PROVE  Path(gr, h)
BY FollowsTwice DEF Path, Keeps

\* A flag, a timer or a command is a path.
LEMMA SightPath ==
  ASSUME NEW gr, Sound(gr), NEW h \in Graph, SameSight(gr, h), h.dirty = gr.dirty,
         h.savedPin \subseteq gr.savedPin
  PROVE  Path(gr, h)
<1>1. Sound(h)
  <2>1. SameCore(gr, h) /\ h.dirty \subseteq gr.tasks /\ h.savedPin \subseteq gr.tasks
    BY DEF SameSight, SameCore, Sound, Closed, Clean
  <2> QED
    BY <2>1, SameCoreSound
<1>2. Follows(gr, h)
  BY SameSightFollows
<1> QED
  BY <1>1, <1>2 DEF Path, Keeps, SameSight

\* Doing nothing is one.
LEMMA SelfPath ==
  ASSUME NEW gr, Sound(gr)
  PROVE  Path(gr, gr)
BY SelfFollows DEF Path, Keeps

\* Queueing, notifying, sending a command and setting a timer are paths, and take
\* nothing off the queue.
LEMMA QuietPath ==
  ASSUME NEW gr, Sound(gr), NEW S, NEW t \in Task
  PROVE  /\ Path(gr, Enqueue(gr, S)) /\ gr.dirty \subseteq Enqueue(gr, S).dirty
         /\ Path(gr, Notify(gr)) /\ Notify(gr).dirty = gr.dirty
         /\ Path(gr, SendCmd(gr, t)) /\ SendCmd(gr, t).dirty = gr.dirty
         /\ Path(gr, Schedule(gr, t)) /\ Schedule(gr, t).dirty = gr.dirty
<1>1. gr \in Graph
  BY DEF Sound
<1>2. /\ gr.dirty \subseteq Enqueue(gr, S).dirty /\ Notify(gr).dirty = gr.dirty
      /\ SendCmd(gr, t).dirty = gr.dirty /\ Schedule(gr, t).dirty = gr.dirty
  BY <1>1 DEF Graph, Enqueue, Notify, SendCmd, Schedule
<1>3. /\ Keeps(gr, Enqueue(gr, S)) /\ Keeps(gr, Notify(gr)) /\ Keeps(gr, SendCmd(gr, t))
      /\ Keeps(gr, Schedule(gr, t))
  BY EnqueueSound, NotifySound, SendCmdSound, ScheduleSound DEF Keeps, SameCore
<1> QED
  BY <1>1, <1>2, <1>3, QuietFollows DEF Path

\* set_state is a path, and queues the task.
LEMMA SetStatePath ==
  ASSUME NEW gr, Sound(gr), NEW t \in gr.tasks, NEW s \in TaskState,
         NEW info \in ExitInfo \cup {NoExit}, gr.state[t] # s
  PROVE  Path(gr, SetState(gr, t, s, info)) /\ t \in SetState(gr, t, s, info).dirty
<1>1. Keeps(gr, SetState(gr, t, s, info))
  BY SetStateAll
<1>2. /\ Seen(gr, SetState(gr, t, s, info))
      /\ SetState(gr, t, s, info).edges = gr.edges
      /\ t \in SetState(gr, t, s, info).dirty
  BY SetStateSeen
<1> QED
  BY <1>1, <1>2 DEF Path, Follows, FewerEdges

\* Another kind makes no difference to an idle task: it satisfies nobody either way.
LEMMA RetypePath ==
  ASSUME NEW gr, Sound(gr), NEW h \in Graph, NEW t \in gr.tasks, gr.state[t] = "Idle",
         h.tasks = gr.tasks, h.edges = gr.edges, h.state = gr.state,
         h.vetoed = gr.vetoed, h.wanted = gr.wanted, h.supported = gr.supported,
         h.wantedParents = gr.wantedParents, h.activeDependents = gr.activeDependents,
         h.quitting = gr.quitting, h.dirty = gr.dirty, h.savedPin = gr.savedPin,
         \A u \in Task \ {t} : h.kind[u] = gr.kind[u]
  PROVE  Path(gr, h)
<1>1. Keeps(gr, h)
  BY FlagsKept DEF SameCore
<1>2. ASSUME NEW u \in h.tasks \ h.dirty PROVE Same(gr, h, u)
  <2>1. Deps(h, u) = Deps(gr, u)
    BY DEF Deps
  <2>2. ASSUME NEW d \in Deps(gr, u) PROVE Satisfied(h, d) <=> Satisfied(gr, d)
    BY DEF Satisfied, is_satisfied, Deps
  <2> QED
    BY <2>1, <2>2, Sight
<1> QED
  BY <1>1, <1>2 DEF Path, Follows, FewerEdges, Seen

\* start_task is a path, and queues the task.
LEMMA StartTaskPath ==
  ASSUME NEW gr, Sound(gr), NEW t \in gr.tasks, gr.state[t] = "Idle"
  PROVE  Path(gr, StartTask(gr, t)) /\ t \in StartTask(gr, t).dirty
<1> DEFINE next == gr.next[t]
           adopted == IF next = NoNext THEN gr ELSE
                      [gr EXCEPT !.kind[t] = next.kind, !.ready[t] = next.ready,
                                 !.next[t] = NoNext]
           changed == IF adopted.kind[t] # gr.kind[t] THEN Notify(adopted) ELSE adopted
           up == SetState(changed, t, "Starting", NoExit)
<1>1. gr \in Graph /\ t \in Task /\ "Starting" \in TaskState
  BY DEF Sound, Graph, TaskState, Up
<1>2. Path(gr, adopted) /\ adopted.state = gr.state /\ adopted.tasks = gr.tasks
  <2>1. CASE next = NoNext
    BY <2>1, SelfPath
  <2>2. CASE next # NoNext
    <3> DEFINE h == [gr EXCEPT !.kind[t] = next.kind, !.ready[t] = next.ready,
                               !.next[t] = NoNext]
    <3>1. gr.next[t] \in NextRun
      BY <1>1, <2>2 DEF Graph
    <3>2. next.kind \in TaskKind /\ next.ready \in ReadyMode
      BY <3>1 DEF NextRun
    <3>3. h \in Graph
      BY <1>1, <3>2 DEF Graph
    <3>4. /\ h.tasks = gr.tasks /\ h.edges = gr.edges /\ h.state = gr.state
          /\ h.vetoed = gr.vetoed /\ h.wanted = gr.wanted /\ h.supported = gr.supported
          /\ h.wantedParents = gr.wantedParents /\ h.activeDependents = gr.activeDependents
          /\ h.quitting = gr.quitting /\ h.dirty = gr.dirty /\ h.savedPin = gr.savedPin
          /\ \A u \in Task \ {t} : h.kind[u] = gr.kind[u]
      BY <1>1 DEF Graph
    <3> HIDE DEF h
    <3>5. Path(gr, h)
      BY <3>3, <3>4, RetypePath
    <3> QED
      BY <2>2, <3>4, <3>5 DEF h
  <2> QED
    BY <2>1, <2>2
<1> HIDE DEF adopted
<1>3. Path(gr, changed) /\ changed.state[t] = "Idle" /\ t \in changed.tasks
  <2>1. Path(adopted, Notify(adopted)) /\ SameCore(adopted, Notify(adopted))
    BY <1>1, <1>2, QuietPath, NotifySound DEF Path, Keeps
  <2>2. Path(gr, Notify(adopted))
    BY <1>2, <2>1, PathTwice
  <2> QED
    BY <1>2, <2>1, <2>2 DEF SameCore
<1> HIDE DEF changed
<1>4. Path(changed, up) /\ t \in up.dirty
  BY <1>1, <1>3, SetStatePath DEF Path, Keeps
<1> HIDE DEF up
<1>5. Path(up, SendCmd(up, t)) /\ SendCmd(up, t).dirty = up.dirty
  BY <1>1, <1>4, QuietPath DEF Path, Keeps
<1>6. Path(gr, SendCmd(up, t))
  BY <1>3, <1>4, <1>5, PathTwice
<1> QED
  BY <1>4, <1>5, <1>6 DEF StartTask, up, changed, adopted

\* stop_task is a path, and queues the task.
LEMMA StopTaskPath ==
  ASSUME NEW gr, Sound(gr), NEW t \in gr.tasks, gr.state[t] \in Up, NEW failed \in BOOLEAN
  PROVE  Path(gr, StopTask(gr, t, failed)) /\ t \in StopTask(gr, t, failed).dirty
<1> DEFINE stopping == SetState(gr, t, "Stopping", NoExit)
           flag == IF failed THEN stopping.startFailed \cup {t}
                   ELSE stopping.startFailed \ {t}
           k == [stopping EXCEPT !.startFailed = flag]
           timed == Schedule(k, t)
<1>1. t \in Task /\ "Stopping" \in TaskState /\ gr.state[t] # "Stopping"
  BY DEF Sound, Graph, TaskState, Up
<1>2. Path(gr, stopping) /\ t \in stopping.dirty
  BY <1>1, SetStatePath
<1> HIDE DEF stopping
<1>3. stopping \in Graph /\ Sound(stopping)
  BY <1>2 DEF Path, Keeps, Sound
<1>4. flag \in SUBSET Task
  BY <1>1, <1>3 DEF Graph
<1> HIDE DEF flag
<1>5. Path(stopping, k) /\ k.dirty = stopping.dirty
  <2>1. k \in Graph /\ SameSight(stopping, k) /\ k.dirty = stopping.dirty
        /\ k.savedPin = stopping.savedPin
    BY <1>3, <1>4 DEF Graph, SameSight
  <2> QED
    BY <1>3, <2>1, SightPath
<1> HIDE DEF k
<1>6. Path(k, timed) /\ timed.dirty = k.dirty
  BY <1>1, <1>5, QuietPath DEF Path, Keeps
<1> HIDE DEF timed
<1>7. Path(timed, SendCmd(timed, t)) /\ SendCmd(timed, t).dirty = timed.dirty
  BY <1>1, <1>6, QuietPath DEF Path, Keeps
<1>8. Path(gr, SendCmd(timed, t)) /\ t \in SendCmd(timed, t).dirty
  BY <1>2, <1>5, <1>6, <1>7, PathTwice
<1> QED
  BY <1>8 DEF StopTask, timed, k, flag, stopping

\* hard_kill is a path.
LEMMA HardKillPath ==
  ASSUME NEW gr, Sound(gr), NEW t \in gr.tasks
  PROVE  Path(gr, HardKill(gr, t))
<1> DEFINE k == [gr EXCEPT !.killed = @ \cup {t}]
           sent == SendCmd(k, t)
<1>1. t \in Task /\ gr \in Graph
  BY DEF Sound, Graph
<1>2. k \in Graph /\ SameSight(gr, k) /\ k.dirty = gr.dirty /\ k.savedPin = gr.savedPin
  BY <1>1 DEF Graph, SameSight
<1>3. Path(gr, k)
  BY <1>2, SightPath
<1> HIDE DEF k
<1>4. Path(k, sent)
  BY <1>1, <1>3, QuietPath DEF Path, Keeps
<1> HIDE DEF sent
<1>5. Path(sent, Schedule(sent, t))
  BY <1>1, <1>4, QuietPath DEF Path, Keeps
<1> QED
  BY <1>3, <1>4, <1>5, PathTwice DEF HardKill, sent, k

\* to_idle, land_exit and land_stop are paths.
LEMMA LandPath ==
  ASSUME NEW gr, Sound(gr), NEW t \in gr.tasks, NEW info \in ExitInfo
  PROVE  /\ gr.state[t] # "Idle" => Path(gr, ToIdle(gr, t)) /\ t \in ToIdle(gr, t).dirty
         /\ gr.state[t] \notin Ended => Path(gr, LandExit(gr, t, info))
         /\ gr.state[t] = "Stopping" => Path(gr, LandStop(gr, t, info))
<1>1. t \in Task /\ "Idle" \in TaskState /\ "ready_timeout" \in ExitInfo
  BY DEF Sound, Graph, TaskState, ExitInfo
<1>2. gr.state[t] # "Idle" => Path(gr, ToIdle(gr, t)) /\ t \in ToIdle(gr, t).dirty
  BY <1>1, SetStatePath DEF ToIdle
<1>3. ASSUME gr.state[t] \notin Ended, NEW x \in ExitInfo PROVE Path(gr, LandExit(gr, t, x))
  <2> DEFINE s == exit_state(gr.kind[t], gr.restart[t], x)
             landed == SetState(gr, t, s, x)
  <2>1. s \in Ended /\ s \in TaskState
    BY DEF exit_state, Ended, TaskState
  <2> HIDE DEF s
  <2>2. Path(gr, landed)
    BY <1>3, <2>1, SetStatePath
  <2> HIDE DEF landed
  <2>3. Path(landed, Schedule(landed, t))
    BY <1>1, <2>2, QuietPath DEF Path, Keeps
  <2>4. Path(gr, Schedule(landed, t))
    BY <2>2, <2>3, PathTwice
  <2> QED
    BY <2>2, <2>4 DEF LandExit, landed, s
<1>4. gr.state[t] = "Stopping" => gr.state[t] # "Idle" /\ gr.state[t] \notin Ended
  BY DEF Ended
<1> QED
  BY <1>1, <1>2, <1>3, <1>4 DEF LandStop

\* on_task_started, on_task_ready and on_task_stopped are paths.
LEMMA ReportsPath ==
  ASSUME NEW gr, Sound(gr), NEW t \in Task, NEW info \in ExitInfo
  PROVE  /\ Path(gr, OnTaskStarted(gr, t))
         /\ Path(gr, OnTaskReady(gr, t))
         /\ Path(gr, OnTaskStopped(gr, t, info))
<1>1. Path(gr, OnTaskStarted(gr, t))
  <2> DEFINE s == started_state(gr.kind[t], gr.ready[t])
             up == SetState(gr, t, s, NoExit)
  <2>1. CASE t \in gr.tasks /\ gr.state[t] = "Starting"
    <3>1. s \in TaskState /\ gr.state[t] # s
      BY <2>1 DEF started_state, TaskState, Up
    <3> HIDE DEF s
    <3>2. Path(gr, up)
      BY <2>1, <3>1, SetStatePath
    <3> HIDE DEF up
    <3>3. Path(up, Schedule(up, t))
      BY <3>2, QuietPath DEF Path, Keeps
    <3>4. Path(gr, Schedule(up, t))
      BY <3>2, <3>3, PathTwice
    <3>5. OnTaskStarted(gr, t) \in {up, Schedule(up, t)}
      BY <2>1 DEF OnTaskStarted, up, s
    <3> QED
      BY <3>2, <3>4, <3>5
  <2>2. CASE ~(t \in gr.tasks /\ gr.state[t] = "Starting")
    BY <2>2, SelfPath DEF OnTaskStarted
  <2> QED
    BY <2>1, <2>2
<1>2. Path(gr, OnTaskReady(gr, t))
  <2>1. "Ready" \in TaskState
    BY DEF TaskState, Up
  <2>2. t \in gr.tasks /\ gr.state[t] = "Running" => Path(gr, SetState(gr, t, "Ready", NoExit))
    BY <2>1, SetStatePath
  <2> QED
    BY <2>2, SelfPath DEF OnTaskReady
<1>3. Path(gr, OnTaskStopped(gr, t, info))
  <2>1. gr.state[t] \in Up => gr.state[t] \notin Ended
    BY DEF Up, Ended
  <2> QED
    BY <2>1, LandPath, SelfPath DEF OnTaskStopped
<1> QED
  BY <1>1, <1>2, <1>3

\* on_state_timeout is a path, in every state.
LEMMA OnStateTimeoutPath ==
  ASSUME NEW gr, Sound(gr), NEW t \in gr.tasks
  PROVE  Path(gr, OnStateTimeout(gr, t))
<1> DEFINE out == [gr EXCEPT !.timed = @ \ {t}]
           gone == LandStop(out, t, "err")
           timedOut == [gone EXCEPT !.stopTimedOut = @ \cup {t}]
<1>1. gr \in Graph /\ t \in Task /\ "err" \in ExitInfo
  BY DEF Sound, Graph, ExitInfo
<1>2. /\ out \in Graph /\ SameSight(gr, out)
      /\ out.dirty = gr.dirty /\ out.savedPin = gr.savedPin
  BY <1>1 DEF Graph, SameSight
<1>3. Path(gr, out) /\ out.state = gr.state /\ t \in out.tasks /\ Sound(out)
  BY <1>2, SightPath DEF SameSight, Path, Keeps
<1>4. OnStateTimeout(gr, t) \in {out}
        \cup (IF gr.state[t] = "Backoff" THEN {ToIdle(out, t)} ELSE {})
        \cup (IF gr.state[t] = "Stopping" THEN {timedOut, gone, HardKill(out, t)} ELSE {})
        \cup (IF gr.state[t] = "Running" THEN {StopTask(out, t, TRUE)} ELSE {})
  BY DEF OnStateTimeout, timedOut, gone, out
<1> HIDE DEF out
<1>5. gr.state[t] = "Backoff" => Path(gr, ToIdle(out, t))
  BY <1>1, <1>3, LandPath, PathTwice
<1>6. gr.state[t] = "Stopping" => Path(gr, gone) /\ Path(gr, timedOut)
  <2> SUFFICES ASSUME gr.state[t] = "Stopping" PROVE Path(gr, gone) /\ Path(gr, timedOut)
    OBVIOUS
  <2>1. Path(out, gone)
    BY <1>1, <1>3, LandPath
  <2> HIDE DEF gone
  <2>2. gone \in Graph /\ Sound(gone)
    BY <2>1 DEF Path, Keeps, Sound
  <2>3. /\ timedOut \in Graph /\ SameSight(gone, timedOut)
        /\ timedOut.dirty = gone.dirty /\ timedOut.savedPin = gone.savedPin
    <3>1. gone.stopTimedOut \cup {t} \in SUBSET Task
      BY <1>1, <2>2 DEF Graph
    <3>2. timedOut \in Graph
      BY <2>2, <3>1, ZenonT(60) DEF Graph
    <3> QED
      BY <2>2, <3>2 DEF Graph, SameSight
  <2>4. Path(gone, timedOut)
    BY <2>2, <2>3, SightPath
  <2> QED
    BY <1>3, <2>1, <2>4, PathTwice
<1>7. Path(gr, HardKill(out, t))
  BY <1>3, HardKillPath, PathTwice
<1>8. gr.state[t] = "Running" => Path(gr, StopTask(out, t, TRUE))
  <2>1. gr.state[t] = "Running" => out.state[t] \in Up
    BY <1>3 DEF Up
  <2> QED
    BY <1>3, <2>1, StopTaskPath, PathTwice
<1> QED
  BY <1>3, <1>4, <1>5, <1>6, <1>7, <1>8

-----------------------------------------------------------------------------
(* Verbs *)

\* set_pin and set_vetoed are paths.
LEMMA PinPath ==
  ASSUME NEW gr, Sound(gr), NEW t \in gr.tasks, NEW pinned \in BOOLEAN
  PROVE  Path(gr, SetPin(gr, t, pinned)) /\ Path(gr, SetVetoed(gr, t))
BY PinFollows, SetPinKept, SetVetoedKept DEF Path

\* A demand is a path: what it revives, who loses its veto and who was satisfied with
\* a task it revives are queued.
LEMMA DemandPath ==
  ASSUME NEW gr, Sound(gr), NEW t \in gr.tasks, NEW rerunDone \in BOOLEAN
  PROVE  Path(gr, Demand(gr, t, rerunDone))
<1> DEFINE C == Closure(gr, t) \cap gr.tasks
           revive == {u \in C : \/ gr.state[u] \in {"Backoff", "Exited"}
                                \/ gr.state[u] = "Done" /\ rerunDone /\ u = t}
           parents == UNION {Dependents(gr, u) : u \in {r \in revive : Satisfied(gr, r)}}
           st == [u \in Task |-> IF u \in revive THEN "Idle" ELSE gr.state[u]]
           ex == [u \in Task |-> IF u \in revive THEN NoExit ELSE gr.exit[u]]
           dirt == gr.dirty \cup (C \cap gr.vetoed) \cup revive \cup parents
           idle == [gr EXCEPT
                      !.state = st, !.exit = ex,
                      !.killed = @ \ revive, !.stopTimedOut = @ \ revive,
                      !.timed = @ \ revive, !.startFailed = @ \ C, !.vetoed = @ \ C,
                      !.dirty = dirt]
<1>1. gr \in Graph /\ gr.tasks \subseteq Task
  BY DEF Sound, Graph
<1>2. Demand(gr, t, rerunDone) = IF revive = {} THEN idle ELSE Notify(idle)
  BY DEF Demand
<1>3. revive \subseteq C
  OBVIOUS
<1>4. ASSUME NEW r \in revive, NEW u \in Task, r \in Deps(gr, u), Satisfied(gr, r)
      PROVE  u \in parents
  BY <1>4 DEF Deps, Dependents
<1>5. st \in [Task -> TaskState] /\ ex \in [Task -> ExitInfo \cup {NoExit}]
  BY <1>1 DEF Graph, TaskState
<1>6. dirt \in SUBSET Task
  <2>1. parents \subseteq gr.tasks
    BY Ends
  <2> QED
    BY <1>1, <2>1 DEF Sound, Closed
<1> HIDE DEF C, revive, parents
<1>7. \A u \in Task : st[u] = IF u \in revive THEN "Idle" ELSE gr.state[u]
  OBVIOUS
<1> HIDE DEF st, ex
<1>8. /\ gr.dirty \subseteq dirt /\ C \cap gr.vetoed \subseteq dirt /\ revive \subseteq dirt
      /\ parents \subseteq dirt
  OBVIOUS
<1> HIDE DEF dirt
<1>9. /\ idle.tasks = gr.tasks /\ idle.edges = gr.edges /\ idle.wanted = gr.wanted
      /\ idle.wantedParents = gr.wantedParents /\ idle.supported = gr.supported
      /\ idle.activeDependents = gr.activeDependents /\ idle.kind = gr.kind
      /\ idle.quitting = gr.quitting /\ idle.vetoed = gr.vetoed \ C
      /\ idle.state = st /\ idle.dirty = dirt
  BY <1>1 DEF Graph
<1>10. idle \in Graph
  BY <1>1, <1>5, <1>6 DEF Graph
<1> HIDE DEF idle
<1>11. ASSUME NEW u \in idle.tasks \ idle.dirty PROVE Same(gr, idle, u)
  <2>1. u \in gr.tasks \ gr.dirty /\ u \in Task /\ u \notin revive /\ u \notin parents
        /\ ~(u \in C /\ u \in gr.vetoed)
    BY <1>1, <1>8, <1>9
  <2>2. Deps(idle, u) = Deps(gr, u)
    BY <1>9 DEF Deps
  <2>3. idle.state[u] = gr.state[u] /\ (u \in idle.vetoed <=> u \in gr.vetoed)
    BY <1>7, <1>9, <2>1
  <2>4. ASSUME NEW d \in Deps(gr, u) PROVE Satisfied(idle, d) <=> Satisfied(gr, d)
    <3>0. d \in Task
      BY DEF Deps
    <3>1. CASE d \in revive
      <4>1. ~Satisfied(gr, d)
        BY <1>4, <2>1, <3>1
      <4>2. ~Satisfied(idle, d)
        BY <1>7, <1>9, <3>0, <3>1 DEF Satisfied, is_satisfied
      <4> QED
        BY <4>1, <4>2
    <3>2. CASE d \notin revive
      BY <1>7, <1>9, <3>0, <3>2 DEF Satisfied
    <3> QED
      BY <3>1, <3>2
  <2> QED
    BY <1>9, <2>1, <2>2, <2>3, <2>4, Sight
<1>12. Follows(gr, idle)
  BY <1>9, <1>11 DEF Follows, Seen, FewerEdges
<1>13. Follows(gr, Notify(idle))
  BY <1>10, <1>12, QuietFollows, FollowsTwice
<1> QED
  BY <1>2, <1>12, <1>13, DemandKept DEF Path

\* cmd_start, cmd_up, cmd_stop, cmd_restart, cmd_kill and cmd_veto are paths.
LEMMA VerbsPath ==
  ASSUME NEW gr, Sound(gr), NEW t \in gr.tasks
  PROVE  /\ Path(gr, CmdStart(gr, t)) /\ Path(gr, CmdUp(gr, t))
         /\ Path(gr, CmdStop(gr, t)) /\ Path(gr, CmdRestart(gr, t))
         /\ Path(gr, CmdKill(gr, t)) /\ Path(gr, CmdVeto(gr, t))
<1>1. \A pinned \in BOOLEAN : Path(gr, SetPin(gr, t, pinned))
  BY PinPath
<1>2. ASSUME NEW k, Path(gr, k)
      PROVE  /\ Sound(k) /\ t \in k.tasks
             /\ \A rerunDone \in BOOLEAN : Path(gr, Demand(k, t, rerunDone))
             /\ Path(gr, StopIfActive(k, t))
             /\ Path(gr, HardKill(k, t))
             /\ Path(gr, SetVetoed(k, t))
  <2>1. Sound(k) /\ t \in k.tasks
    BY <1>2 DEF Path, Keeps
  <2>2. \A rerunDone \in BOOLEAN : Path(k, Demand(k, t, rerunDone))
    BY <2>1, DemandPath
  <2>3. Path(k, StopIfActive(k, t))
    BY <2>1, StopTaskPath, SelfPath DEF StopIfActive
  <2>4. Path(k, HardKill(k, t)) /\ Path(k, SetVetoed(k, t))
    BY <2>1, HardKillPath, PinPath
  <2> QED
    BY <1>2, <2>1, <2>2, <2>3, <2>4, PathTwice
<1>3. Path(gr, CmdStart(gr, t)) /\ Path(gr, CmdUp(gr, t))
  BY <1>1, <1>2 DEF CmdStart, CmdUp
<1>4. Path(gr, CmdStop(gr, t)) /\ Path(gr, CmdRestart(gr, t))
  BY <1>1, <1>2, <1>3 DEF CmdStop, CmdRestart
<1>5. Path(gr, CmdVeto(gr, t))
  BY <1>1, <1>2 DEF CmdVeto
<1>6. Path(gr, CmdKill(gr, t))
  <2> DEFINE k == SetPin(gr, t, FALSE)
             h == SetState(k, t, "Stopping", NoExit)
  <2>1. Path(gr, k) /\ Sound(k) /\ t \in k.tasks /\ k.state = gr.state
    BY <1>1, <1>2, SetPinKept
  <2> HIDE DEF k
  <2>2. ASSUME gr.state[t] \in Up PROVE Path(gr, HardKill(h, t))
    <3>1. "Stopping" \in TaskState /\ k.state[t] # "Stopping"
      BY <2>1, <2>2 DEF TaskState, Up
    <3>2. Path(k, h)
      BY <2>1, <3>1, SetStatePath
    <3> HIDE DEF h
    <3> QED
      BY <1>2, <2>1, <3>2, PathTwice
  <2>3. Path(gr, HardKill(k, t))
    BY <1>2, <2>1
  <2>4. CmdKill(gr, t) \in {HardKill(k, t), k}
          \cup (IF gr.state[t] \in Up THEN {HardKill(h, t)} ELSE {})
    BY DEF CmdKill, k, h
  <2> QED
    BY <2>1, <2>2, <2>3, <2>4
<1> QED
  BY <1>3, <1>4, <1>5, <1>6

\* A removal is seen by the task's deps and dependents; it joins no two tasks.
LEMMA RemoveTaskFollows ==
  ASSUME NEW gr, Sound(gr), NEW t \in gr.tasks
  PROVE  Follows(gr, RemoveTask(gr, t))
<1> DEFINE f == Forget(gr, t)
           ed == {e \in f.edges : e[1] # t /\ e[2] # t}
           wp == [IF t \in gr.wanted THEN Bump(f.wantedParents, Deps(gr, t), -1)
                  ELSE f.wantedParents EXCEPT ![t] = 0]
           ad == [IF Active(gr, t) THEN Bump(f.activeDependents, Deps(gr, t), -1)
                  ELSE f.activeDependents EXCEPT ![t] = 0]
           dirt == (f.dirty \cup Deps(gr, t) \cup Dependents(gr, t)) \ {t}
           k == [f EXCEPT !.tasks = @ \ {t}, !.edges = ed, !.state[t] = "Idle",
                          !.wanted = @ \ {t}, !.wantedParents = wp,
                          !.activeDependents = ad, !.dirty = dirt]
           h == RemoveTask(gr, t)
<1>1. /\ gr \in Graph /\ t \in Task /\ gr.tasks \subseteq Task
      /\ gr.state \in [Task -> TaskState] /\ gr.kind \in [Task -> TaskKind]
      /\ gr.wantedParents \in [Task -> Int] /\ gr.activeDependents \in [Task -> Int]
  BY DEF Sound, Graph
<1>2. h = [k EXCEPT !.effects = @ \cup (Listener \cap k.tasks \cap k.dead)]
  BY DEF RemoveTask, Notify
<1>3. f \in Graph
  BY ForgetFields
<1>4. /\ f.tasks = gr.tasks /\ f.state = gr.state /\ f.edges = gr.edges
      /\ f.kind = [gr.kind EXCEPT ![t] = "Service"] /\ f.vetoed = gr.vetoed \ {t}
      /\ f.supported = gr.supported \ {t} /\ f.wanted = gr.wanted /\ f.dirty = gr.dirty
      /\ f.wantedParents = gr.wantedParents /\ f.activeDependents = gr.activeDependents
      /\ f.quitting = gr.quitting
  BY <1>1 DEF Graph, Forget
<1>5. \A u \in Task \ (Deps(gr, t) \cup {t}) :
        wp[u] = gr.wantedParents[u] /\ ad[u] = gr.activeDependents[u]
  BY <1>1, <1>4 DEF Bump
<1>6. ed \subseteq gr.edges /\ \A e \in gr.edges : e[1] # t /\ e[2] # t => e \in ed
  BY <1>4
<1>7. dirt = (gr.dirty \cup Deps(gr, t) \cup Dependents(gr, t)) \ {t}
  BY <1>4
<1> HIDE DEF f, ed, wp, ad, dirt
<1>8. /\ h.tasks = gr.tasks \ {t} /\ h.state = [gr.state EXCEPT ![t] = "Idle"]
      /\ h.edges = ed /\ h.kind = f.kind /\ h.vetoed = f.vetoed
      /\ h.supported = f.supported /\ h.wanted = gr.wanted \ {t} /\ h.dirty = dirt
      /\ h.wantedParents = wp /\ h.activeDependents = ad /\ h.quitting = f.quitting
  BY <1>2, <1>3, <1>4 DEF Graph
<1> HIDE DEF h
<1>9. ASSUME NEW u \in h.tasks \ h.dirty PROVE Same(gr, h, u)
  <2>1. /\ u \in gr.tasks \ gr.dirty /\ u # t /\ u \in Task
        /\ u \notin Deps(gr, t) /\ u \notin Dependents(gr, t)
    BY <1>1, <1>7, <1>8
  <2>2. <<u, t>> \notin gr.edges
    BY <2>1 DEF Dependents
  <2>3. ASSUME NEW d \in Task PROVE <<u, d>> \in ed <=> <<u, d>> \in gr.edges
    <3>1. <<u, d>>[1] = u /\ <<u, d>>[2] = d
      OBVIOUS
    <3> QED
      BY <1>6, <2>1, <2>2, <3>1
  <2>4. Deps(h, u) = Deps(gr, u)
    BY <1>8, <2>3 DEF Deps
  <2>5. ASSUME NEW d \in Deps(gr, u)
        PROVE  /\ d \in h.supported <=> d \in gr.supported
               /\ Satisfied(h, d) <=> Satisfied(gr, d)
    <3>1. d # t /\ d \in Task
      BY <2>2 DEF Deps
    <3>2. h.state[d] = gr.state[d] /\ h.kind[d] = gr.kind[d]
      BY <1>1, <1>4, <1>8, <3>1
    <3> QED
      BY <1>4, <1>8, <3>1, <3>2 DEF Satisfied
  <2>6. /\ h.wantedParents[u] = gr.wantedParents[u]
        /\ h.activeDependents[u] = gr.activeDependents[u]
        /\ h.state[u] = gr.state[u]
    BY <1>1, <1>5, <1>8, <2>1
  <2> QED
    BY <1>4, <1>8, <2>1, <2>4, <2>5, <2>6, Sight
<1>10. FewerEdges(gr, h)
  BY <1>6, <1>8 DEF FewerEdges
<1>11. gr.supported \subseteq gr.tasks => h.supported \subseteq h.tasks
  BY <1>4, <1>8
<1> QED
  BY <1>9, <1>10, <1>11 DEF Follows, Seen, h

\* Whatever a verb does to a task is seen, and joins no two tasks.
LEMMA ActFollows ==
  ASSUME NEW gr, Sound(gr), NEW t \in gr.tasks, NEW verb \in Verb
  PROVE  Follows(gr, Act(verb, gr, t))
<1>1. Act(verb, gr, t) \in
        {CmdUp(gr, t), CmdStart(gr, t), CmdRestart(gr, t), CmdStart(CmdKill(gr, t), t),
         CmdStop(gr, t), CmdKill(gr, t), CmdVeto(gr, t), SetPin(gr, t, FALSE),
         RemoveTask(gr, t)}
  BY DEF Act, Verb
<1>2. Path(gr, CmdStart(CmdKill(gr, t), t))
  <2>1. Path(gr, CmdKill(gr, t))
    BY VerbsPath
  <2>2. Sound(CmdKill(gr, t)) /\ t \in CmdKill(gr, t).tasks
    BY <2>1 DEF Path, Keeps
  <2>3. Path(CmdKill(gr, t), CmdStart(CmdKill(gr, t), t))
    BY <2>2, VerbsPath
  <2> QED
    BY <2>1, <2>3, PathTwice
<1>3. Path(gr, SetPin(gr, t, FALSE))
  BY PinPath
<1> QED
  BY <1>1, <1>2, <1>3, VerbsPath, RemoveTaskFollows DEF Path

-----------------------------------------------------------------------------
(* Registrations and updates *)

\* The only tasks h joins that gr does not are t and members of D.
Joins(gr, h, t, D) ==
  \A e \in h.edges : e[1] = Init0 \/ e \in gr.edges \/ \E d \in D : e = <<t, d>>

\* A registration is seen, and joins the task to its deps only.
LEMMA RegisterSeen ==
  ASSUME NEW gr, Sound(gr), NEW t \in Task \ gr.tasks, NEW def \in TaskDef
  PROVE  Seen(gr, Register(gr, t, def)) /\ Joins(gr, Register(gr, t, def), t, def.deps)
<1> DEFINE added == [gr EXCEPT
                       !.tasks = @ \cup {t},
                       !.kind[t] = def.kind, !.ready[t] = def.ready,
                       !.restart[t] = def.restart,
                       !.savedPin = IF def.savedPin THEN @ \cup {t} ELSE @]
           linked == AddEdges(added, t, def.deps)
           pinned == IF def.pinned THEN AddEdges(linked, Init0, {t}) ELSE linked
           queued == Enqueue(pinned, {t})
           h == Notify(queued)
<1>1. /\ gr \in Graph /\ def.kind \in TaskKind /\ def.ready \in ReadyMode
      /\ def.restart \in RestartMode /\ def.deps \in SUBSET Task /\ {t} \in SUBSET Task
      /\ gr.tasks \subseteq Task
  BY DEF Sound, TaskDef, Graph
<1>2. Sound(added)
  <2>1. added \in Graph
    BY <1>1 DEF Graph
  <2>2. /\ added.tasks = gr.tasks \cup {t} /\ added.edges = gr.edges
        /\ added.state = gr.state /\ added.wanted = gr.wanted
        /\ added.wantedParents = gr.wantedParents
        /\ added.activeDependents = gr.activeDependents /\ added.dirty = gr.dirty
        /\ added.savedPin \subseteq gr.tasks \cup {t}
    BY <1>1 DEF Graph, Sound, Clean
  <2> QED
    BY <2>1, <2>2, AddedSound
<1>3. /\ added.tasks = gr.tasks \cup {t} /\ added.state = gr.state
      /\ added.kind = [gr.kind EXCEPT ![t] = def.kind] /\ added.edges = gr.edges
      /\ added.wanted = gr.wanted /\ added.supported = gr.supported
      /\ added.vetoed = gr.vetoed /\ added.quitting = gr.quitting
      /\ added.wantedParents = gr.wantedParents /\ added.dirty = gr.dirty
      /\ added.activeDependents = gr.activeDependents
  BY <1>1 DEF Graph
<1> HIDE DEF added
<1>4. Seen(added, linked) /\ Joins(gr, linked, t, def.deps) /\ Sound(linked)
      /\ linked.tasks = added.tasks
  BY <1>1, <1>2, <1>3, AddEdgesSeen, AddEdgesSound DEF Joins, SameNodes
<1> HIDE DEF linked
<1>5. Seen(added, pinned) /\ Joins(gr, pinned, t, def.deps) /\ Sound(pinned)
      /\ pinned.tasks = added.tasks
  <2> DEFINE m == AddEdges(linked, Init0, {t})
  <2>0. Init0 \in Task \cup {Init0}
    OBVIOUS
  <2>1. /\ Seen(linked, m) /\ Sound(m) /\ m.tasks = linked.tasks
        /\ \A e \in m.edges : e \in linked.edges \/ \E d \in {t} \ {Init0} : e = <<Init0, d>>
    <3>1. Seen(linked, m)
      BY <1>1, <1>4, <2>0, AddEdgesSeen
    <3>2. \A e \in m.edges : e \in linked.edges \/ \E d \in {t} \ {Init0} : e = <<Init0, d>>
      BY <1>1, <1>4, <2>0, AddEdgesSeen
    <3>3. Sound(m) /\ m.tasks = linked.tasks
      BY <1>1, <1>4, <2>0, AddEdgesSound DEF SameNodes
    <3> QED
      BY <3>1, <3>2, <3>3
  <2> HIDE DEF m
  <2>2. Seen(added, m)
    BY <1>4, <2>1, SeenTwice
  <2>3. Joins(gr, m, t, def.deps)
    BY <1>4, <2>1 DEF Joins
  <2> QED
    BY <1>4, <2>1, <2>2, <2>3 DEF m
<1> HIDE DEF pinned
<1>6. Path(pinned, queued) /\ Sound(queued) /\ t \in queued.dirty
  <2>1. Path(pinned, queued)
    BY <1>1, <1>5, QuietPath
  <2>2. pinned \in Graph /\ t \in pinned.tasks
    BY <1>3, <1>5 DEF Sound
  <2>3. t \in queued.dirty
    BY <2>2 DEF Enqueue, Graph
  <2> QED
    BY <2>1, <2>3 DEF Path, Keeps
<1> HIDE DEF queued
<1>7. Path(queued, h) /\ h.dirty = queued.dirty
  BY <1>6, QuietPath
<1>8. Register(gr, t, def) = h
  BY DEF Register, h, queued, pinned, linked, added
<1> HIDE DEF h
<1>9. Seen(added, h) /\ Joins(gr, h, t, def.deps) /\ t \in h.dirty
  <2>1. Follows(pinned, h)
    BY <1>6, <1>7, PathTwice DEF Path
  <2>2. Seen(added, h)
    BY <1>5, <2>1, SeenTwice DEF Follows
  <2>3. Joins(gr, h, t, def.deps)
    BY <1>5, <2>1 DEF Follows, FewerEdges, Joins
  <2> QED
    BY <1>6, <1>7, <2>2, <2>3
<1>10. ASSUME NEW u \in h.tasks \ h.dirty PROVE Same(gr, h, u)
  <2>1. u # t /\ Same(added, h, u) /\ u \in added.tasks \ added.dirty
    BY <1>9 DEF Seen, Same
  <2>2. u \in gr.tasks \ gr.dirty /\ u \in Task
    BY <1>1, <1>3, <2>1
  <2>3. Deps(added, u) = Deps(gr, u)
    BY <1>3 DEF Deps
  <2>4. ASSUME NEW d \in Deps(gr, u) PROVE Satisfied(added, d) <=> Satisfied(gr, d)
    <3>1. d \in gr.tasks
      BY Ends
    <3>2. gr.kind \in [Task -> TaskKind]
      BY <1>1 DEF Graph
    <3>3. added.kind[d] = gr.kind[d]
      BY <1>1, <1>3, <3>1, <3>2
    <3> QED
      BY <1>3, <3>3 DEF Satisfied
  <2>5. Same(gr, added, u)
    BY <1>3, <2>2, <2>3, <2>4, Sight
  <2> QED
    BY <2>1, <2>5 DEF Same
<1>11. gr.supported \subseteq gr.tasks => h.supported \subseteq h.tasks
  BY <1>3, <1>9 DEF Seen
<1> QED
  BY <1>8, <1>9, <1>10, <1>11 DEF Seen

\* An update is seen, and joins the task to its new deps only.
LEMMA UpdateTaskSeen ==
  ASSUME NEW gr, Sound(gr), NEW t \in gr.tasks, NEW def \in TaskDef
  PROVE  /\ Seen(gr, UpdateTask(gr, t, def))
         /\ Joins(gr, UpdateTask(gr, t, def), t, def.deps)
<1> DEFINE now == [gr EXCEPT !.kind[t] = def.kind, !.ready[t] = def.ready,
                             !.next[t] = NoNext, !.restart[t] = def.restart]
           later == [gr EXCEPT !.next[t] = [kind |-> def.kind, ready |-> def.ready],
                               !.restart[t] = def.restart]
           redefined == IF gr.state[t] = "Idle" THEN now ELSE later
           unlinked == RemoveEdges(redefined, t, Deps(gr, t) \ def.deps)
           linked == AddEdges(unlinked, t, def.deps)
           told == Enqueue(Notify(linked), {t})
<1>1. /\ def.kind \in TaskKind /\ def.ready \in ReadyMode
      /\ def.restart \in RestartMode /\ def.deps \in SUBSET Task
  BY DEF TaskDef
<1>2. gr \in Graph /\ t \in Task /\ Deps(gr, t) \ def.deps \in SUBSET Task
  BY DEF Sound, Graph, Deps
<1>3. gr.state[t] = "Idle" => Path(gr, now)
  <2>1. now \in Graph
    BY <1>1, <1>2 DEF Graph
  <2>2. /\ now.tasks = gr.tasks /\ now.edges = gr.edges /\ now.state = gr.state
        /\ now.vetoed = gr.vetoed /\ now.wanted = gr.wanted /\ now.supported = gr.supported
        /\ now.wantedParents = gr.wantedParents
        /\ now.activeDependents = gr.activeDependents
        /\ now.quitting = gr.quitting /\ now.dirty = gr.dirty /\ now.savedPin = gr.savedPin
        /\ \A u \in Task \ {t} : now.kind[u] = gr.kind[u]
    BY <1>2 DEF Graph
  <2> HIDE DEF now
  <2> QED
    BY <2>1, <2>2, RetypePath
<1>4. Path(gr, later)
  <2>1. [kind |-> def.kind, ready |-> def.ready] \in NextRun
    BY <1>1 DEF NextRun
  <2>2. /\ later \in Graph /\ SameSight(gr, later)
        /\ later.dirty = gr.dirty /\ later.savedPin = gr.savedPin
    BY <1>1, <1>2, <2>1 DEF Graph, SameSight
  <2> QED
    BY <2>2, SightPath
<1> HIDE DEF now, later
<1>5. Path(gr, redefined)
  BY <1>3, <1>4
<1> HIDE DEF redefined
<1>6. Path(gr, unlinked)
  <2>1. Sound(redefined)
    BY <1>5 DEF Path, Keeps
  <2>2. Keeps(redefined, unlinked) /\ Follows(redefined, unlinked)
    BY <1>2, <2>1, RemoveEdgesSound, RemoveEdgesFollows DEF Keeps, SameNodes
  <2> QED
    BY <1>5, <2>2, PathTwice DEF Path
<1> HIDE DEF unlinked
<1>7. Seen(gr, linked) /\ Joins(gr, linked, t, def.deps) /\ Sound(linked)
      /\ linked.tasks = gr.tasks
  <2>1. Sound(unlinked) /\ unlinked.tasks = gr.tasks
    BY <1>6 DEF Path, Keeps
  <2>2. /\ Seen(unlinked, linked) /\ Sound(linked) /\ linked.tasks = unlinked.tasks
        /\ \A e \in linked.edges :
             e \in unlinked.edges \/ \E d \in def.deps \ {t} : e = <<t, d>>
    BY <1>1, <1>2, <2>1, AddEdgesSeen, AddEdgesSound DEF SameNodes
  <2>3. Seen(gr, linked)
    BY <1>6, <2>2, SeenTwice DEF Path, Follows
  <2> QED
    BY <1>6, <2>1, <2>2, <2>3 DEF Path, Follows, FewerEdges, Joins
<1> HIDE DEF linked
<1>8. Path(linked, told) /\ Sound(told) /\ told.tasks = gr.tasks
  <2>1. Path(linked, Notify(linked))
    BY <1>2, <1>7, QuietPath
  <2>2. Path(Notify(linked), told)
    BY <1>2, <2>1, QuietPath DEF Path, Keeps
  <2>3. Path(linked, told)
    BY <2>1, <2>2, PathTwice
  <2> QED
    BY <1>7, <2>3 DEF Path, Keeps
<1> HIDE DEF told
<1>9. Path(linked, CmdRestart(told, t))
  BY <1>8, VerbsPath, PathTwice
<1>10. ASSUME NEW h, Path(linked, h) PROVE Seen(gr, h) /\ Joins(gr, h, t, def.deps)
  <2>1. Seen(gr, h)
    BY <1>7, <1>10, SeenTwice DEF Path, Follows
  <2> QED
    BY <1>7, <1>10, <2>1 DEF Path, Follows, FewerEdges, Joins
<1>11. UpdateTask(gr, t, def) \in {told, CmdRestart(told, t)}
  BY DEF UpdateTask, told, linked, unlinked, redefined, now, later
<1> QED
  BY <1>8, <1>9, <1>10, <1>11

-----------------------------------------------------------------------------
(* The reconciler's steps *)

\* What moving a run leaves alone: the edges, the caches, and every other task's state.
Beside(gr, h, t) ==
  /\ h.tasks = gr.tasks /\ h.edges = gr.edges /\ h.vetoed = gr.vetoed
  /\ h.wanted = gr.wanted /\ h.supported = gr.supported /\ h.quitting = gr.quitting
  /\ \A u \in Task \ {t} : h.state[u] = gr.state[u] /\ h.kind[u] = gr.kind[u]

\* It is left alone by two moves too.
LEMMA BesideTwice ==
  ASSUME NEW gr, NEW k, NEW h, NEW t, Beside(gr, k, t), Beside(k, h, t)
  PROVE  Beside(gr, h, t)
BY DEF Beside

\* Notifying, sending a command, setting a timer and set_state leave it alone.
LEMMA QuietBeside ==
  ASSUME NEW gr, Sound(gr), NEW t \in gr.tasks
  PROVE  /\ Beside(gr, Notify(gr), t) /\ Beside(gr, SendCmd(gr, t), t)
         /\ Beside(gr, Schedule(gr, t), t)
         /\ \A s \in TaskState : gr.state[t] # s => Beside(gr, SetState(gr, t, s, NoExit), t)
<1>1. gr \in Graph /\ t \in Task
  BY DEF Sound, Graph
<1>2. SameSight(gr, Notify(gr)) /\ SameSight(gr, SendCmd(gr, t)) /\ SameSight(gr, Schedule(gr, t))
  BY <1>1, QuietSeen
<1>3. ASSUME NEW s \in TaskState, gr.state[t] # s
      PROVE  Beside(gr, SetState(gr, t, s, NoExit), t)
  <2> DEFINE h == SetState(gr, t, s, NoExit)
  <2>1. h.tasks = gr.tasks /\ MovedTo(gr, h, t, s, NoExit)
    BY <1>3, SetStateAll DEF Keeps
  <2> HIDE DEF h
  <2>2. gr.state \in [Task -> TaskState]
    BY <1>1 DEF Graph
  <2>3. h.state = [gr.state EXCEPT ![t] = s] /\ h.kind = gr.kind
    BY <2>1 DEF MovedTo
  <2>4. \A u \in Task \ {t} : h.state[u] = gr.state[u] /\ h.kind[u] = gr.kind[u]
    BY <2>2, <2>3
  <2> QED
    BY <2>1, <2>4 DEF MovedTo, Beside, h
<1> QED
  BY <1>2, <1>3 DEF SameSight, Beside

\* drive_task does nothing, or moves the run of a task that it queues: one that is idle
\* or not supported.
LEMMA DriveTaskPath ==
  ASSUME NEW gr, Sound(gr), NEW t \in gr.tasks
  PROVE  LET h == DriveTask(gr, t)
         IN /\ Path(gr, h) /\ Beside(gr, h, t)
            /\ h = gr \/ t \in h.dirty
            /\ t \in gr.supported /\ gr.state[t] # "Idle" => h = gr
            /\ h = gr => Driven(gr, t)
<1> DEFINE h == DriveTask(gr, t)
<1>1. gr \in Graph /\ t \in Task /\ "Starting" \in TaskState /\ "Stopping" \in TaskState
      /\ "Idle" \in TaskState /\ gr.state \in [Task -> TaskState]
  BY DEF Sound, Graph, TaskState, Up
<1>2. CASE t \in gr.supported /\ gr.state[t] = "Idle"
  <2>1. h = StartTask(gr, t)
    BY <1>2 DEF DriveTask
  <2>2. Path(gr, h) /\ t \in h.dirty
    BY <1>2, <2>1, StartTaskPath
  <2>3. h.state[t] = "Starting"
    <3>1. h.state = [gr.state EXCEPT ![t] = "Starting"]
      BY <2>1, StartTaskKept
    <3> QED
      BY <1>1, <3>1
  <2>4. Beside(gr, h, t)
    <3> DEFINE next == gr.next[t]
               adopted == IF next = NoNext THEN gr ELSE
                          [gr EXCEPT !.kind[t] = next.kind, !.ready[t] = next.ready,
                                     !.next[t] = NoNext]
               changed == IF adopted.kind[t] # gr.kind[t] THEN Notify(adopted) ELSE adopted
               up == SetState(changed, t, "Starting", NoExit)
    <3>1. /\ Sound(adopted) /\ Beside(gr, adopted, t) /\ adopted.state = gr.state
      <4>1. CASE next = NoNext
        BY <4>1 DEF Beside
      <4>2. CASE next # NoNext
        <5> DEFINE k == [gr EXCEPT !.kind[t] = next.kind, !.ready[t] = next.ready,
                                   !.next[t] = NoNext]
        <5>1. gr.next[t] \in NextRun
          BY <1>1, <4>2 DEF Graph
        <5>2. next.kind \in TaskKind /\ next.ready \in ReadyMode
          BY <5>1 DEF NextRun
        <5>3. k \in Graph
          BY <1>1, <5>2 DEF Graph
        <5>4. /\ SameCore(gr, k) /\ k.dirty = gr.dirty /\ k.savedPin = gr.savedPin
          BY <1>1 DEF Graph, SameCore
        <5>5. Beside(gr, k, t) /\ k.state = gr.state
          BY <1>1 DEF Graph, Beside
        <5> QED
          BY <4>2, <5>3, <5>4, <5>5, FlagsKept DEF Keeps
      <4> QED
        BY <4>1, <4>2
    <3> HIDE DEF adopted
    <3>2. /\ Sound(changed) /\ Beside(gr, changed, t) /\ changed.state = gr.state
      <4>1. t \in adopted.tasks
        BY <3>1 DEF Beside
      <4>2. Beside(adopted, Notify(adopted), t)
        BY <3>1, <4>1, QuietBeside
      <4>3. Sound(Notify(adopted)) /\ Notify(adopted).state = adopted.state
        BY <3>1, NotifySound DEF SameCore
      <4> QED
        BY <3>1, <4>2, <4>3, BesideTwice
    <3> HIDE DEF changed
    <3>3. t \in changed.tasks /\ changed.state[t] # "Starting"
      BY <1>2, <3>2 DEF Beside
    <3>4. Beside(changed, up, t) /\ Sound(up) /\ t \in up.tasks
      <4>1. Beside(changed, up, t)
        BY <1>1, <3>2, <3>3, QuietBeside
      <4>2. Keeps(changed, up)
        BY <1>1, <3>2, <3>3, SetStateSound
      <4> QED
        BY <3>3, <4>1, <4>2 DEF Keeps
    <3> HIDE DEF up
    <3>5. Beside(up, SendCmd(up, t), t)
      BY <3>4, QuietBeside
    <3>6. h = SendCmd(up, t)
      BY <2>1 DEF StartTask, up, changed, adopted
    <3> QED
      BY <3>2, <3>4, <3>5, <3>6, BesideTwice
  <2>5. h # gr
    BY <1>2, <2>3
  <2> QED
    BY <1>2, <2>2, <2>4, <2>5
<1>3. CASE t \notin gr.supported /\ gr.state[t] \in Up /\ gr.activeDependents[t] = 0
  <2>1. h = StopTask(gr, t, FALSE)
    BY <1>3 DEF DriveTask, Up
  <2>2. Path(gr, h) /\ t \in h.dirty
    BY <1>3, <2>1, StopTaskPath
  <2>3. h.state[t] = "Stopping"
    <3>1. h.state = [gr.state EXCEPT ![t] = "Stopping"]
      BY <2>1, StopTaskKept
    <3> QED
      BY <1>1, <3>1
  <2>4. Beside(gr, h, t)
    <3> DEFINE stopping == SetState(gr, t, "Stopping", NoExit)
               k == [stopping EXCEPT !.startFailed = @ \ {t}]
               timed == Schedule(k, t)
    <3>1. gr.state[t] # "Stopping"
      BY <1>3 DEF Up
    <3>2. Beside(gr, stopping, t) /\ Sound(stopping) /\ stopping.tasks = gr.tasks
      <4>1. Beside(gr, stopping, t)
        BY <1>1, <3>1, QuietBeside
      <4>2. Keeps(gr, stopping)
        BY <1>1, SetStateSound
      <4> QED
        BY <4>1, <4>2 DEF Keeps
    <3> HIDE DEF stopping
    <3>3. /\ k \in Graph /\ SameCore(stopping, k)
          /\ k.dirty = stopping.dirty /\ k.savedPin = stopping.savedPin
          /\ Beside(stopping, k, t)
      BY <3>2 DEF Sound, Graph, SameCore, Beside
    <3>4. Sound(k) /\ t \in k.tasks
      BY <3>2, <3>3, FlagsKept DEF Keeps
    <3> HIDE DEF k
    <3>5. Beside(k, timed, t) /\ Sound(timed) /\ t \in timed.tasks
      BY <1>1, <3>4, QuietBeside, ScheduleSound DEF SameCore
    <3> HIDE DEF timed
    <3>6. Beside(timed, SendCmd(timed, t), t)
      BY <3>5, QuietBeside
    <3>7. h = SendCmd(timed, t)
      BY <2>1 DEF StopTask, timed, k, stopping
    <3> QED
      BY <3>2, <3>3, <3>5, <3>6, <3>7, BesideTwice
  <2>5. h # gr
    BY <1>3, <2>3 DEF Up
  <2> QED
    BY <1>3, <2>2, <2>4, <2>5
<1>4. CASE t \notin gr.supported /\ gr.state[t] = "Backoff"
  <2>1. h = ToIdle(gr, t)
    BY <1>4 DEF DriveTask, Up
  <2>2. Path(gr, h) /\ t \in h.dirty
    BY <1>4, <2>1, LandPath DEF ExitInfo
  <2>3. Beside(gr, h, t)
    BY <1>1, <1>4, <2>1, QuietBeside DEF ToIdle
  <2>4. h # gr
    <3>1. h.state = [gr.state EXCEPT ![t] = "Idle"]
      BY <2>1, ToIdleKept
    <3> QED
      BY <1>1, <1>4, <3>1
  <2> QED
    BY <1>4, <2>2, <2>3, <2>4
<1>5. CASE /\ ~(t \in gr.supported /\ gr.state[t] = "Idle")
           /\ ~(t \notin gr.supported /\ gr.state[t] \in Up /\ gr.activeDependents[t] = 0)
           /\ ~(t \notin gr.supported /\ gr.state[t] = "Backoff")
  <2>1. h = gr
    BY <1>5 DEF DriveTask
  <2>2. Driven(gr, t)
    BY <1>5 DEF Driven
  <2> QED
    BY <2>1, <2>2, SelfPath DEF Beside
<1> QED
  BY <1>2, <1>3, <1>4, <1>5

\* What recomputing a task's caches leaves alone.
SameGround(gr, h) ==
  /\ h.tasks = gr.tasks /\ h.edges = gr.edges /\ h.kind = gr.kind /\ h.state = gr.state
  /\ h.vetoed = gr.vetoed /\ h.activeDependents = gr.activeDependents
  /\ h.quitting = gr.quitting

\* nor does enqueueing touch any of it, or the caches.
LEMMA EnqueueGround ==
  ASSUME NEW gr \in Graph, NEW S \in SUBSET gr.tasks
  PROVE  LET e == Enqueue(gr, S)
         IN /\ e \in Graph /\ SameGround(gr, e) /\ e.wanted = gr.wanted
            /\ e.wantedParents = gr.wantedParents /\ e.supported = gr.supported
            /\ e.dirty = gr.dirty \cup S
<1> DEFINE d == gr.dirty \cup S
<1>1. S \cap gr.tasks = S /\ d \in SUBSET Task
  BY DEF Graph
<1>2. Enqueue(gr, S) = [gr EXCEPT !.dirty = d]
  BY <1>1 DEF Enqueue, Graph
<1> HIDE DEF d
<1>3. [gr EXCEPT !.dirty = d] \in Graph
  BY <1>1 DEF Graph
<1>4. SameGround(gr, [gr EXCEPT !.dirty = d])
  BY DEF Graph, SameGround
<1>5. LET e == [gr EXCEPT !.dirty = d]
      IN /\ e.wanted = gr.wanted /\ e.wantedParents = gr.wantedParents
         /\ e.supported = gr.supported /\ e.dirty = d
  BY DEF Graph
<1> QED
  BY <1>2, <1>3, <1>4, <1>5 DEF d

\* recompute_caches takes a task off the queue, and whoever is not queued then has
\* nothing to learn: the task itself included, when it does not require itself.
LEMMA RecomputeTracks ==
  ASSUME NEW gr, Sound(gr), Tracked(gr), NEW t \in gr.tasks, <<t, t>> \notin gr.edges
  PROVE  LET h == RecomputeCaches([gr EXCEPT !.dirty = @ \ {t}], t)
         IN /\ Tracked(h) /\ SameGround(gr, h)
            /\ \A u \in h.tasks \ (h.dirty \cup {t}) : Driven(gr, u) => Driven(h, u)
<1> DEFINE k == [gr EXCEPT !.dirty = @ \ {t}]
           now == ComputeWanted(k, t)
           turned == now # (t \in k.wanted)
           want == IF now THEN k.wanted \cup {t} ELSE k.wanted \ {t}
           wp == Bump(k.wantedParents, Deps(k, t), IF now THEN 1 ELSE -1)
           k1 == [k EXCEPT !.wanted = want, !.wantedParents = wp]
           g1 == IF ~turned THEN k ELSE Enqueue(k1, Deps(k, t))
           sup == IF ComputeSupported(g1, t) THEN g1.supported \cup {t}
                  ELSE g1.supported \ {t}
           m == [g1 EXCEPT !.supported = sup]
           h == RecomputeCaches(k, t)
<1>1. /\ gr \in Graph /\ t \in Task /\ gr.tasks \subseteq Task
      /\ gr.wantedParents \in [Task -> Int] /\ gr.wanted \subseteq gr.tasks
      /\ Deps(gr, t) \subseteq gr.tasks /\ Dependents(gr, t) \subseteq gr.tasks
      /\ t \notin Deps(gr, t) /\ t \notin Dependents(gr, t)
  BY Ends DEF Sound, Graph, Clean, Deps, Dependents
<1>2. /\ k \in Graph /\ SameGround(gr, k) /\ k.wanted = gr.wanted
      /\ k.supported = gr.supported /\ k.wantedParents = gr.wantedParents
      /\ k.dirty = gr.dirty \ {t}
  BY <1>1 DEF Graph, SameGround
<1>3. /\ now \in BOOLEAN
      /\ now <=> ComputeWanted(gr, t)
      /\ Deps(k, t) = Deps(gr, t) /\ Dependents(k, t) = Dependents(gr, t)
  BY <1>2 DEF ComputeWanted, SameGround, Deps, Dependents
<1>4. h = IF ComputeSupported(g1, t) = (t \in g1.supported) THEN g1
          ELSE Enqueue(m, Dependents(k, t))
  BY DEF RecomputeCaches
<1> HIDE DEF k, now, h
<1>5. want \in SUBSET Task /\ wp \in [Task -> Int]
      /\ \A u \in Task \ Deps(gr, t) : wp[u] = gr.wantedParents[u]
  <2>1. want \in SUBSET Task
    BY <1>1, <1>2
  <2>2. wp \in [Task -> Int] /\ \A u \in Task \ Deps(gr, t) : wp[u] = gr.wantedParents[u]
    BY <1>1, <1>2, <1>3 DEF Bump
  <2> QED
    BY <2>1, <2>2
<1>6. \A u \in Task \ {t} : u \in want <=> u \in gr.wanted
  BY <1>2
<1>7. (t \in want <=> now) /\ (~turned => (t \in k.wanted <=> now))
  BY <1>3
<1> HIDE DEF want, wp
<1>8. /\ k1 \in Graph /\ SameGround(k, k1) /\ k1.wanted = want /\ k1.wantedParents = wp
      /\ k1.supported = gr.supported /\ k1.dirty = k.dirty
  BY <1>2, <1>5 DEF Graph, SameGround
<1> HIDE DEF k1
<1>9. LET e == Enqueue(k1, Deps(k, t))
      IN /\ e \in Graph /\ SameGround(gr, e) /\ e.wanted = want /\ e.wantedParents = wp
         /\ e.supported = gr.supported /\ e.dirty = (gr.dirty \ {t}) \cup Deps(gr, t)
  <2>1. /\ Deps(k, t) \in SUBSET k1.tasks /\ k1.dirty = gr.dirty \ {t}
        /\ Deps(k, t) = Deps(gr, t)
    BY <1>1, <1>2, <1>3, <1>8 DEF SameGround
  <2>2. SameGround(gr, k1)
    BY <1>2, <1>8 DEF SameGround
  <2>3. LET e == Enqueue(k1, Deps(k, t))
        IN /\ e \in Graph /\ SameGround(k1, e) /\ e.wanted = k1.wanted
           /\ e.wantedParents = k1.wantedParents /\ e.supported = k1.supported
           /\ e.dirty = k1.dirty \cup Deps(k, t)
    BY <1>8, <2>1, EnqueueGround
  <2> HIDE DEF wp
  <2> QED
    BY <1>8, <2>1, <2>2, <2>3 DEF SameGround
\* What the first half comes to.
<1>10. /\ g1 \in Graph /\ SameGround(gr, g1) /\ g1.supported = gr.supported
       /\ gr.dirty \ {t} \subseteq g1.dirty
       /\ \A u \in Task \ {t} : u \in g1.wanted <=> u \in gr.wanted
       /\ t \in g1.wanted <=> ComputeWanted(gr, t)
       /\ \A u \in Task : u \in g1.dirty \/ g1.wantedParents[u] = gr.wantedParents[u]
       /\ g1.wantedParents[t] = gr.wantedParents[t]
  <2>1. CASE turned
    BY <1>1, <1>3, <1>5, <1>6, <1>7, <1>9, <2>1
  <2>2. CASE ~turned
    BY <1>1, <1>2, <1>3, <1>7, <2>2
  <2> QED
    BY <2>1, <2>2
<1> HIDE DEF g1
<1>11. /\ sup \in SUBSET Task
       /\ \A u \in Task \ {t} : u \in sup <=> u \in gr.supported
       /\ t \in sup <=> ComputeSupported(g1, t)
  BY <1>1, <1>10 DEF Graph
<1> HIDE DEF sup
<1>12. /\ m \in Graph /\ SameGround(g1, m) /\ m.wanted = g1.wanted
       /\ m.wantedParents = g1.wantedParents /\ m.supported = sup /\ m.dirty = g1.dirty
  BY <1>10, <1>11 DEF Graph, SameGround
<1> HIDE DEF m
<1>13. LET e == Enqueue(m, Dependents(k, t))
       IN /\ SameGround(gr, e) /\ e.wanted = g1.wanted
          /\ e.wantedParents = g1.wantedParents /\ e.supported = sup
          /\ e.dirty = g1.dirty \cup Dependents(gr, t)
  <2>1. /\ Dependents(k, t) \in SUBSET m.tasks /\ Dependents(k, t) = Dependents(gr, t)
        /\ SameGround(gr, m)
    BY <1>1, <1>3, <1>10, <1>12 DEF SameGround
  <2>2. LET e == Enqueue(m, Dependents(k, t))
        IN /\ SameGround(m, e) /\ e.wanted = m.wanted
           /\ e.wantedParents = m.wantedParents /\ e.supported = m.supported
           /\ e.dirty = m.dirty \cup Dependents(k, t)
    BY <1>12, <2>1, EnqueueGround
  <2> QED
    BY <1>12, <2>1, <2>2 DEF SameGround
<1>14. /\ SameGround(gr, h) /\ h.wanted = g1.wanted
       /\ h.wantedParents = g1.wantedParents /\ g1.dirty \subseteq h.dirty
       /\ \A u \in Task \ {t} : u \in h.supported <=> u \in gr.supported
       /\ t \in h.supported <=> ComputeSupported(g1, t)
       /\ \/ Dependents(gr, t) \subseteq h.dirty
          \/ t \in h.supported <=> t \in gr.supported
  <2>0. ComputeSupported(g1, t) \in BOOLEAN
    BY DEF ComputeSupported
  <2>1. CASE ComputeSupported(g1, t) = (t \in g1.supported)
    BY <1>4, <1>10, <2>0, <2>1
  <2>2. CASE ComputeSupported(g1, t) # (t \in g1.supported)
    BY <1>4, <1>11, <1>13, <2>2
  <2> QED
    BY <2>1, <2>2
<1> HIDE DEF h
<1>15. \A u : Deps(h, u) = Deps(gr, u) /\ Deps(g1, u) = Deps(gr, u)
  BY <1>10, <1>14 DEF SameGround, Deps
<1>16. \A u : (Satisfied(h, u) <=> Satisfied(gr, u)) /\ (Satisfied(g1, u) <=> Satisfied(gr, u))
  BY <1>10, <1>14 DEF SameGround, Satisfied
<1>17. ASSUME NEW u \in h.tasks \ (h.dirty \cup {t}) PROVE Same(gr, h, u)
  <2>1. u \in gr.tasks \ gr.dirty /\ u \in Task /\ u # t
    BY <1>1, <1>10, <1>14 DEF SameGround
  <2>2. ASSUME NEW d \in Deps(gr, u) PROVE d \in h.supported <=> d \in gr.supported
    <3>1. CASE d # t
      BY <1>14, <3>1 DEF Deps
    <3>2. CASE d = t
      BY <1>14, <2>1, <3>2 DEF Deps, Dependents
    <3> QED
      BY <3>1, <3>2
  <2>3. h.wantedParents[u] = gr.wantedParents[u]
    BY <1>10, <1>14, <2>1
  <2> QED
    BY <1>10, <1>14, <1>15, <1>16, <2>1, <2>2, <2>3, Sight DEF SameGround
<1>18. Current(h, t)
  <2>1. ComputeWanted(h, t) <=> ComputeWanted(gr, t)
    BY <1>10, <1>14 DEF ComputeWanted, SameGround
  <2>2. \A d \in Deps(gr, t) : d # t /\ d \in Task
    BY <1>1 DEF Deps
  <2>3. ComputeSupported(h, t) <=> ComputeSupported(g1, t)
    BY <1>10, <1>14, <1>15, <1>16, <2>2 DEF ComputeSupported
  <2> QED
    BY <1>10, <1>14, <2>1, <2>3 DEF Current
<1>19. Tracked(h)
  <2>1. h.supported \subseteq h.tasks
    <3>1. h.tasks = gr.tasks
      BY <1>14 DEF SameGround
    <3>2. gr.supported \subseteq gr.tasks /\ gr.supported \subseteq Task
      BY <1>1 DEF Tracked
    <3>3. ASSUME NEW u \in h.supported PROVE u \in gr.tasks
      <4>1. u \in Task
        BY <1>4, <1>10, <1>11, <1>13, <1>14, <3>2
      <4> QED
        BY <1>14, <3>2, <4>1
    <3> QED
      BY <3>1, <3>3
  <2>2. ASSUME NEW u \in h.tasks \ h.dirty PROVE Current(h, u)
    BY <1>17, <1>18 DEF Tracked, Same, Current
  <2> QED
    BY <2>1, <2>2 DEF Tracked
<1> QED
  BY <1>14, <1>17, <1>19 DEF Same, Driven, h, k

-----------------------------------------------------------------------------
(* What a task requires *)

\* A task requires itself, what those it requires require, and nothing it need not:
\* a set of tasks with it that the edges do not lead out of has all it requires.
LEMMA ClosureFacts ==
  ASSUME NEW gr, gr \in Graph, NEW t
  PROVE  /\ Closure(gr, t) \subseteq Task
         /\ t \in Task => t \in Closure(gr, t)
         /\ \A a \in Closure(gr, t), b \in Task :
              <<a, b>> \in gr.edges => b \in Closure(gr, t)
         /\ \A S \in SUBSET Task :
              (t \in S /\ \A a \in S : \A b : <<a, b>> \in gr.edges => b \in S)
                => Closure(gr, t) \subseteq S
<1>1. Closure(gr, t) \subseteq Task /\ (t \in Task => t \in Closure(gr, t))
  BY DEF Closure
<1>2. ASSUME NEW a \in Closure(gr, t), NEW b \in Task, <<a, b>> \in gr.edges
      PROVE  b \in Closure(gr, t)
  <2>1. <<a, b>>[1] = a /\ <<a, b>>[2] = b
    OBVIOUS
  <2>2. ASSUME NEW S \in SUBSET Task, t \in S, \A e \in gr.edges : e[1] \in S => e[2] \in S
        PROVE  b \in S
    <3>1. a \in S
      BY <2>2 DEF Closure
    <3> QED
      BY <1>2, <2>1, <2>2, <3>1
  <2> QED
    BY <2>2 DEF Closure
<1>3. ASSUME NEW S \in SUBSET Task, t \in S, \A a \in S : \A b : <<a, b>> \in gr.edges => b \in S
      PROVE  Closure(gr, t) \subseteq S
  <2>1. \A e \in gr.edges : e[1] \in S => e[2] \in S
    <3> SUFFICES ASSUME NEW e \in gr.edges, e[1] \in S PROVE e[2] \in S
      OBVIOUS
    <3>1. e = <<e[1], e[2]>>
      BY DEF Graph
    <3> QED
      BY <1>3, <3>1
  <2> QED
    BY <1>3, <2>1 DEF Closure
<1> QED
  BY <1>1, <1>2, <1>3

\* What a dep requires, the task requires.
LEMMA ClosureOfDep ==
  ASSUME NEW gr, gr \in Graph, NEW t, NEW d \in Closure(gr, t)
  PROVE  Closure(gr, d) \subseteq Closure(gr, t)
<1> DEFINE S == Closure(gr, t)
<1>1. S \in SUBSET Task /\ gr.edges \subseteq (Task \cup {Init0}) \X Task
  BY ClosureFacts DEF Graph
<1>2. ASSUME NEW a \in S, NEW b, <<a, b>> \in gr.edges PROVE b \in S
  <2>1. b \in Task
    BY <1>1, <1>2
  <2> QED
    BY <1>2, <2>1, ClosureFacts
<1> HIDE DEF S
<1>3. d \in S
  BY DEF S
<1> QED
  BY <1>1, <1>2, <1>3, ClosureFacts DEF S

\* No task requires itself through others.
Loopless(gr) == \A e \in gr.edges : e[1] \notin Closure(gr, e[2])

\* Then none requires itself at once, and what a dep requires is less than what the
\* task requires.
LEMMA LooplessDep ==
  ASSUME NEW gr, gr \in Graph, Loopless(gr), NEW t \in Task, NEW d \in Deps(gr, t)
  PROVE  /\ d # t /\ d \in Closure(gr, t) /\ t \notin Closure(gr, d)
         /\ Closure(gr, d) \subseteq Closure(gr, t) /\ Closure(gr, d) # Closure(gr, t)
<1>1. <<t, d>> \in gr.edges /\ d \in Task
  BY DEF Deps
<1>2. <<t, d>>[1] = t /\ <<t, d>>[2] = d
  OBVIOUS
<1>3. t \notin Closure(gr, d)
  BY <1>1, <1>2 DEF Loopless
<1>4. t \in Closure(gr, t) /\ d \in Closure(gr, d) /\ d \in Closure(gr, t)
  BY <1>1, ClosureFacts
<1>5. Closure(gr, d) \subseteq Closure(gr, t)
  BY <1>4, ClosureOfDep
<1> QED
  BY <1>3, <1>4, <1>5

\* Who does not require t requires nothing new of edges from t.
LEMMA ClosureJoins ==
  ASSUME NEW gr, gr \in Graph, NEW h, h \in Graph, NEW t, NEW D, Joins(gr, h, t, D),
         NEW b \in Task, t \notin Closure(gr, b)
  PROVE  Closure(h, b) \subseteq Closure(gr, b)
<1> DEFINE S == Closure(gr, b)
<1>1. S \in SUBSET Task /\ b \in S
  BY ClosureFacts
<1>2. ASSUME NEW a \in S, NEW c, <<a, c>> \in h.edges PROVE c \in S
  <2>1. a # Init0 /\ a # t
    BY <1>1, TaskAssumption
  <2>2. <<a, c>>[1] = a
    OBVIOUS
  <2>3. \A d : <<a, c>> # <<t, d>>
    BY <2>1
  <2>4. <<a, c>> \in gr.edges
    BY <1>2, <2>1, <2>2, <2>3 DEF Joins
  <2>5. c \in Task
    BY <2>4 DEF Graph
  <2> QED
    BY <2>4, <2>5, ClosureFacts
<1> HIDE DEF S
<1>3. Closure(h, b) \subseteq S
  BY <1>1, <1>2, ClosureFacts
<1> QED
  BY <1>3 DEF S

\* Edges from t to tasks that do not require it close no loop.
LEMMA JoinsLoopless ==
  ASSUME NEW gr, gr \in Graph, Loopless(gr), NEW h, h \in Graph, NEW t \in Task,
         NEW D \in SUBSET Task, Joins(gr, h, t, D), \A d \in D : t \notin Closure(gr, d)
  PROVE  Loopless(h)
<1> SUFFICES ASSUME NEW e \in h.edges PROVE e[1] \notin Closure(h, e[2])
  BY DEF Loopless
<1> DEFINE a == e[1]
           b == e[2]
<1>1. e = <<a, b>> /\ a \in Task \cup {Init0} /\ b \in Task
  BY DEF Graph
<1> HIDE DEF a, b
<1>2. CASE a = Init0
  BY <1>1, <1>2, ClosureFacts, TaskAssumption DEF a, b
<1>3. ASSUME NEW d \in D, e = <<t, d>> PROVE a \notin Closure(h, b)
  <2>1. a = t /\ b = d
    BY <1>3 DEF a, b
  <2>2. Closure(h, d) \subseteq Closure(gr, d)
    BY ClosureJoins
  <2> QED
    BY <2>1, <2>2
<1>4. CASE e \in gr.edges /\ a # Init0
  <2>1. a \notin Closure(gr, b)
    BY <1>4 DEF Loopless, a, b
  <2>2. CASE t \notin Closure(gr, b)
    BY <1>1, <2>1, <2>2, ClosureJoins
  <2>3. CASE t \in Closure(gr, b)
    <3> DEFINE U == Closure(gr, b) \cup UNION {Closure(gr, d) : d \in D}
    <3>1. U \in SUBSET Task /\ b \in U
      BY <1>1, ClosureFacts
    <3>2. ASSUME NEW x \in U, NEW y, <<x, y>> \in h.edges PROVE y \in U
      <4>0. x # Init0 /\ y \in Task /\ <<x, y>>[1] = x
        BY <3>1, <3>2, TaskAssumption DEF Graph
      <4>1. CASE <<x, y>> \in gr.edges
        BY <3>2, <4>0, <4>1, ClosureFacts
      <4>2. ASSUME NEW d \in D, <<x, y>> = <<t, d>> PROVE y \in U
        <5>1. y = d /\ y \in Closure(gr, y)
          BY <4>0, <4>2, ClosureFacts
        <5> QED
          BY <5>1
      <4> QED
        BY <3>2, <4>0, <4>1, <4>2 DEF Joins
    <3>3. a \notin U
      <4>1. ASSUME NEW d \in D, a \in Closure(gr, d) PROVE FALSE
        <5>1. b \in Closure(gr, d)
          BY <1>1, <1>4, <4>1, ClosureFacts
        <5>2. Closure(gr, b) \subseteq Closure(gr, d)
          BY <5>1, ClosureOfDep
        <5> QED
          BY <2>3, <5>2
      <4> QED
        BY <2>1, <4>1
    <3> HIDE DEF U
    <3>4. Closure(h, b) \subseteq U
      BY <3>1, <3>2, ClosureFacts
    <3> QED
      BY <3>3, <3>4 DEF a, b
  <2> QED
    BY <2>2, <2>3
<1> QED
  BY <1>1, <1>2, <1>3, <1>4 DEF Joins, a, b

\* An operation that joins no two tasks closes no loop, and makes none require more.
LEMMA FewerLoopless ==
  ASSUME NEW gr, gr \in Graph, NEW h, h \in Graph, FewerEdges(gr, h)
  PROVE  /\ Loopless(gr) => Loopless(h)
         /\ \A b \in Task : Closure(h, b) \subseteq Closure(gr, b)
<1>1. ASSUME NEW b \in Task PROVE Closure(h, b) \subseteq Closure(gr, b)
  <2> DEFINE S == Closure(gr, b)
  <2>1. S \in SUBSET Task /\ b \in S
    BY ClosureFacts
  <2>2. ASSUME NEW a \in S, NEW c, <<a, c>> \in h.edges PROVE c \in S
    <3>1. a # Init0 /\ <<a, c>>[1] = a /\ c \in Task
      BY <2>1, <2>2, TaskAssumption DEF Graph
    <3>2. <<a, c>> \in gr.edges
      BY <2>2, <3>1 DEF FewerEdges
    <3> QED
      BY <3>1, <3>2, ClosureFacts
  <2> HIDE DEF S
  <2>3. Closure(h, b) \subseteq S
    BY <2>1, <2>2, ClosureFacts
  <2> QED
    BY <2>3 DEF S
<1>2. ASSUME Loopless(gr), NEW e \in h.edges PROVE e[1] \notin Closure(h, e[2])
  <2>1. e[2] \in Task
    BY DEF Graph
  <2>2. CASE e[1] = Init0
    BY <2>2, ClosureFacts, TaskAssumption
  <2>3. CASE e \in gr.edges
    BY <1>1, <1>2, <2>1, <2>3 DEF Loopless
  <2> QED
    BY <2>2, <2>3 DEF FewerEdges
<1> QED
  BY <1>1, <1>2 DEF Loopless

-----------------------------------------------------------------------------
(* The caches are what the whole graph says *)

\* Among sets of tasks there is one with none below it.
LEMMA Minimal ==
  ASSUME NEW A \in SUBSET (SUBSET Task), A # {}
  PROVE  \E x \in A : \A y \in A : ~(y \subseteq x /\ y # x)
<1>1. FiniteSubsetsOf(Task) = SUBSET Task
  BY TaskAssumption, FS_FiniteSubsetsOfFinite
<1>2. IsWellFoundedOn(StrictSubsetOrdering(Task), SUBSET Task)
  BY <1>1, FS_StrictSubsetOrderingWellFounded
<1>3. PICK x \in A : \A y \in A : ~(<<y, x>> \in StrictSubsetOrdering(Task))
  BY <1>2, WFMin
<1>4. ASSUME NEW y \in A, y \subseteq x, y # x PROVE FALSE
  <2>1. <<y, x>> \in (SUBSET Task) \X (SUBSET Task)
    OBVIOUS
  <2>2. <<y, x>>[1] \subseteq <<y, x>>[2] /\ <<y, x>>[1] # <<y, x>>[2]
    BY <1>4
  <2>3. <<y, x>> \in StrictSubsetOrdering(Task)
    BY <2>1, <2>2 DEF StrictSubsetOrdering
  <2> QED
    BY <1>3, <2>3
<1> QED
  BY <1>4

\* Among some tasks there is one that requires none of the others at once, and one
\* that none of the others requires at once: no loop leads round them.
LEMMA FirstAndLast ==
  ASSUME NEW gr, gr \in Graph, Loopless(gr), NEW B \in SUBSET Task, B # {}
  PROVE  /\ \E t \in B : \A d \in B : d \notin Deps(gr, t)
         /\ \E t \in B : \A p \in B : t \notin Deps(gr, p)
<1>1. \E t \in B : \A d \in B : d \notin Deps(gr, t)
  <2> DEFINE A == {Closure(gr, t) : t \in B}
  <2>1. A \in SUBSET (SUBSET Task) /\ A # {}
    BY ClosureFacts
  <2>2. PICK x \in A : \A y \in A : ~(y \subseteq x /\ y # x)
    <3> HIDE DEF A
    <3> QED
      BY <2>1, Minimal
  <2>3. PICK t \in B : x = Closure(gr, t)
    OBVIOUS
  <2>4. ASSUME NEW d \in B PROVE d \notin Deps(gr, t)
    <3>1. Closure(gr, d) \in A
      OBVIOUS
    <3>2. ~(Closure(gr, d) \subseteq Closure(gr, t) /\ Closure(gr, d) # Closure(gr, t))
      BY <2>2, <2>3, <3>1
    <3> QED
      BY <3>2, LooplessDep
  <2> QED
    BY <2>4
<1>2. \E t \in B : \A p \in B : t \notin Deps(gr, p)
  <2> DEFINE A == {Task \ Closure(gr, t) : t \in B}
  <2>1. A \in SUBSET (SUBSET Task) /\ A # {}
    OBVIOUS
  <2>2. PICK x \in A : \A y \in A : ~(y \subseteq x /\ y # x)
    <3> HIDE DEF A
    <3> QED
      BY <2>1, Minimal
  <2>3. PICK t \in B : x = Task \ Closure(gr, t)
    OBVIOUS
  <2>4. ASSUME NEW p \in B, t \in Deps(gr, p) PROVE FALSE
    <3>1. Task \ Closure(gr, p) \in A
      OBVIOUS
    <3>2. /\ Closure(gr, t) \subseteq Closure(gr, p) /\ Closure(gr, t) # Closure(gr, p)
          /\ Closure(gr, t) \subseteq Task /\ Closure(gr, p) \subseteq Task
      BY <2>4, LooplessDep, ClosureFacts
    <3>3. /\ Task \ Closure(gr, p) \subseteq Task \ Closure(gr, t)
          /\ Task \ Closure(gr, p) # Task \ Closure(gr, t)
      BY <3>2
    <3> QED
      BY <2>2, <2>3, <3>1, <3>3
  <2> QED
    BY <2>4
<1> QED
  BY <1>1, <1>2

\* What the oracle of `wanted` asks of a set.
WantedUp(gr, S) ==
  \A u \in gr.tasks \ gr.vetoed :
    (Pinned(gr, u) \/ \E p \in Dependents(gr, u) : p \in S) => u \in S

\* The oracles, of any graph.
GraphWanted(gr) ==
  IF gr.quitting THEN {} ELSE
  {t \in gr.tasks : \A S \in SUBSET gr.tasks : WantedUp(gr, S) => t \in S}
GraphSupported(gr) ==
  {t \in gr.tasks : /\ Closure(gr, t) \subseteq GraphWanted(gr)
                    /\ \A u \in Closure(gr, t) \ {t} : Satisfied(gr, u)}

\* They are the ones of the properties.
LEMMA Oracles == OracleWanted = GraphWanted(g) /\ OracleSupported = GraphSupported(g)
<1>1. OracleWanted = GraphWanted(g)
  BY DEF OracleWanted, GraphWanted, WantedUp
<1> QED
  BY <1>1 DEF OracleSupported, GraphSupported

\* With nothing queued, `wanted` is what the oracle says: a task is counted a wanted
\* parent of by a pin or by a task that is wanted, and no loop holds itself up.
LEMMA WantedRight ==
  ASSUME NEW gr, Sound(gr), Tracked(gr), gr.dirty = {}, Loopless(gr)
  PROVE  gr.wanted = GraphWanted(gr)
<1>1. gr \in Graph /\ gr.tasks \subseteq Task /\ gr.wanted \subseteq gr.tasks
      /\ gr.wantedParents \in [Task -> Int]
  BY DEF Sound, Graph, Clean
<1>2. ASSUME NEW t \in gr.tasks
      PROVE  t \in gr.wanted <=> /\ ~gr.quitting /\ t \notin gr.vetoed
                                /\ \/ Pinned(gr, t)
                                   \/ \E p \in Dependents(gr, t) : p \in gr.wanted
  <2>1. t \in gr.wanted <=> ComputeWanted(gr, t)
    BY DEF Tracked, Current
  <2>2. gr.wantedParents[t] = Cardinality(WantedParents(gr, t)) /\ t \in Task
    BY <1>1 DEF Sound, Counted
  <2>3. gr.wantedParents[t] > 0 <=> WantedParents(gr, t) # {}
    <3>1. IsFiniteSet(WantedParents(gr, t))
      BY Finite
    <3>2. Cardinality(WantedParents(gr, t)) \in Nat
          /\ (Cardinality(WantedParents(gr, t)) = 0 <=> WantedParents(gr, t) = {})
      BY <3>1, FS_CardinalityType, FS_EmptySet
    <3> QED
      BY <2>2, <3>2
  <2>4. WantedParents(gr, t) # {} <=> Pinned(gr, t) \/ \E p \in Dependents(gr, t) : p \in gr.wanted
    BY <1>1, TaskAssumption DEF WantedParents, ParentWanted, Pinned, Dependents
  <2> QED
    BY <2>1, <2>3, <2>4 DEF ComputeWanted
<1>3. CASE gr.quitting
  BY <1>1, <1>2, <1>3 DEF GraphWanted
<1>4. CASE ~gr.quitting
  <2>1. GraphWanted(gr) = {t \in gr.tasks : \A S \in SUBSET gr.tasks : WantedUp(gr, S) => t \in S}
    BY <1>4 DEF GraphWanted, WantedUp
  <2>2. WantedUp(gr, gr.wanted)
    BY <1>2, <1>4 DEF WantedUp
  <2>3. GraphWanted(gr) \subseteq gr.wanted
    BY <1>1, <2>1, <2>2
  <2> DEFINE B == gr.wanted \ GraphWanted(gr)
  <2>4. ASSUME B # {} PROVE FALSE
    <3>1. B \in SUBSET Task
      BY <1>1
    <3> HIDE DEF B
    <3>2. PICK t \in B : \A p \in B : t \notin Deps(gr, p)
      BY <1>1, <2>4, <3>1, FirstAndLast
    <3>3. t \in gr.wanted /\ t \notin GraphWanted(gr) /\ t \in gr.tasks /\ t \in Task
      BY <1>1, <3>2 DEF B
    <3>4. PICK S \in SUBSET gr.tasks : WantedUp(gr, S) /\ t \notin S
      BY <2>1, <3>3
    <3>5. ~Pinned(gr, t)
      BY <1>2, <3>3, <3>4 DEF WantedUp
    <3>6. PICK p \in Dependents(gr, t) : p \in gr.wanted
      BY <1>2, <3>3, <3>5
    <3>7. t \in Deps(gr, p)
      BY <3>3, <3>6 DEF Dependents, Deps
    <3>8. p \in GraphWanted(gr)
      BY <3>2, <3>6, <3>7 DEF B
    <3>9. p \in S
      BY <2>1, <3>4, <3>8
    <3> QED
      BY <1>2, <3>3, <3>4, <3>6, <3>9 DEF WantedUp
  <2> QED
    BY <2>3, <2>4
<1> QED
  BY <1>3, <1>4

\* And `supported` is what the oracle says: wanted, with all it requires wanted and
\* satisfied, however far down.
LEMMA SupportedRight ==
  ASSUME NEW gr, Sound(gr), Tracked(gr), gr.dirty = {}, Loopless(gr)
  PROVE  gr.supported = GraphSupported(gr)
<1>1. gr \in Graph /\ gr.tasks \subseteq Task /\ gr.supported \subseteq gr.tasks
  BY DEF Sound, Graph, Tracked
<1>2. ASSUME NEW t \in gr.tasks
      PROVE  t \in gr.supported <=>
               t \in gr.wanted /\ \A d \in Deps(gr, t) : d \in gr.supported /\ Satisfied(gr, d)
  BY DEF Tracked, Current, ComputeSupported
<1>3. gr.wanted = GraphWanted(gr)
  BY WantedRight
<1>4. ASSUME NEW t \in gr.supported PROVE t \in GraphSupported(gr)
  <2> DEFINE S == {u \in gr.supported : u = t \/ Satisfied(gr, u)}
  <2>1. S \in SUBSET Task /\ t \in S
    BY <1>1
  <2>2. ASSUME NEW a \in S, NEW b, <<a, b>> \in gr.edges PROVE b \in S
    <3>1. b \in Deps(gr, a)
      BY <1>1, <2>2 DEF Deps, Graph
    <3> QED
      BY <1>1, <1>2, <3>1
  <2> HIDE DEF S
  <2>3. Closure(gr, t) \subseteq S
    BY <1>1, <2>1, <2>2, ClosureFacts
  <2>4. \A u \in S : u \in gr.wanted /\ (u = t \/ Satisfied(gr, u))
    BY <1>1, <1>2 DEF S
  <2> QED
    BY <1>1, <1>3, <2>3, <2>4 DEF GraphSupported
<1> DEFINE B == GraphSupported(gr) \ gr.supported
<1>5. ASSUME B # {} PROVE FALSE
  <2>1. B \in SUBSET Task
    BY <1>1 DEF GraphSupported
  <2> HIDE DEF B
  <2>2. PICK t \in B : \A d \in B : d \notin Deps(gr, t)
    BY <1>1, <1>5, <2>1, FirstAndLast
  <2>3. /\ t \in gr.tasks /\ t \in Task /\ t \notin gr.supported
        /\ Closure(gr, t) \subseteq gr.wanted
        /\ \A u \in Closure(gr, t) \ {t} : Satisfied(gr, u)
    BY <1>1, <1>3, <2>2 DEF B, GraphSupported
  <2>4. t \in gr.wanted
    BY <1>1, <2>3, ClosureFacts
  <2>5. ASSUME NEW d \in Deps(gr, t) PROVE d \in gr.supported /\ Satisfied(gr, d)
    <3>1. /\ d # t /\ d \in Closure(gr, t) /\ t \notin Closure(gr, d)
          /\ Closure(gr, d) \subseteq Closure(gr, t)
      BY <1>1, <2>3, LooplessDep
    <3>2. d \in gr.tasks
      BY Ends
    <3>3. d \in GraphSupported(gr)
      BY <1>3, <2>3, <3>1, <3>2 DEF GraphSupported
    <3>4. d \notin B
      BY <2>2
    <3> QED
      BY <2>3, <3>1, <3>3, <3>4 DEF B
  <2> QED
    BY <1>2, <2>3, <2>4, <2>5
<1> QED
  BY <1>4, <1>5

-----------------------------------------------------------------------------
(* The kernel reconciles *)

\* Caches that are not right are queued, nothing requires itself, and a task that is
\* neither queued nor in D is where its intent wants it.
Base(gr, D) ==
  /\ Tracked(gr)
  /\ Loopless(gr)
  /\ \A t \in gr.tasks \ (gr.dirty \cup D) : Driven(gr, t)

\* An update under way has been checked against loops, for all that it will change.
Checked ==
  pc = "dispatch" /\ apply.verb = "Update" =>
    \A t \in todo, d \in apply.def.deps : t \notin Closure(g, d)

\* While a round drives its tasks, `wanted` is still what the whole graph says, and
\* what was computed of each supported task still holds.
Round ==
  pc = "drive" => /\ g.wanted = GraphWanted(g)
                  /\ \A t \in g.supported : ComputeSupported(g, t)

\* What the reconciler's promises rest on, at every step.
RInv ==
  /\ Base(g, toDrive)
  /\ Checked
  /\ Round
  /\ pc = "recv" => g.dirty = {}

\* An operation that follows its graph keeps the base.
LEMMA FollowsBase ==
  ASSUME NEW gr, gr \in Graph, NEW h, h \in Graph, NEW D, Follows(gr, h), Base(gr, D)
  PROVE  Base(h, D)
<1>1. Seen(gr, h) /\ FewerEdges(gr, h) /\ Tracked(gr) /\ Loopless(gr)
  BY DEF Follows, Base
<1>2. Tracked(h) /\ \A t \in h.tasks \ h.dirty : Driven(gr, t) => Driven(h, t)
  BY <1>1, SeenTracked
<1>3. Loopless(h)
  BY <1>1, FewerLoopless
<1>4. \A t \in h.tasks \ h.dirty : t \in gr.tasks \ gr.dirty
  BY <1>1 DEF Seen, Same
<1> QED
  BY <1>2, <1>3, <1>4 DEF Base

\* So does one that joins a task to others that do not require it.
LEMMA JoinsBase ==
  ASSUME NEW gr, gr \in Graph, NEW h, h \in Graph, NEW D, Seen(gr, h), Base(gr, D),
         NEW t \in Task, NEW N \in SUBSET Task, Joins(gr, h, t, N),
         \A d \in N : t \notin Closure(gr, d)
  PROVE  Base(h, D)
<1>1. Tracked(gr) /\ Loopless(gr)
  BY DEF Base
<1>2. Tracked(h) /\ \A u \in h.tasks \ h.dirty : Driven(gr, u) => Driven(h, u)
  BY <1>1, SeenTracked
<1>3. Loopless(h)
  BY <1>1, JoinsLoopless
<1>4. \A u \in h.tasks \ h.dirty : u \in gr.tasks \ gr.dirty
  BY DEF Seen, Same
<1> QED
  BY <1>2, <1>3, <1>4 DEF Base

\* The empty graph has nothing to reconcile.
LEMMA InitRInv == Init => RInv
<1> SUFFICES ASSUME Init PROVE RInv
  OBVIOUS
<1>1. /\ g.tasks = {} /\ g.edges = {} /\ g.dirty = {} /\ g.supported = {}
      /\ pc = "recv"
  BY DEF Init, EmptyGraph
<1> QED
  BY <1>1 DEF RInv, Base, Tracked, Loopless, Checked, Round

\* What a message does to the graph keeps the base: nothing is being driven.
LEMMA MessageRInv ==
  ASSUME IInv, RInv, pc = "recv"
  PROVE  /\ \A t \in fresh : \A def \in Def[t] : RecvRegister(t, def) => Base(g, toDrive)'
         /\ RecvQuit => Base(g, toDrive)'
         /\ \A t \in Task, report \in Report : RecvReport(t, report) => Base(g, toDrive)'
         /\ \A t \in Task : RecvTimeout(t) => Base(g, toDrive)'
<1>0. Sound(g) /\ g \in Graph /\ Base(g, toDrive) /\ g.tasks \subseteq Task
  BY DEF IInv, Sound, RInv, Graph
<1>1. ASSUME NEW t \in fresh, NEW def \in Def[t], RecvRegister(t, def)
      PROVE  Base(g, toDrive)'
  <2>1. t \in Task \ g.tasks /\ def \in TaskDef /\ def.deps \in SUBSET Task
    BY KernelAssumption DEF IInv, TypeOK, TaskDef
  <2> DEFINE h == Register(g, t, def)
  <2>2. Seen(g, h) /\ Joins(g, h, t, def.deps)
    BY <1>0, <2>1, RegisterSeen
  <2>3. Sound(h) /\ h \in Graph
    BY <1>0, <2>1, RegisterSound DEF Sound
  <2>4. ASSUME def.deps \subseteq g.tasks, NEW d \in def.deps PROVE t \notin Closure(g, d)
    <3>1. \A a \in g.tasks : \A b : <<a, b>> \in g.edges => b \in g.tasks
      BY <1>0 DEF Sound, Closed
    <3>2. Closure(g, d) \subseteq g.tasks
      BY <1>0, <2>4, <3>1, ClosureFacts
    <3> QED
      BY <2>1, <3>2
  <2> HIDE DEF h
  <2>5. CASE def.deps \subseteq g.tasks
    <3>1. Base(h, toDrive)
      BY <1>0, <2>1, <2>2, <2>3, <2>4, <2>5, JoinsBase
    <3> QED
      BY <1>1, <2>5, <3>1 DEF RecvRegister, h
  <2>6. CASE ~(def.deps \subseteq g.tasks)
    BY <1>0, <1>1, <2>6 DEF RecvRegister
  <2> QED
    BY <2>5, <2>6
<1>2. CASE RecvQuit
  <2> DEFINE k == [g EXCEPT !.quitting = TRUE]
             h == Enqueue(k, g.tasks)
  <2>1. /\ k \in Graph /\ k.tasks = g.tasks /\ k.edges = g.edges
        /\ k.supported = g.supported /\ k.dirty = g.dirty
    BY <1>0 DEF Graph
  <2> HIDE DEF k
  <2>2. /\ h \in Graph /\ h.tasks = g.tasks /\ h.edges = g.edges
        /\ h.supported = g.supported /\ g.tasks \subseteq h.dirty
    BY <2>1 DEF Graph, Enqueue
  <2> HIDE DEF h
  <2>3. Follows(g, h)
    BY <2>2 DEF Follows, Seen, FewerEdges
  <2>4. Base(h, toDrive)
    BY <1>0, <2>2, <2>3, FollowsBase
  <2> QED
    BY <1>0, <1>2, <2>4 DEF RecvQuit, k, h
<1>3. ASSUME NEW t \in Task, NEW report \in Report, RecvReport(t, report)
      PROVE  Base(g, toDrive)'
  <2>1. "ok" \in ExitInfo /\ "err" \in ExitInfo
    BY DEF ExitInfo
  <2>2. g' \in {OnTaskStarted(g, t), OnTaskReady(g, t), OnTaskStopped(g, t, "ok"),
                OnTaskStopped(g, t, "err")}
    BY <1>3 DEF RecvReport, Report
  <2>3. Path(g, g')
    BY <1>0, <2>1, <2>2, ReportsPath
  <2> QED
    BY <1>0, <1>3, <2>3, FollowsBase DEF RecvReport, Path, Keeps, Sound
<1>4. ASSUME NEW t \in Task, RecvTimeout(t) PROVE Base(g, toDrive)'
  <2>1. Path(g, g')
    BY <1>0, <1>4, OnStateTimeoutPath DEF RecvTimeout
  <2> QED
    BY <1>0, <1>4, <2>1, FollowsBase DEF RecvTimeout, Path, Keeps, Sound
<1> QED
  BY <1>1, <1>2, <1>3, <1>4

\* A dispatch acts on one of its tasks: an update leads no loop, since it was checked,
\* and what it leaves to do is still checked, since it adds no way to a task but
\* through those it was checked for.
LEMMA ActOnRInv ==
  ASSUME IInv, RInv, NEW t \in Task, ActOn(t)
  PROVE  RInv'
<1>0. /\ Sound(g) /\ g \in Graph /\ Base(g, toDrive) /\ t \in g.tasks
      /\ apply \in Work /\ pc = "dispatch" /\ t \in todo
  BY DEF IInv, Sound, RInv, ActOn
<1>1. /\ toDrive' = toDrive /\ pc' \in {"settle", "dispatch"}
      /\ pc' = "dispatch" => todo' = todo \ {t} /\ apply' = apply
  BY DEF ActOn, BeginDispatch
<1>2. g' \in Graph
  BY NextIInv DEF Next, Turn, IInv, Sound
<1>3. CASE apply.verb = "Update"
  <2>1. apply.def \in TaskDef /\ apply.def.deps \in SUBSET Task
    BY <1>0, <1>3 DEF Work, Verb, TaskDef
  <2>2. g' = UpdateTask(g, t, apply.def)
    BY <1>3 DEF ActOn
  <2>3. Seen(g, g') /\ Joins(g, g', t, apply.def.deps)
    BY <1>0, <2>1, <2>2, UpdateTaskSeen
  <2>4. \A u \in todo, d \in apply.def.deps : u \notin Closure(g, d)
    BY <1>0, <1>3 DEF RInv, Checked
  <2>5. Base(g', toDrive)
    BY <1>0, <1>2, <2>1, <2>3, <2>4, JoinsBase
  <2>6. \A d \in apply.def.deps : Closure(g', d) \subseteq Closure(g, d)
    BY <1>0, <1>2, <2>1, <2>3, <2>4, ClosureJoins
  <2>7. Checked'
    BY <1>1, <2>4, <2>6 DEF Checked
  <2> QED
    BY <1>1, <2>5, <2>7 DEF RInv, Round
<1>4. CASE apply.verb # "Update"
  <2>1. apply.verb \in Verb
    BY <1>0, <1>4 DEF Work
  <2>2. Follows(g, g')
    BY <1>0, <1>4, <2>1, ActFollows DEF ActOn
  <2>3. Base(g', toDrive)
    BY <1>0, <1>2, <2>2, FollowsBase
  <2>4. Checked'
    BY <1>1, <1>4 DEF Checked
  <2> QED
    BY <1>1, <2>3, <2>4 DEF RInv, Round
<1> QED
  BY <1>3, <1>4

\* A task is recomputed; with the last one the caches are what the whole graph says.
LEMMA RecomputeRInv ==
  ASSUME IInv, RInv, NEW t \in Task, Recompute(t)
  PROVE  RInv'
<1>0. /\ Sound(g) /\ g \in Graph /\ Tracked(g) /\ Loopless(g) /\ t \in g.tasks
      /\ \A u \in g.tasks \ (g.dirty \cup toDrive) : Driven(g, u)
  BY DEF IInv, Sound, RInv, Base, Recompute, Closed
<1>1. g' = RecomputeCaches([g EXCEPT !.dirty = @ \ {t}], t)
  BY DEF Recompute
<1>2. <<t, t>> \notin g.edges
  <2>1. t \in Closure(g, t)
    BY <1>0, ClosureFacts
  <2>2. <<t, t>>[1] = t /\ <<t, t>>[2] = t
    OBVIOUS
  <2> QED
    BY <1>0, <2>1, <2>2 DEF Loopless
<1>3. /\ Tracked(g') /\ SameGround(g, g')
      /\ \A u \in g'.tasks \ (g'.dirty \cup {t}) : Driven(g, u) => Driven(g', u)
  BY <1>0, <1>1, <1>2, RecomputeTracks
<1>4. Sound(g')
  BY NextIInv DEF Next, Turn, IInv
<1>5. Loopless(g')
  <2>1. FewerEdges(g, g')
    BY <1>3 DEF SameGround, FewerEdges
  <2> QED
    BY <1>0, <1>4, <2>1, FewerLoopless DEF Sound
<1>6. ASSUME NEW u \in g'.tasks \ (g'.dirty \cup toDrive') PROVE Driven(g', u)
  <2>1. u # t /\ u \notin toDrive
    BY <1>6 DEF Recompute
  <2>2. u \notin g.dirty
    BY <1>0, <1>1, <1>6, <2>1 DEF RecomputeCaches, Enqueue, Graph
  <2> QED
    BY <1>0, <1>3, <2>1, <2>2 DEF SameGround
<1>7. Base(g', toDrive')
  BY <1>3, <1>5, <1>6 DEF Base
<1>8. Round'
  <2> SUFFICES ASSUME pc' = "drive"
               PROVE  g'.wanted = GraphWanted(g') /\ \A u \in g'.supported : ComputeSupported(g', u)
    BY DEF Round
  <2>1. g'.dirty = {}
    BY DEF Recompute
  <2>2. g'.wanted = GraphWanted(g')
    BY <1>3, <1>4, <1>5, <2>1, WantedRight
  <2> QED
    BY <1>3, <2>1, <2>2 DEF Tracked, Current
<1> QED
  BY <1>7, <1>8 DEF RInv, Recompute, Checked

\* A task is driven: it ends up queued again or where it should be, and the round's
\* decisions stand, since no supported task depends on one that is being moved.
LEMMA DriveRInv ==
  ASSUME IInv, RInv, NEW t \in Task, Drive(t)
  PROVE  RInv'
<1>0. /\ Sound(g) /\ g \in Graph /\ Base(g, toDrive) /\ t \in g.tasks
      /\ pc = "drive" /\ g' = DriveTask(g, t) /\ toDrive' = toDrive \ {t}
      /\ pc' \in {"drive", "settle"} /\ g.supported \subseteq Task
  BY DEF IInv, Sound, RInv, Drive, Graph
<1>1. /\ Path(g, g') /\ Beside(g, g', t)
      /\ g' = g \/ t \in g'.dirty
      /\ t \in g.supported /\ g.state[t] # "Idle" => g' = g
      /\ g' = g => Driven(g, t)
  BY <1>0, DriveTaskPath
<1>2. g' \in Graph
  BY <1>1 DEF Path, Keeps, Sound
<1>3. Base(g', toDrive)
  BY <1>0, <1>1, <1>2, FollowsBase DEF Path
<1>4. Base(g', toDrive')
  BY <1>0, <1>1, <1>3 DEF Base
<1>5. /\ g.wanted = GraphWanted(g)
      /\ \A u \in g.supported : ComputeSupported(g, u)
  BY <1>0 DEF RInv, Round
<1>6. GraphWanted(g') = g'.wanted
  BY <1>1, <1>5 DEF Beside, GraphWanted, WantedUp, Pinned, Dependents
<1>7. ASSUME NEW u \in g'.supported PROVE ComputeSupported(g', u)
  <2>1. CASE g' = g
    BY <1>5, <1>7, <2>1
  <2>2. CASE g' # g
    <3>1. /\ u \in g.supported /\ u \in g.wanted
          /\ \A d \in Deps(g, u) : d \in g.supported /\ Satisfied(g, d)
      BY <1>1, <1>5, <1>7 DEF Beside, ComputeSupported
    <3>2. t \in g.supported => ~Satisfied(g, t)
      BY <1>1, <2>2 DEF Satisfied, is_satisfied
    <3>3. \A d \in Deps(g, u) : d # t /\ d \in Task
      BY <3>1, <3>2 DEF Deps
    <3>4. \A d \in Deps(g, u) : Satisfied(g', d)
      BY <1>1, <3>1, <3>3 DEF Beside, Satisfied
    <3> QED
      BY <1>1, <3>1, <3>4 DEF Beside, ComputeSupported, Deps
  <2> QED
    BY <2>1, <2>2
<1> QED
  BY <1>0, <1>4, <1>6, <1>7 DEF RInv, Round, Checked

\* Every step of the loop keeps what the reconciler's promises rest on.
LEMMA NextRInv == IInv /\ RInv /\ [Next]_vars => RInv'
<1> SUFFICES ASSUME IInv, RInv, [Next]_vars PROVE RInv'
  OBVIOUS
<1>0. Sound(g) /\ g \in Graph /\ Base(g, toDrive)
  BY DEF IInv, Sound, RInv
<1>1. ASSUME Base(g, toDrive)', pc' = "settle" PROVE RInv'
  BY <1>1 DEF RInv, Checked, Round
<1>2. ASSUME NEW t \in fresh, NEW def \in Def[t], RecvRegister(t, def) PROVE RInv'
  BY <1>1, <1>2, MessageRInv DEF RecvRegister
<1>3. ASSUME NEW verb \in VerbSet, NEW S \in Selection, RecvAct(verb, S) PROVE RInv'
  <2>1. /\ g' = g /\ toDrive' = toDrive /\ pc' \in {"settle", "dispatch"}
        /\ pc' = "dispatch" => apply' = [verb |-> verb] /\ verb # "Update"
    BY <1>3, KernelAssumption DEF RecvAct, BeginDispatch, Verb
  <2> QED
    BY <1>0, <2>1 DEF RInv, Checked, Round
<1>4. ASSUME NEW S \in Selection, NEW def \in UNION {Def[t] : t \in S}, RecvUpdate(S, def)
      PROVE  RInv'
  <2>1. g' = g /\ toDrive' = toDrive /\ pc' \in {"settle", "dispatch"}
    BY <1>4 DEF RecvUpdate, BeginDispatch
  <2> DEFINE T == IF UpdateAccepted(S \cap g.tasks, def) THEN S \cap g.tasks ELSE {}
             what == [verb |-> "Update", def |-> def]
  <2>2. \A t \in T, d \in def.deps : t \notin Closure(g, d)
    BY DEF UpdateAccepted, Requires
  <2>3. BeginDispatch(T, what) /\ what.def = def
    BY <1>4 DEF RecvUpdate
  <2> HIDE DEF T, what
  <2>4. pc' = "dispatch" => todo' = T /\ apply' = what
    BY <2>3 DEF BeginDispatch
  <2>5. Checked'
    BY <2>1, <2>2, <2>3, <2>4 DEF Checked
  <2> QED
    BY <1>0, <2>1, <2>5 DEF RInv, Round
<1>5. CASE RecvQuit
  <2>1. Base(g, toDrive)'
    BY <1>5, MessageRInv DEF RecvQuit, UserCommand
  <2>2. pc' \in {"settle", "exited"}
    BY <1>5 DEF RecvQuit
  <2> QED
    BY <2>1, <2>2 DEF RInv, Checked, Round
<1>6. ASSUME NEW t \in Task, NEW report \in Report, RecvReport(t, report) PROVE RInv'
  BY <1>1, <1>6, MessageRInv DEF RecvReport
<1>7. ASSUME NEW t \in Task, RecvTimeout(t) PROVE RInv'
  BY <1>1, <1>7, MessageRInv DEF RecvTimeout
<1>8. ASSUME NEW t \in Mortal, HandlerEnds(t) PROVE RInv'
  <2>1. /\ g' \in Graph /\ SameSight(g, g') /\ g'.dirty = g.dirty
        /\ UNCHANGED <<pc, todo, apply, toDrive>>
    <3>1. t \in Task
      BY KernelAssumption
    <3> QED
      BY <1>0, <1>8, <3>1, SMTT(30) DEF HandlerEnds, Graph, SameSight
  <2>2. Base(g', toDrive)
    BY <1>0, <2>1, SameSightFollows, FollowsBase
  <2>3. \A u : Closure(g', u) = Closure(g, u)
    BY <2>1 DEF Closure, SameSight
  <2>4. Checked'
    BY <2>1, <2>3 DEF RInv, Checked
  <2>5. Round'
    BY <2>1 DEF RInv, Round, SameSight, GraphWanted, WantedUp, Pinned, Dependents,
                ComputeSupported, Deps, Satisfied
  <2> QED
    BY <2>1, <2>2, <2>4, <2>5 DEF RInv
<1>9. ASSUME NEW t \in Task, ActOn(t) PROVE RInv'
  BY <1>9, ActOnRInv
<1>10. ASSUME NEW t \in Task, ApplyEffect(t) PROVE RInv'
  <2> DEFINE k == [g EXCEPT !.effects = @ \ {t}]
  <2>1. /\ k \in Graph /\ SameSight(g, k) /\ k.dirty = g.dirty
        /\ k.savedPin \subseteq g.savedPin
    BY <1>0 DEF Graph, SameSight
  <2>2. g' = OnTaskStopped(k, t, "err") /\ "err" \in ExitInfo
    BY <1>10 DEF ApplyEffect, ExitInfo
  <2> HIDE DEF k
  <2>3. Path(g, k)
    BY <1>0, <2>1, SightPath
  <2>4. Path(g, g')
    BY <2>2, <2>3, ReportsPath, PathTwice DEF Path, Keeps
  <2>5. Base(g', toDrive)
    BY <1>0, <2>4, FollowsBase DEF Path, Keeps, Sound
  <2> QED
    BY <1>1, <1>10, <2>5 DEF ApplyEffect
<1>11. ASSUME NEW t \in Task, Recompute(t) PROVE RInv'
  BY <1>11, RecomputeRInv
<1>12. ASSUME NEW t \in Task, Drive(t) PROVE RInv'
  BY <1>12, DriveRInv
<1>13. CASE Settled
  BY <1>0, <1>13 DEF Settled, RInv, Checked, Round
<1>14. CASE UNCHANGED vars
  BY <1>14 DEF vars, RInv, Checked, Round
<1> QED
  BY <1>2, <1>3, <1>4, <1>5, <1>6, <1>7, <1>8, <1>9, <1>10, <1>11, <1>12, <1>13, <1>14
  DEF Next, Message, Turn, Stand

\* So it holds throughout, beside the rest.
LEMMA ReconcileInvariance == Spec => [](IInv /\ RInv)
<1>1. IInv /\ RInv /\ [Next]_vars => RInv'
  BY NextRInv
<1> QED
  BY <1>1, InitRInv, Invariance, PTL DEF Spec

\* The kernel reconciles: though it looks only at the tasks that are queued, whoever
\* has to be looked at again is queued (set_state, add_edge, remove_edge, the verbs,
\* recompute_caches), no accepted registration or update closes a loop, and whenever
\* the loop takes a message its caches are what the whole graph says
\* (debug_check_invariants) and every task is where it should be.
THEOREM KernelReconciles == Spec => []Reconciled
<1>1. IInv /\ RInv => Reconciled
  <2> SUFFICES ASSUME IInv, RInv PROVE Reconciled
    OBVIOUS
  <2>1. Sound(g) /\ Tracked(g) /\ Loopless(g) /\ g.tasks \subseteq Task
    BY DEF IInv, RInv, Base, Sound, Graph
  <2>2. DirtyTracked
    BY <2>1 DEF DirtyTracked, Tracked, Current
  <2>3. Acyclic
    BY <2>1 DEF Acyclic, Loopless
  <2>4. CachesMatchOracle
    BY <2>1, WantedRight, SupportedRight, Oracles DEF CachesMatchOracle, RInv
  <2>5. ASSUME pc = "recv", NEW t \in g.tasks
        PROVE  /\ t \in g.supported => g.state[t] # "Idle"
               /\ t \notin g.supported =>
                    /\ g.state[t] # "Backoff"
                    /\ g.state[t] \in Up => ActiveDependents(g, t) # {}
    <3>1. Driven(g, t)
      BY <2>5 DEF IInv, RInv, Base
    <3>2. ActiveDependents(g, t) = {} => g.activeDependents[t] = 0
      BY <2>1, FS_EmptySet DEF Sound, Counted
    <3> QED
      BY <3>1, <3>2 DEF Driven
  <2> QED
    BY <2>2, <2>3, <2>4, <2>5 DEF Reconciled, SettledIsDriven
<1> QED
  BY <1>1, ReconcileInvariance, PTL

\* Dependencies first: at the step that starts a task (drive_task), it is wanted and
\* each of its deps is satisfied and wanted, by the whole graph and not by caches that
\* the driving of other tasks has made stale.
THEOREM DependenciesFirst == Spec => StartsAfterDeps
<1>1. IInv /\ Marks(g) /\ RInv /\ [Next]_vars =>
        [\A t \in g.tasks :
           g.state[t] = "Idle" /\ g'.state[t] = "Starting" =>
             /\ t \in OracleWanted
             /\ \A d \in Deps(g, t) : Satisfied(g, d) /\ d \in OracleWanted]_g
  <2> SUFFICES ASSUME IInv, Marks(g), RInv, [Next]_vars, NEW t \in g.tasks,
                      g.state[t] = "Idle", g'.state[t] = "Starting"
               PROVE  /\ t \in OracleWanted
                      /\ \A d \in Deps(g, t) : Satisfied(g, d) /\ d \in OracleWanted
    OBVIOUS
  <2>1. Sound(g) /\ t \in Task
    BY DEF IInv, Sound, Graph
  <2>2. Sound(g')
    BY NextIInv DEF IInv
  <2>3. t \in g'.tasks
    <3>1. \A u \in Task \ g'.tasks : ~Active(g', u)
      BY <2>2 DEF Sound, Clean
    <3> QED
      BY <2>1, <3>1 DEF Active, is_active, Up
  <2>4. ~Fine(g, g')
    BY <2>1, <2>3 DEF Fine, Move
  <2>5. PICK u \in Task : DriveStarts(u)
    BY <2>4, NextFine
  <2>6. u = t
    BY <2>1, <2>5 DEF DriveStarts, Starts, OnlyAt, SameRun
  <2>7. pc = "drive" /\ t \in g.supported
    BY <2>5, <2>6 DEF DriveStarts, Drive
  <2>8. OracleWanted = g.wanted /\ \A v \in g.supported : ComputeSupported(g, v)
    BY <2>7, Oracles DEF RInv, Round
  <2> QED
    BY <2>7, <2>8 DEF ComputeSupported
<1> QED
  BY <1>1, MarksInvariance, ReconcileInvariance, PTL DEF Spec, StartsAfterDeps
=============================================================================
