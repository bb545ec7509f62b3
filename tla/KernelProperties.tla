-------------------------- MODULE KernelProperties --------------------------
(***************************************************************************)
(* What the kernel's graph promises, between any two of its steps and      *)
(* whenever it has settled.                                                *)
(***************************************************************************)
EXTENDS Kernel

\* Every variable has its type: what a handler leaves in the graph is a graph
\* again.
TypeOK ==
  /\ g \in Graph
  /\ pc \in {"recv", "dispatch", "settle", "propagate", "drive", "exited"}
  /\ todo \subseteq Task
  /\ apply \in {NoApply} \cup [verb : Verb]
                 \cup [verb : {"Update"}, def : TaskDef]
  /\ toDrive \subseteq Task
  /\ fresh \subseteq Task
  /\ cmds \in 0 .. MaxCmds

\* The requirers of t that are wanted (a pin counts as one), and the active
\* tasks that require it.
WantedParents(gr, t) ==
  {p \in Task \cup {Init0} : <<p, t>> \in gr.edges /\ ParentWanted(gr, p)}
ActiveDependents(gr, t) == {p \in Dependents(gr, t) : Active(gr, p)}

Counted(gr) ==
  \A t \in Task :
    /\ gr.wantedParents[t] = Cardinality(WantedParents(gr, t))
    /\ gr.activeDependents[t] = Cardinality(ActiveDependents(gr, t))

\* Counters: at every step, not only when settled, the two counters kept by
\* increments and decrements (add_edge, remove_edge, set_state, remove_task,
\* recompute_caches) are what a count over the edges gives; so no decrement
\* of these u32 ever goes below zero.
CountersExact == Counted(g)

Closed(gr) ==
  /\ \A e \in gr.edges : e[1] \in gr.tasks \cup {Init0} /\ e[2] \in gr.tasks
  /\ gr.dirty \subseteq gr.tasks

\* Every edge endpoint is a registered task, and a queued task too: what
\* drive_task and compute_wanted `expect` ("queued id live").
GraphClosed ==
  /\ Closed(g)
  /\ toDrive \subseteq g.tasks
  /\ todo \subseteq g.tasks

\* A task whose cached `wanted` or `supported` is not what its neighbours'
\* caches give is queued to be recomputed: set_state, the edge operations and
\* the verbs enqueue everyone their change may reach.
DirtyTracked ==
  \A t \in g.tasks \ g.dirty :
    /\ t \in g.wanted <=> ComputeWanted(g, t)
    /\ t \in g.supported <=> ComputeSupported(g, t)

\* No task requires itself through others, whatever registrations and
\* updates (of several tasks at once too) were accepted.
Acyclic == \A e \in g.edges : e[1] \notin Closure(g, e[2])

\* The oracle: reachable from a pin through tasks that are not vetoed.
OracleWanted ==
  IF g.quitting THEN {} ELSE
  {t \in g.tasks : \A S \in SUBSET g.tasks :
     (\A u \in g.tasks \ g.vetoed :
        (Pinned(g, u) \/ \E p \in Dependents(g, u) : p \in S) => u \in S) => t \in S}

\* The oracle: wanted, and all it needs wanted and satisfied.
OracleSupported ==
  {t \in g.tasks :
     /\ Closure(g, t) \subseteq OracleWanted
     /\ \A u \in Closure(g, t) \ {t} : Satisfied(g, u)}

\* When the kernel has settled, the caches it maintained step by step are
\* what the whole graph says (the code's debug_check_invariants).
CachesMatchOracle ==
  pc = "recv" => g.wanted = OracleWanted /\ g.supported = OracleSupported

\* When the kernel has settled, nothing it should move was left standing: a
\* supported task is not idle, and an unsupported one is up only while an
\* active dependent holds it.
SettledIsDriven ==
  pc = "recv" =>
    \A t \in g.tasks :
      /\ t \in g.supported => g.state[t] # "Idle"
      /\ t \notin g.supported =>
           /\ g.state[t] # "Backoff"
           /\ g.state[t] \in Up => ActiveDependents(g, t) # {}

\* The reconciler looks only at the tasks that are queued, and what it comes to is
\* what the whole graph says: whoever has to be looked at again is queued, and once
\* it has settled every cache is right and every task is where it should be.
Reconciled ==
  /\ DirtyTracked
  /\ Acyclic
  /\ CachesMatchOracle
  /\ SettledIsDriven

\* A timer is set exactly on the states that have one, so that no stop, no
\* restart delay and no ready check waits forever; the flags of a stop are
\* on a stop, and a given-up stop is remembered on an idle task only.
TimersExact ==
  \A t \in g.tasks :
    /\ t \in g.timed <=> timed_state(g.state[t], g.ready[t])
    /\ t \in g.killed => g.state[t] = "Stopping"
    /\ t \in g.startFailed => g.state[t] = "Stopping" /\ has_timeout(g.ready[t])
    /\ t \in g.stopTimedOut => g.state[t] = "Idle"

-----------------------------------------------------------------------------
(* What a step may never do *)

\* The state diagram of TaskState.
Legal(t, from, to) ==
  CASE from = "Idle"     -> to = "Starting"
    [] from = "Starting" -> to \in {"Running", "Ready", "Stopping"} \cup Ended
    [] from = "Running"  -> to \in {"Ready", "Stopping"} \cup Ended
    [] from = "Ready"    -> to \in {"Stopping"} \cup Ended
    [] from = "Stopping" -> IF t \in g.startFailed
                            THEN to \in {"Backoff", "Exited"} ELSE to = "Idle"
    [] from \in Ended    -> to = "Idle"

\* Every change of state is one of the diagram: a commanded stop lands in
\* Idle, only the stop of a failed start lands as a failed exit, nothing but
\* Idle starts (set_state is called from all over the graph).
LegalTransitions ==
  [][\A t \in g.tasks \cap g'.tasks :
       g.state[t] # g'.state[t] =>
         /\ Legal(t, g.state[t], g'.state[t])
         /\ g'.exit[t] = "ready_timeout" <=>
              (g.state[t] = "Stopping" /\ g'.state[t] \in Ended)]_g

\* Dependencies first: at the very step a task is started, it is wanted and
\* each of its deps is satisfied and wanted, though the round decided on
\* caches computed before it began to drive.
StartsAfterDeps ==
  [][\A t \in g.tasks :
       g.state[t] = "Idle" /\ g'.state[t] = "Starting" =>
         /\ t \in OracleWanted
         /\ \A d \in Deps(g, t) : Satisfied(g, d) /\ d \in OracleWanted]_g

\* Dependents first: the reconciler stops a task only when no task that
\* requires it is active.
StopsAfterDependents ==
  [][\A t \in g.tasks :
       pc = "drive" /\ g.state[t] \in Up /\ g'.state[t] = "Stopping" =>
         ActiveDependents(g, t) = {}]_g

-----------------------------------------------------------------------------
(* What must happen *)

\* Settling ends: the reconciler does not feed itself work forever.
SettleTerminates == (pc \in {"dispatch", "settle", "propagate", "drive"}) ~>
                    (pc \in {"recv", "exited"})

\* A quit ends, whatever the tasks do: one that ignores its stop and its
\* kill is given up on.
QuitTerminates == g.quitting ~> (pc = "exited")

\* Nothing the kernel has begun goes on forever: neither a message's settling nor
\* a quit.
Terminates == SettleTerminates /\ QuitTerminates
=============================================================================
