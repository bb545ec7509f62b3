-------------------------------- MODULE Waits --------------------------------
(***************************************************************************)
(* Waits and watches over the kernel's graph (kernel/kernel.rs, "Waits";   *)
(* dekit/wait.rs is the session that holds one).  A wait fixes a set of    *)
(* tasks and reports each change of where they stand until its verdict is  *)
(* in.  The kernel looks at it again only when its step raised the flag    *)
(* state_changed, which the graph's operations raise one by one.           *)
(*                                                                         *)
(* One wait and one watch of the kernel's lists: they do not touch each    *)
(* other.  Every step of Kernel is a step here.                            *)
(***************************************************************************)
EXTENDS Kernel

CONSTANT WaitConds   \* what the waits of this instance are for

ASSUME WaitAssumption == WaitConds \subseteq {"Ready", "Exit", "Down"}

VARIABLES
  changed,   \* Graph.state_changed
  wait,      \* the wait, or NoWait
  watch      \* what the watch on every task last reported: one is active or coming back

wvars == <<vars, changed, wait, watch>>

NoWait == [cond |-> "none"]

HasEnded(gr, t) == has_ended(gr.kind[t], gr.restart[t], gr.state[t], t \in gr.startFailed)

\* Mutant: a task that is wanted will run.
IsLiveWanted(gr, t) == t \in gr.wanted

\* Whether the kernel will run t, or keep it running, without anyone acting.
IsLive(gr, t) ==
  \E S \in SUBSET gr.tasks :
    /\ t \in S
    /\ \A u \in S :
         /\ u \in gr.wanted
         /\ ~HasEnded(gr, u)
         /\ \A d \in Deps(gr, u) : Satisfied(gr, d) \/ d \in S

\* How a task with no process that won't start again by itself ended.
EndedBadly(gr, t) ==
  \/ gr.state[t] \in {"Exited", "Backoff"} /\ ~success(gr.exit[t])
  \/ gr.state[t] = "Idle" /\ (t \in gr.stopTimedOut \/ t \in gr.wanted)

\* Where one task of a wait stands: wait_standing.
Standing(gr, cond, t) ==
  IF t \notin gr.tasks
  THEN [removed |-> TRUE, mark |-> IF cond = "Ready" THEN "Failed" ELSE "Met"]
  ELSE [removed |-> FALSE,
        mark |->
          CASE cond = "Ready" ->
                 IF Satisfied(gr, t) THEN "Met" ELSE IF IsLive(gr, t) THEN "Pending" ELSE "Failed"
            [] cond = "Exit" ->
                 IF Active(gr, t) \/ IsLive(gr, t) THEN "Pending"
                 ELSE IF EndedBadly(gr, t) THEN "Failed" ELSE "Met"
            [] cond = "Down" ->
                 IF IsLive(gr, t) THEN "Failed" ELSE IF Active(gr, t) THEN "Pending"
                 ELSE IF t \in gr.stopTimedOut THEN "Failed" ELSE "Met"]

\* wait_verdict: a failure ends a Ready or a Down wait at once.
Verdict(cond, marks) ==
  IF "Failed" \in marks /\ (cond # "Exit" \/ "Pending" \notin marks) THEN "Failed"
  ELSE IF "Pending" \in marks THEN "open" ELSE "Met"

\* A removed task keeps what it was last reported with.
Heard(gr, w, t) ==
  [standing |-> Standing(gr, w.cond, t),
   state |-> IF t \in gr.tasks THEN gr.state[t]
             ELSE IF t \in DOMAIN w.last THEN w.last[t].state ELSE "Idle"]

\* advance_wait: the set when it begins, then each task that changed.
AdvanceWait(gr, w) ==
  LET heard == [t \in w.ids |-> Heard(gr, w, t)] IN
  [w EXCEPT !.begun = TRUE, !.last = heard,
            !.verdict = Verdict(w.cond, {heard[t].standing.mark : t \in w.ids})]

Open(w) == w # NoWait /\ w.verdict = "open"

\* any_active on every task: one that waits to be restarted counts, it is coming back.
AnyActive(gr) == \E t \in gr.tasks : Active(gr, t) \/ gr.state[t] = "Backoff"

\* check_waits and check_active_watches, once the graph has settled.
CheckWaits ==
  /\ wait' = IF Open(wait) /\ (changed \/ ~wait.begun) THEN AdvanceWait(g, wait) ELSE wait
  /\ watch' = IF changed THEN AnyActive(g) ELSE watch
  /\ changed' = FALSE

\* Mutant: a task that is no longer wanted is no change of state.
RaisesByState ==
  \/ g'.tasks # g.tasks \/ g'.state # g.state \/ g'.edges # g.edges
  \/ ~(g'.stopTimedOut \subseteq g.stopTimedOut)
  \/ pc = "dispatch" /\ apply.verb = "Update"

\* What raises the flag: a task comes or goes, a state or an edge changes, a
\* task gets wanted or is no longer, a demand forgives a failed start, a stop is
\* given up on, and every update.
Raises ==
  \/ g'.tasks # g.tasks \/ g'.state # g.state \/ g'.edges # g.edges
  \/ g'.wanted # g.wanted
  \/ ~(g.startFailed \subseteq g'.startFailed)
  \/ ~(g'.stopTimedOut \subseteq g.stopTimedOut)
  \/ pc = "dispatch" /\ apply.verb = "Update"

NewWait(cond, S) == [cond |-> cond, ids |-> S, begun |-> FALSE, last |-> <<>>, verdict |-> "open"]

\* begin_wait on the matches of a selector; `wait '**'` asks after what should run.
RecvWait(cond, S) ==
  LET ids == S \cap g.tasks IN
  /\ UserCommand
  /\ ~Open(wait)
  /\ pc' = "settle"
  /\ wait' = NewWait(cond, IF cond = "Ready" /\ ids \cap g.wanted # {} THEN ids \cap g.wanted ELSE ids)
  /\ UNCHANGED <<g, todo, apply, toDrive, fresh, changed, watch>>

\* begin_wait on a verb: the verb acts, and the wait is on what it acted on.
\* Verb::wait_cond says what for.
RecvWaitAct(verb, S) ==
  LET cond == IF verb \in {"Stop", "Kill", "Veto"} THEN "Down" ELSE "Ready" IN
  /\ ~Open(wait)
  /\ cond \in WaitConds
  /\ RecvAct(verb, S)
  /\ wait' = NewWait(cond, todo')
  /\ UNCHANGED <<changed, watch>>

\* An upgrade: the session begins the wait again on the tasks that were not
\* removed (resume_wait_session).
CarryWait ==
  /\ UserCommand
  /\ Open(wait) /\ wait.begun
  /\ pc' = "settle"
  /\ wait' = NewWait(wait.cond, {t \in wait.ids : ~wait.last[t].standing.removed})
  /\ UNCHANGED <<g, todo, apply, toDrive, fresh, changed, watch>>

WInit ==
  /\ Init
  /\ changed = FALSE
  /\ wait = NoWait
  /\ watch = FALSE

GraphStep ==
  /\ \/ Message
     \/ \E t \in Mortal : HandlerEnds(t)
     \/ \E t \in Task : ActOn(t) \/ ApplyEffect(t) \/ Recompute(t) \/ Drive(t)
  /\ changed' = (changed \/ Raises)
  /\ UNCHANGED <<wait, watch>>

WNext ==
  \/ GraphStep
  \/ Settled /\ CheckWaits
  \/ \E S \in Selection, cond \in WaitConds : RecvWait(cond, S)
  \/ \E verb \in VerbSet, S \in Selection : RecvWaitAct(verb, S)
  \/ CarryWait
  \/ Stand /\ UNCHANGED <<changed, wait, watch>>

WSpec == WInit /\ [][WNext]_wvars

\* The kernel's own fairness: its steps here are steps of Waits.
WFairSpec == WSpec /\ Fairness
=============================================================================
