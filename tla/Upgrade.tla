------------------------------- MODULE Upgrade -------------------------------
(***************************************************************************)
(* A live upgrade (upgrade/mod.rs): the connections are frozen, then the   *)
(* reaper is paused, then the kernel and its tasks are frozen; what they   *)
(* gave goes into a snapshot, and the process becomes the new binary,      *)
(* which takes everything over from it (upgrade/resume.rs).  Every step    *)
(* may fail, which thaws what was frozen.                                  *)
(*                                                                         *)
(* Connections has the clients and Reaper the tasks and their children.    *)
(* The kernel's own side of a freeze is in Freeze.                         *)
(***************************************************************************)
EXTENDS Connections, Reaper

\* Who there may be, and bounds on the model: what the clients ask for, the
\* upgrades that get past the flag, and the processes started.
CONSTANT Populations

Population == [clients : SUBSET Client, tasks : SUBSET Task,
               kinds : SUBSET {"call", "quit", "wait", "upgrade"},
               requests : Nat, attempts : Nat, runs : Nat]

Other == "other"  \* a requester that is not among the clients

ASSUME UpgradeAssumption ==
  IsFiniteSet(Populations) /\ Populations \subseteq Population /\ Other \notin Client

VARIABLES
  here,  \* the population
  up     \* the upgrade under way

vars == <<conn, paused, kern, runner, procs, reaper, task, heard, here, up>>

NoUpgrade(n, images) ==
  [stage |-> "none", by |-> Other, n |-> n, asked |-> {}, images |-> images]

Init ==
  /\ here \in Populations
  /\ ConnectionsInit(here.clients)
  /\ ReaperInit(here.tasks)
  /\ up = NoUpgrade(0, 0)

-----------------------------------------------------------------------------
(* Who acts alone *)

ClientStep ==
  /\ \E c \in Client :
       \/ Connect(c) \/ HangUp(c) \/ Accept(c) \/ Serve(c) \/ SessionTimeout(c)
       \/ Verdict(c)
       \/ \E kind \in here.kinds : Asked < here.requests /\ AskFor(c, kind)
  /\ UNCHANGED <<procs, reaper, task, heard, here, up>>

RunnerStep ==
  /\ KernelEnds \/ ProcessEnds
  /\ UNCHANGED <<procs, reaper, task, heard, here, up>>

ReaperStep ==
  /\ Live
  /\ \/ \E p \in Pid : Exit(p) \/ Reap(p)
     \/ \E t \in Task : TaskStep(t) \/ Forget(t) \/ Kill(t)
     \/ Started < here.runs /\ \E t \in Task : \E kind \in {"child", "command"} : Fork(t, kind)
  /\ UNCHANGED <<conn, paused, kern, runner, here, up>>

Tasks == {t \in Task : task[t].step # "none"}

Tell(cmd) == [t \in Task |-> IF t \in Tasks THEN [task[t] EXCEPT !.cmds = Append(@, cmd)]
                             ELSE task[t]]

\* The kernel takes a message.  A freeze is refused while it quits.  Frozen, it
\* is asked for nothing but a thaw: what it defers then is in Freeze.
KernelTurn ==
  /\ Live
  /\ ~kern.over
  /\ kern.queue # <<>>
  /\ LET msg == Head(kern.queue)
         k == [kern EXCEPT !.queue = Tail(@)]
     IN \/ /\ kern.freeze = 0 /\ msg[1] \in {"call", "quit"}
           /\ kern' = [k EXCEPT !.quitting = @ \/ msg[1] = "quit"]
           /\ conn' = [conn EXCEPT ![msg[2]] = Replied(@, {msg[3]})]
           /\ UNCHANGED task
        \/ /\ kern.freeze = 0 /\ msg[1] = "wait"
           /\ \/ /\ kern' = [k EXCEPT !.waits = @ \cup {msg[2]}]
                 /\ conn' = [conn EXCEPT ![msg[2]].events = Append(@, "Set")]
              \/ /\ kern' = k
                 /\ conn' = [conn EXCEPT ![msg[2]].events = Append(@, "Nothing")]
           /\ UNCHANGED task
        \/ /\ msg[1] = "Freeze"
           /\ IF kern.quitting
              THEN kern' = k /\ UNCHANGED task
              ELSE kern' = [k EXCEPT !.freeze = msg[2]] /\ task' = Tell("Freeze")
           /\ UNCHANGED conn
        \/ /\ msg[1] = "Thaw"
           /\ kern' = [k EXCEPT !.freeze = 0]
           /\ task' = IF kern.freeze # 0 THEN Tell("Thaw") ELSE task
           /\ UNCHANGED conn
  /\ UNCHANGED <<paused, runner, procs, reaper, heard, here, up>>

-----------------------------------------------------------------------------
(* The upgrade *)

\* A request gets past the flag: accepting is paused, and each connection, of
\* which there will be no more, is asked to freeze ...
Start(by) ==
  /\ runner = "serving"
  /\ up.stage = "none" /\ up.n < here.attempts
  /\ up' = [up EXCEPT !.stage = "freezing", !.by = by, !.n = @ + 1,
                     !.asked = {c \in Client : Registered(c)}]
  /\ paused' = TRUE
  /\ conn' = [c \in Client |->
       [conn[c] EXCEPT !.ctl = IF Registered(c) THEN Append(@, <<"Freeze", up.n + 1>>) ELSE @,
                       !.attempt = IF c = by THEN "running" ELSE @]]
  /\ UNCHANGED <<kern, runner, procs, reaper, task, heard, here>>

StartFor(c) == conn[c].attempt = "spawned" /\ Start(c)

\* ... or is refused: an upgrade is under way, or its binary is no good, or
\* the lock files are gone.
RefuseUpgrade(c) ==
  /\ Live
  /\ conn[c].attempt = "spawned"
  /\ conn' = [conn EXCEPT ![c].attempt = "failed"]
  /\ UNCHANGED <<paused, kern, runner, procs, reaper, task, heard, here, up>>

HasReplied(c) == conn[c].reply.of = up.n

Settled(c) == HasReplied(c) \/ conn[c].at = "gone"

\* Each connection has answered or is gone: then the reaper is paused, and
\* the kernel asked.
FreezeKernel ==
  /\ Live
  /\ up.stage = "freezing"
  /\ \A c \in up.asked : Settled(c)
  /\ up' = [up EXCEPT !.stage = "kernel"]
  /\ reaper' = [reaper EXCEPT !.paused = TRUE]
  /\ kern' = Queue(kern, <<"Freeze", up.n>>)
  /\ UNCHANGED <<conn, paused, runner, procs, task, heard, here>>

\* Every task has answered the freeze this upgrade asked for.
KernelFrozen ==
  /\ up.stage = "kernel"
  /\ kern.freeze = up.n
  /\ \A t \in Tasks : task[t].frozen /\ task[t].cmds = <<>>

Carried == {c \in up.asked : HasReplied(c)}

\* Mutant: only connections that are in the snapshot are thawed.
ToThaw_carried == Carried

\* A connection may still have its freeze before it.
ToThaw == {c \in Client : Registered(c)}

\* thaw: the kernel, the reaper, the connections and the accept loop.
Fail ==
  /\ Live
  /\ up.stage \in {"freezing", "kernel"}
  /\ up' = NoUpgrade(up.n, up.images)
  /\ kern' = Queue(kern, <<"Thaw">>)
  /\ reaper' = resume(reaper)
  /\ paused' = FALSE
  /\ conn' = [c \in Client |->
       [conn[c] EXCEPT !.ctl = IF c \in ToThaw THEN Append(@, <<"Thaw">>) ELSE @,
                       !.attempt = IF c = up.by THEN "failed" ELSE @,
                       !.reply = NoReply]]
  /\ UNCHANGED <<runner, procs, task, heard, here>>

-----------------------------------------------------------------------------
(* The new image *)

\* A connection the snapshot carries: an upgrade it waited for has succeeded.
Resumed(c) ==
  LET s == conn[c].reply.what
  IN [Away EXCEPT !.at = IF s.kind = "Wait" THEN "resuming" ELSE "rpc",
                  !.hello = s.hello, !.sock = conn[c].sock, !.buf = s.buf,
                  !.out = IF s.upgrade # 0 THEN Append(s.out, <<"upgraded", s.upgrade>>)
                          ELSE s.out,
                  !.wait = s.wait, !.hung = conn[c].hung,
                  !.sent = conn[c].sent, !.got = conn[c].got, !.dropped = conn[c].dropped]

\* What the exec and the resume leave of a connection: the listener and its
\* backlog are inherited, and no fd the snapshot does not name.
AfterExec(c) ==
  CASE c \in Carried -> Resumed(c)
    [] Registered(c) /\ c \notin Carried -> Gone(conn[c])
    [] OTHER -> conn[c]

SetToMsgs(S) == SetToSeq({<<"wait", c, conn[c].reply.what.wait>> : c \in S})

\* The exec and the resume.  A descriptor of the snapshot that was closed
\* meanwhile fails the upgrade.
Exec ==
  /\ Live
  /\ KernelFrozen
  /\ \A c \in Carried : conn[c].at # "gone"
  /\ up' = NoUpgrade(up.n, up.images + 1)
  /\ conn' = [c \in Client |-> AfterExec(c)]
  /\ paused' = FALSE
  /\ kern' = [Fresh EXCEPT !.queue =
       SetToMsgs({c \in Carried : conn[c].reply.what.kind = "Wait"})]
  /\ reaper' = NewReaper
  /\ task' = [t \in Task |-> [task[t] EXCEPT !.frozen = FALSE, !.exits = <<>>,
                                             !.adopt = task[t].child # 0]]
  /\ UNCHANGED <<runner, procs, heard, here>>

\* The new image cannot take over: it kills every child whose exit is not
\* known, and ends.
ResumeFails ==
  /\ Live
  /\ KernelFrozen
  /\ \A c \in Carried : conn[c].at # "gone"
  /\ up' = NoUpgrade(up.n, up.images + 1)
  /\ runner' = "failed"
  /\ procs' = [p \in Pid |->
       IF \E t \in Task : task[t].child = p /\ ~task[t].exited
       THEN [procs[p] EXCEPT !.st = "zombie"] ELSE procs[p]]
  /\ conn' = [c \in Client |-> IF conn[c].at = "away" THEN Away ELSE Gone(conn[c])]
  /\ UNCHANGED <<paused, kern, reaper, task, heard, here>>

UpgradeStep == FreezeKernel \/ Fail \/ Exec \/ ResumeFails

Next ==
  \/ ClientStep \/ RunnerStep \/ ReaperStep \/ KernelTurn
  \/ \E c \in Client : StartFor(c) \/ RefuseUpgrade(c)
  \/ Start(Other)
  \/ UpgradeStep

Spec == Init /\ [][Next]_vars

\* Every loop takes the steps it can, every process's exit is reaped, clients
\* read what they are sent, and a kernel or a task that does not freeze runs
\* into FREEZE_TIMEOUT.  Connections need no timeout.
Fairness ==
  /\ \A c \in Client :
       /\ WF_vars((Accept(c) \/ Serve(c)) /\ UNCHANGED <<procs, reaper, task, heard, here, up>>)
       /\ WF_vars(StartFor(c) \/ RefuseUpgrade(c))
  /\ \A t \in Task : WF_vars(Live /\ TaskStep(t) /\ UNCHANGED <<conn, paused, kern, runner, here, up>>)
  /\ \A p \in Pid : WF_vars(Live /\ Reap(p) /\ UNCHANGED <<conn, paused, kern, runner, here, up>>)
  /\ WF_vars(RunnerStep)
  /\ WF_vars(KernelTurn)
  /\ WF_vars(FreezeKernel)
  /\ WF_vars(Exec \/ ResumeFails \/ (up.stage = "kernel" /\ Fail))

FairSpec == Spec /\ Fairness
=============================================================================
