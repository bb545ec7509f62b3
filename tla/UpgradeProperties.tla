-------------------------- MODULE UpgradeProperties --------------------------
(***************************************************************************)
(* What holds of a runner, its clients and its children across upgrades    *)
(* that fail anywhere or succeed, and across its end.                      *)
(***************************************************************************)
EXTENDS Upgrade

Frames(c) == conn[c].got \o conn[c].out

IsAnswer(frame) == frame[1] \in {"answer", "error", "ok", "upgraded"}
IsLast(frame) == frame[1] \in {"done", "timeout", "bye"}

Answered(c, id) ==
  \E frame \in ToSet(conn[c].got) : IsAnswer(frame) /\ frame[2] = id

(* The state is of the shape the code gives it; a wait knows what was
   asked, an upgrade in flight is somewhere (dekit/server.rs, upgrade/mod.rs). *)
TypeOK ==
  /\ \A c \in Client :
       /\ conn[c].at \in {"away", "backlog", "rpc", "freezing", "drain", "asking", "resuming",
                          "session", "finish", "gone"}
       /\ conn[c].at \in {"drain", "asking", "resuming", "session"} => conn[c].wait \in 1 .. conn[c].sent
       /\ conn[c].running \subseteq 1 .. conn[c].sent
       /\ conn[c].upgrade # 0 <=> conn[c].attempt # "none"
  /\ kern.waits \subseteq Client
  /\ up.stage \in {"none", "freezing", "kernel"}
  /\ \A t \in Task : task[t].frozen \in BOOLEAN /\ task[t].child \in Pid \cup {0}
  /\ \A p \in Pid : reaper.listeners[p] \in 0 .. Started

(* dispatch_connection, carried, resume: however its connection is frozen,
   thawed and carried across, a request is answered once, and a session's
   verdict is the last its client hears. *)
AnsweredOnce ==
  TypeOK /\ \A c \in Client :
    LET frames == Frames(c)
    IN /\ \A i, j \in 1 .. Len(frames) :
            IsAnswer(frames[i]) /\ frames[i][2] = frames[j][2] /\ IsAnswer(frames[j]) => i = j
       /\ \A i \in 1 .. Len(frames) : IsLast(frames[i]) => i = Len(frames)

(* upgrade/mod.rs freeze, "stops everything the snapshot describes from
   changing": when the kernel has answered, the snapshot has every connection
   that is there, as it is, with no handler running, whatever happened while
   the others froze. *)
SnapshotStands ==
  Live /\ KernelFrozen =>
    \A c \in Client :
      Registered(c) /\ ~conn[c].hung =>
        /\ c \in Carried
        /\ conn[c].reply.what = carried(conn[c])
        /\ conn[c].running = {}

(* unix_processes_waiter.rs: the owner of a process is handed its exit and no
   other's, once, though pids are used again, commands are cut off by an
   upgrade, and a child may be reaped before it is registered or adopted. *)
OwnExit == \A n \in 1 .. Started : heard[n] \in {<<>>, <<n>>}

(* So is every signal: the kill of a child, and the kills of a resume that
   failed, reach no number whose process was reaped. *)
PidsApart ==
  [][/\ OwnExit'
     /\ \A p \in Pid : procs[p].st = "free" => procs'[p].st # "zombie"]_vars

(* close_all and the wait session's drain: a verdict that the kernel gave is
   written for its client though the runner is exiting.  Only a client that
   left, the end of the time to write, or a new image, which gives the verdict
   anew, loses it. *)
VerdictKept ==
  [][\A c \in Client :
       "Done" \in ToSet(conn[c].events) /\ "Done" \notin ToSet(conn'[c].events) =>
         \/ <<"done", conn[c].wait>> \in ToSet(Frames(c)')
         \/ conn[c].hung \/ runner' \in {"cut", "failed"} \/ up'.images # up.images]_vars

-----------------------------------------------------------------------------
(* What must happen.  A population asks, starts and upgrades so often only,
   so that each of these comes to stay. *)

(* Whatever a client that stays has asked is answered, by the image that took
   it or by the next, and nothing is left unwritten; but for an upgrade that is
   in flight when the client asks for a wait. *)
AllAnswered ==
  \A c \in Client :
    \/ conn[c].hung
    \/ /\ conn[c].out = <<>>
       /\ \A id \in 1 .. conn[c].sent : Answered(c, id) \/ conn[c].dropped = id

(* A failed upgrade leaves nothing frozen, and no client waiting at the door. *)
AllThawed ==
  /\ \A c \in Client : ~conn[c].frozen /\ conn[c].at # "backlog"
  /\ \A t \in Task : ~task[t].frozen
  /\ kern.freeze = 0

(* While the runner goes on, it comes to where every upgrade is over and its
   clients are served: the connections freeze by themselves, without the
   timeout (Connections::freeze_all, "a connection never waits on its client"),
   what an upgrade that failed froze is thawed, and what was asked meanwhile is
   answered. *)
GoesOn == []<>(Live => up.stage # "freezing" /\ AllThawed /\ AllAnswered)

(* The exit of a task's child reaches the task, whichever image reaps it. *)
ExitsReachTheirTask ==
  []<>(Live => \A t \in Task :
         task[t].child # 0 /\ ~task[t].exited =>
           \E p \in Pid : procs[p] = [st |-> "alive", run |-> task[t].run])
=============================================================================
