---------------------------- MODULE RunnerProofs ----------------------------
(***************************************************************************)
(* No two runners have one runtime directory, for any number of runners,   *)
(* clients, files and crashes; and what that is for: whoever looks for a   *)
(* serving runner finds it, and of the tasks of its user there is one      *)
(* copy.                                                                   *)
(*                                                                         *)
(* The argument: a runner that has the directory holds the lock of the     *)
(* very file the directory names as its liveness file, and a lock has one  *)
(* holder.  What keeps it so is that the name is only ever taken away by   *)
(* someone who holds that lock: the runner itself, or a cleanup that       *)
(* looked at the name after it got the lock.                               *)
(***************************************************************************)
EXTENDS RunnerProperties, TLAPS

\* The runner holds the lock of the liveness file it opened.
HoldsLive(r) == Owns(r) \/ run[r].pc \in {"check_lock", "check_live", "unlink_lock"}

\* A cleanup that holds the lock of the file it opened, and one that has seen
\* that the directory still names it.
CleanHolds(c) == cli[c].pc \in {"clean_check", "unlink", "unlink_lock", "unlink_live"}
HoldPC == {"clean_check", "unlink", "unlink_lock", "unlink_live"}
CleanNames(c) == cli[c].pc \in {"unlink", "unlink_lock", "unlink_live"}

\* The inductive invariant, while nobody takes the liveness file.
LiveGuarded ==
  /\ \A r \in Runners : HoldsLive(r) => run[r].live \in Inodes /\ flock[run[r].live] = r
  /\ \A r \in Runners : Owns(r) => dir.live = run[r].live
  /\ \A c \in Clients : CleanHolds(c) => cli[c].live \in Inodes /\ flock[cli[c].live] = c
  /\ \A c \in Clients : CleanNames(c) => dir.live = cli[c].live

\* No two runners have the directory.
Once == \A r, s \in Runners : Owns(r) /\ Owns(s) => r = s

-----------------------------------------------------------------------------
(* What the helpers leave *)

\* The program counters the actions of a runner name are ones it has.
LEMMA RunnerPCs ==
  /\ {"open", "lock", "open_live", "live", "check_lock", "check_live"} \subseteq RunnerPC
  /\ {"clear", "boot", "restored", "bound", "serving", "quitting"} \subseteq RunnerPC
  /\ {"unlink", "unlink_live", "unlink_lock"} \subseteq RunnerPC
  /\ {"off", "denied", "gave_up", "ended", "killed"} \subseteq RunnerPC
BY DEF RunnerPC

\* The program counters the actions of a client name are ones it has.
LEMMA ClientPCs ==
  /\ {"read", "probe", "probed", "decide"} \subseteq ClientPC
  /\ {"clean", "clean_lock", "clean_check"} \subseteq ClientPC
  /\ {"unlink", "unlink_lock", "unlink_live"} \subseteq ClientPC
  /\ {"connected", "done", "failed"} \subseteq ClientPC
BY DEF ClientPC

\* Each runner is a runner record.
LEMMA RunRec == ASSUME TypeOK PROVE \A r \in Runners : run[r] \in RunnerRec
BY DEF TypeOK

\* One more loss is within the bound.
LEMMA LosesType == ASSUME TypeOK, Loses PROVE losses' \in 0 .. MaxLosses
BY RunnerAssumption DEF Loses, TypeOK

\* A save leaves a saved file, or none, and counts what it loses.
LEMMA SaveType ==
  ASSUME TypeOK, NEW r \in Runners, SaveOnQuit(r)
  PROVE  saved' \in {"none", "all"} /\ losses' \in 0 .. MaxLosses
BY RunRec, LosesType DEF SaveOnQuit, RunnerRec, TypeOK

\* A sweep takes one file.
LEMMA SweepLeaves ==
  ASSUME TypeOK, NEW name \in Names, Sweep(name)
  PROVE  /\ dir' \in Dir /\ sweeps' \in [Names -> 0 .. MaxSweeps]
         /\ dir'[name] = None /\ sweeps'[name] = sweeps[name] + 1 /\ sweeps[name] \in Nat
         /\ \A n \in Names \ {name} : dir'[n] = dir[n] /\ sweeps'[n] = sweeps[n]
<1>1. sweeps[name] \in 0 .. MaxSweeps /\ sweeps[name] + 1 \in 0 .. MaxSweeps
  BY RunnerAssumption DEF Sweep, TypeOK
<1>2. /\ sweeps' \in [Names -> 0 .. MaxSweeps]
      /\ sweeps'[name] = sweeps[name] + 1
      /\ \A n \in Names \ {name} : sweeps'[n] = sweeps[n]
  BY <1>1 DEF Sweep, TypeOK
<1>3. name \in {"lock", "live", "record", "socket", "error"}
  BY DEF Names
<1>4. /\ dir' \in Dir /\ dir'[name] = None
      /\ \A n \in Names \ {name} : dir'[n] = dir[n]
  <2>1. dir' = [dir EXCEPT ![name] = None] /\ dir \in Dir
    BY DEF Sweep, TypeOK
  <2>2. CASE name = "lock"
    BY <2>1, <2>2 DEF Dir, Names
  <2>3. CASE name = "live"
    BY <2>1, <2>3 DEF Dir, Names
  <2>4. CASE name = "record"
    BY <2>1, <2>4 DEF Dir, Names
  <2>5. CASE name = "socket"
    BY <2>1, <2>5 DEF Dir, Names
  <2>6. CASE name = "error"
    BY <2>1, <2>6 DEF Dir, Names
  <2> QED
    BY <1>3, <2>2, <2>3, <2>4, <2>5, <2>6
<1> QED
  BY <1>1, <1>2, <1>4

\* Each client is a client record.
LEMMA CliRec == ASSUME TypeOK PROVE \A c \in Clients : cli[c] \in ClientRec
BY DEF TypeOK

\* Closing a process's descriptors keeps the table of locks one.
LEMMA ReleasedType ==
  ASSUME TypeOK, NEW p
  PROVE  Released(p) \in [Inodes -> Runners \cup Clients \cup {None}]
BY DEF Released, TypeOK

\* A runner that ended is a runner record.
LEMMA EndedType ==
  ASSUME TypeOK, NEW r \in Runners, NEW pc \in RunnerPC
  PROVE  Ended(r, pc) \in [Runners -> RunnerRec]
<1>1. [NewRunner EXCEPT !.pc = pc] \in RunnerRec
  BY RunnerAssumption DEF NewRunner, RunnerRec
<1>2. QED
  BY <1>1 DEF Ended, TypeOK

\* A runner that starts over stays within its attempts (lock_runner_paths).
LEMMA StartOverType ==
  ASSUME TypeOK, NEW r \in Runners, StartOver(r)
  PROVE  /\ run' \in [Runners -> RunnerRec]
         /\ flock' \in [Inodes -> Runners \cup Clients \cup {None}]
<1>1. run[r].tries \in 0 .. LockTries - 1
  BY RunRec DEF RunnerRec
<1>2. ASSUME run[r].tries + 1 # LockTries
      PROVE  [NewRunner EXCEPT !.pc = "open", !.tries = run[r].tries + 1] \in RunnerRec
  <2>1. run[r].tries + 1 \in 0 .. LockTries - 1
    BY <1>1, <1>2, RunnerAssumption
  <2>2. NewRunner \in RunnerRec
    BY RunnerAssumption, RunnerPCs DEF NewRunner, RunnerRec
  <2> QED
    BY <2>1, <2>2, RunnerPCs DEF RunnerRec
<1>3. QED
  BY <1>2, RunnerPCs, EndedType, ReleasedType DEF StartOver, TypeOK

\* A client that drops what a step answered is a client record.
LEMMA IdleType ==
  ASSUME TypeOK, NEW c \in Clients
  PROVE  Idle(c) \in ClientRec
<1>1. 0 \in 0 .. LockTries - 1
  BY RunnerAssumption
<1>2. QED
  BY <1>1, CliRec DEF Idle, ClientRec

\* Looking again (the next turn of a client's loop) keeps the clients' types.
LEMMA LooksType ==
  ASSUME TypeOK, NEW c \in Clients, NEW phase \in {"poll", "recheck", "first", "loop"},
         Looks(c, phase)
  PROVE  cli' \in [Clients -> ClientRec]
<1>1. [Idle(c) EXCEPT !.pc = "read", !.phase = phase] \in ClientRec
  BY IdleType, ClientPCs DEF ClientRec
<1>2. QED
  BY <1>1 DEF Looks, TypeOK

\* Beginning a cleanup keeps the clients' types.
LEMMA CleansType ==
  ASSUME TypeOK, NEW c \in Clients, NEW next \in {"recheck", "failed", "done"},
         Cleans(c, next)
  PROVE  cli' \in [Clients -> ClientRec]
<1>1. [Idle(c) EXCEPT !.pc = "clean", !.next = next] \in ClientRec
  BY IdleType, ClientPCs DEF ClientRec
<1>2. QED
  BY <1>1 DEF Cleans, TypeOK

\* Answering keeps the clients' types.
LEMMA FinishesType ==
  ASSUME TypeOK, NEW c \in Clients, NEW pc \in ClientPC, Finishes(c, pc)
  PROVE  cli' \in [Clients -> ClientRec]
<1>1. cli[c].op \in {"start", "stop"}
  BY CliRec DEF ClientRec
<1>2. 0 \in 0 .. LockTries - 1
  BY RunnerAssumption
<1>3. NewClient(cli[c].op) \in ClientRec
  BY <1>1, <1>2, ClientPCs DEF NewClient, ClientRec
<1>4. [NewClient(cli[c].op) EXCEPT !.pc = pc] \in ClientRec
  BY <1>3 DEF ClientRec
<1>5. QED
  BY <1>4 DEF Finishes, TypeOK

\* Returning from cleanup_paths keeps the clients' types.
LEMMA ReturnsType ==
  ASSUME TypeOK, NEW c \in Clients, CleanupReturns(c)
  PROVE  cli' \in [Clients -> ClientRec]
<1>1. cli[c].next \in {"recheck", "failed", "done"}
  BY CliRec DEF ClientRec
<1>2. QED
  BY <1>1, LooksType, FinishesType, ClientPCs DEF CleanupReturns

\* force_kill_runner names a runner or nobody.
LEMMA VictimType ==
  ASSUME TypeOK, NEW c \in Clients
  PROVE  Victim(c) \in Runners \cup {None}
BY CliRec DEF Victim, TypeOK, ClientRec, Dir

\* runner_state has five answers.
LEMMA StateType ==
  ASSUME TypeOK, NEW c \in Clients
  PROVE  State(c) \in {"ready", "stale", "starting", "absent", "failed"}
<1>1. cli[c].probe \in {"alive", "dead"}
  BY CliRec DEF ClientRec
<1>2. QED
  BY <1>1 DEF State

-----------------------------------------------------------------------------
(* Types *)

\* Every step keeps the types.
LEMMA TypeStep == ASSUME TypeOK, [Next]_vars PROVE TypeOK'
<1>1. ASSUME NEW r \in Runners, OpenLock(r) PROVE TypeOK'
  <2>1. PICK i \in Inodes :
          /\ run' = [run EXCEPT ![r].pc = "lock", ![r].lock = i]
          /\ dir' = [dir EXCEPT !.lock = i]
          /\ owner' = IF dir.lock = None THEN [owner EXCEPT ![i] = None] ELSE owner
    BY <1>1 DEF OpenLock
  <2>2. [run[r] EXCEPT !.pc = "lock", !.lock = i] \in RunnerRec
    BY RunRec, RunnerPCs DEF RunnerRec
  <2>3. run' \in [Runners -> RunnerRec] /\ dir' \in Dir
    BY <2>1, <2>2 DEF TypeOK, Dir
  <2>4. owner' \in [Inodes -> Runners \cup {None}]
    BY <2>1 DEF TypeOK
  <2> QED
    BY <2>1, <2>3, <2>4, <1>1 DEF OpenLock, TypeOK
<1>2. ASSUME NEW r \in Runners, AcquireLock(r) PROVE TypeOK'
  <2>1. CASE Unlocked(run[r].lock)
    <3>1. [run[r] EXCEPT !.pc = "open_live"] \in RunnerRec
      BY RunRec, RunnerPCs DEF RunnerRec
    <3>2. run' \in [Runners -> RunnerRec]
      BY <3>1, <1>2, <2>1 DEF AcquireLock, TypeOK
    <3> QED
      BY <3>2, <1>2, <2>1 DEF AcquireLock, TypeOK
  <2>2. CASE ~Unlocked(run[r].lock)
    BY <1>2, <2>2, EndedType, RunnerPCs DEF AcquireLock, TypeOK
  <2> QED
    BY <2>1, <2>2
<1>3. ASSUME NEW r \in Runners, OpenLive(r) PROVE TypeOK'
  <2>1. PICK i \in Inodes :
          /\ run' = [run EXCEPT ![r].pc = "live", ![r].live = i]
          /\ dir' = [dir EXCEPT !.live = i]
          /\ owner' = owner
    BY <1>3 DEF OpenLive
  <2>2. [run[r] EXCEPT !.pc = "live", !.live = i] \in RunnerRec
    BY RunRec, RunnerPCs DEF RunnerRec
  <2>3. run' \in [Runners -> RunnerRec] /\ dir' \in Dir
    BY <2>1, <2>2 DEF TypeOK, Dir
  <2>4. owner' \in [Inodes -> Runners \cup {None}]
    BY <2>1 DEF TypeOK
  <2> QED
    BY <2>1, <2>3, <2>4, <1>3 DEF OpenLive, TypeOK
<1>4. ASSUME NEW r \in Runners, AcquireLive(r) PROVE TypeOK'
  <2>1. [run[r] EXCEPT !.pc = "check_lock"] \in RunnerRec
    BY RunRec, RunnerPCs DEF RunnerRec
  <2>2. run' \in [Runners -> RunnerRec]
    BY <2>1, <1>4 DEF AcquireLive, TypeOK
  <2> QED
    BY <2>2, <1>4 DEF AcquireLive, TypeOK
<1>5. ASSUME NEW r \in Runners, CheckLock(r) PROVE TypeOK'
  <2>1. [run[r] EXCEPT !.pc = "check_live"] \in RunnerRec
    BY RunRec, RunnerPCs DEF RunnerRec
  <2>2. run' \in [Runners -> RunnerRec] /\ flock' \in [Inodes -> Runners \cup Clients \cup {None}]
    BY <2>1, <1>5, StartOverType DEF CheckLock, CheckFile, TypeOK
  <2> QED
    BY <2>2, <1>5 DEF CheckLock, CheckFile, TypeOK
<1>6. ASSUME NEW r \in Runners, CheckLive(r) PROVE TypeOK'
  <2>1. [run[r] EXCEPT !.pc = "clear"] \in RunnerRec
    BY RunRec, RunnerPCs DEF RunnerRec
  <2>2. run' \in [Runners -> RunnerRec] /\ flock' \in [Inodes -> Runners \cup Clients \cup {None}]
    BY <2>1, <1>6, StartOverType DEF CheckLive, CheckFile, TypeOK
  <2> QED
    BY <2>2, <1>6 DEF CheckLive, CheckFile, TypeOK
<1>7. ASSUME NEW r \in Runners, Clear(r) PROVE TypeOK'
  <2>0. 0 \in 0 .. LockTries - 1
    BY RunnerAssumption
  <2>1. [run[r] EXCEPT !.pc = "boot", !.tries = 0] \in RunnerRec
    BY <2>0, RunRec, RunnerPCs DEF RunnerRec
  <2>2. run' \in [Runners -> RunnerRec]
    BY <2>1, <1>7 DEF Clear, TypeOK
  <2>3. dir' \in Dir
    BY <1>7 DEF Clear, Dir, TypeOK
  <2>4. owner' \in [Inodes -> Runners \cup {None}]
    BY <1>7 DEF Clear, TypeOK
  <2> QED
    BY <2>2, <2>3, <2>4, <1>7 DEF Clear, TypeOK
<1>8. ASSUME NEW r \in Runners, Restore(r) PROVE TypeOK'
  <2>1. /\ [run[r] EXCEPT !.pc = "restored", !.tasks = saved] \in RunnerRec
        /\ [run[r] EXCEPT !.pc = "restored"] \in RunnerRec
    BY RunRec, RunnerPCs DEF RunnerRec, TypeOK
  <2>2. run' \in [Runners -> RunnerRec]
    BY <2>1, <1>8 DEF Restore, TypeOK
  <2>3. losses' \in 0 .. MaxLosses
    BY <1>8, LosesType DEF Restore, TypeOK
  <2> QED
    BY <2>2, <2>3, <1>8 DEF Restore, TypeOK
<1>9. ASSUME NEW r \in Runners, LoadFails(r) PROVE TypeOK'
  <2>1. [run[r] EXCEPT !.pc = "unlink"] \in RunnerRec
    BY RunRec, RunnerPCs DEF RunnerRec
  <2>2. run' \in [Runners -> RunnerRec]
    BY <2>1, <1>9 DEF LoadFails, RunnerStep, TypeOK
  <2>3. dir' \in Dir
    BY <1>9 DEF LoadFails, RunnerStep, Dir, TypeOK
  <2> QED
    BY <2>2, <2>3, <1>9 DEF LoadFails, RunnerStep, TypeOK
<1>10. ASSUME NEW r \in Runners, BootFails(r) PROVE TypeOK'
  <2>1. [run[r] EXCEPT !.pc = "unlink", !.tasks = "none"] \in RunnerRec
    BY RunRec, RunnerPCs DEF RunnerRec
  <2>2. run' \in [Runners -> RunnerRec]
    BY <2>1, <1>10 DEF BootFails, TypeOK
  <2>3. dir' \in Dir
    BY <1>10 DEF BootFails, Dir, TypeOK
  <2>5. saved' \in {"none", "all"} /\ losses' \in 0 .. MaxLosses
    BY SaveType, <1>10 DEF BootFails
  <2> QED
    BY <2>2, <2>3, <2>5, <1>10 DEF BootFails, TypeOK
<1>11. ASSUME NEW r \in Runners, Bind(r) PROVE TypeOK'
  <2>1. [run[r] EXCEPT !.pc = "bound"] \in RunnerRec
    BY RunRec, RunnerPCs DEF RunnerRec
  <2>2. run' \in [Runners -> RunnerRec]
    BY <2>1, <1>11 DEF Bind, RunnerStep, TypeOK
  <2>3. dir' \in Dir
    BY <1>11 DEF Bind, RunnerStep, Dir, TypeOK
  <2> QED
    BY <2>2, <2>3, <1>11 DEF Bind, RunnerStep, TypeOK
<1>12. ASSUME NEW r \in Runners, Publish(r) PROVE TypeOK'
  <2>1. [run[r] EXCEPT !.pc = "serving"] \in RunnerRec
    BY RunRec, RunnerPCs DEF RunnerRec
  <2>2. run' \in [Runners -> RunnerRec]
    BY <2>1, <1>12 DEF Publish, RunnerStep, TypeOK
  <2>3. dir' \in Dir
    BY <1>12 DEF Publish, RunnerStep, Dir, TypeOK
  <2> QED
    BY <2>2, <2>3, <1>12 DEF Publish, RunnerStep, TypeOK
<1>13. ASSUME NEW r \in Runners, QuitEnds(r) PROVE TypeOK'
  <2>1. [run[r] EXCEPT !.pc = "unlink", !.tasks = "none"] \in RunnerRec
    BY RunRec, RunnerPCs DEF RunnerRec
  <2>2. run' \in [Runners -> RunnerRec]
    BY <2>1, <1>13 DEF QuitEnds, TypeOK
  <2>5. saved' \in {"none", "all"} /\ losses' \in 0 .. MaxLosses
    BY SaveType, <1>13 DEF QuitEnds
  <2> QED
    BY <2>2, <2>5, <1>13 DEF QuitEnds, TypeOK
<1>14. ASSUME NEW r \in Runners, Unlink(r) PROVE TypeOK'
  <2>1. [run[r] EXCEPT !.pc = "unlink_live"] \in RunnerRec
    BY RunRec, RunnerPCs DEF RunnerRec
  <2>2. run' \in [Runners -> RunnerRec]
    BY <2>1, <1>14 DEF Unlink, RunnerStep, TypeOK
  <2>3. dir' \in Dir
    BY <1>14 DEF Unlink, RunnerStep, Dir, TypeOK
  <2> QED
    BY <2>2, <2>3, <1>14 DEF Unlink, RunnerStep, TypeOK
<1>15. ASSUME NEW r \in Runners, UnlinkLive(r) PROVE TypeOK'
  <2>1. [run[r] EXCEPT !.pc = "unlink_lock"] \in RunnerRec
    BY RunRec, RunnerPCs DEF RunnerRec
  <2>2. run' \in [Runners -> RunnerRec]
    BY <2>1, <1>15 DEF UnlinkLive, RunnerStep, TypeOK
  <2>3. dir' \in Dir
    BY <1>15 DEF UnlinkLive, RunnerStep, Dir, TypeOK
  <2> QED
    BY <2>2, <2>3, <1>15 DEF UnlinkLive, RunnerStep, TypeOK
<1>16. ASSUME NEW r \in Runners, AskQuit(r) PROVE TypeOK'
  <2>1. [run[r] EXCEPT !.pc = "quitting"] \in RunnerRec
    BY RunRec, RunnerPCs DEF RunnerRec
  <2>2. run' \in [Runners -> RunnerRec]
    BY <2>1, <1>16 DEF AskQuit, RunnerStep, TypeOK
  <2> QED
    BY <2>2, <1>16 DEF AskQuit, RunnerStep, TypeOK
<1>17. ASSUME NEW r \in Runners, UnlinkLock(r) PROVE TypeOK'
  <2>1. dir' \in Dir
    BY <1>17 DEF UnlinkLock, Dir, TypeOK
  <2> QED
    BY <1>17, <2>1, EndedType, ReleasedType, RunnerPCs DEF UnlinkLock, TypeOK
<1>18. ASSUME NEW r \in Runners, Refresh(r) PROVE TypeOK'
  BY <1>18 DEF Refresh, Dir, TypeOK
<1>19. ASSUME NEW r \in Runners, Crash(r) PROVE TypeOK'
  BY <1>19, EndedType, ReleasedType, RunnerPCs, RunnerAssumption DEF Crash, Die, TypeOK
<1>20. ASSUME NEW c \in Clients, ReadRecord(c) PROVE TypeOK'
  <2>1. dir.record \in Runners \cup {None}
    BY DEF TypeOK, Dir
  <2>2. [cli[c] EXCEPT !.pc = "probe", !.rec = dir.record] \in ClientRec
    <3>1. cli[c] \in ClientRec
      BY CliRec
    <3> QED
      BY <2>1, <3>1, ClientPCs DEF ClientRec
  <2> QED
    BY <2>2, <1>20 DEF ReadRecord, TypeOK
<1>21. ASSUME NEW c \in Clients, Probe(c) PROVE TypeOK'
  <2>1. dir.live \in Inodes \cup {None}
    BY DEF TypeOK, Dir
  <2>2. [cli[c] EXCEPT !.pc = "probed", !.live = dir.live] \in ClientRec
    <3>1. cli[c] \in ClientRec
      BY CliRec
    <3> QED
      BY <2>1, <3>1, ClientPCs DEF ClientRec
  <2>3. ASSUME NEW q \in {"dead", "alive"}
        PROVE  [cli[c] EXCEPT !.pc = "decide", !.probe = q] \in ClientRec
    BY CliRec, ClientPCs DEF ClientRec
  <2>4. cli' \in [Clients -> ClientRec]
    BY <2>2, <2>3, <1>21 DEF Probe, TypeOK
  <2> QED
    BY <2>1, <2>4, <1>21 DEF Probe, TypeOK
<1>22. ASSUME NEW c \in Clients, ProbeEnds(c) PROVE TypeOK'
  <2>1. [cli[c] EXCEPT !.pc = "decide", !.live = None, !.probe = "dead"] \in ClientRec
    BY CliRec, ClientPCs DEF ClientRec
  <2>2. cli' \in [Clients -> ClientRec]
    BY <2>1, <1>22 DEF ProbeEnds, TypeOK
  <2> QED
    BY <2>2, ReleasedType, <1>22 DEF ProbeEnds, TypeOK
<1>23. ASSUME NEW c \in Clients, PollReady(c) PROVE TypeOK'
  <2>1. cli' \in [Clients -> ClientRec]
    BY <1>23, LooksType, FinishesType, ClientPCs DEF PollReady
  <2> QED
    BY <2>1, <1>23 DEF PollReady, TypeOK
<1>24. ASSUME NEW c \in Clients, PollStarting(c) PROVE TypeOK'
  <2>1. cli' \in [Clients -> ClientRec]
    BY <1>24, LooksType DEF PollStarting
  <2> QED
    BY <2>1, <1>24 DEF PollStarting, TypeOK
<1>25. ASSUME NEW c \in Clients, PollGone(c) PROVE TypeOK'
  <2>1. cli' \in [Clients -> ClientRec]
    BY <1>25, LooksType, CleansType, FinishesType, ClientPCs DEF PollGone, At
  <2> QED
    BY <2>1, <1>25 DEF PollGone, TypeOK
<1>26. ASSUME NEW c \in Clients, StopFirst(c) PROVE TypeOK'
  <2>1. cli' \in [Clients -> ClientRec]
    BY <1>26, LooksType, CleansType, FinishesType, ClientPCs, StateType DEF StopFirst
  <2> QED
    BY <2>1, <1>26 DEF StopFirst, TypeOK
<1>27. ASSUME NEW c \in Clients, StopGone(c) PROVE TypeOK'
  <2>1. cli' \in [Clients -> ClientRec]
    BY <1>27, CleansType, FinishesType, ClientPCs DEF StopGone
  <2> QED
    BY <2>1, <1>27 DEF StopGone, TypeOK
<1>28. ASSUME NEW c \in Clients, StopStarting(c) PROVE TypeOK'
  <2>1. cli' \in [Clients -> ClientRec]
    BY <1>28, LooksType DEF StopStarting
  <2> QED
    BY <2>1, <1>28 DEF StopStarting, TypeOK
<1>29. ASSUME NEW c \in Clients, Deadline(c) PROVE TypeOK'
  <2>1. cli' \in [Clients -> ClientRec]
    BY <1>29, FinishesType, ClientPCs DEF Deadline
  <2> QED
    BY <2>1, <1>29 DEF Deadline, TypeOK
<1>30. ASSUME NEW c \in Clients, Recheck(c) PROVE TypeOK'
  <2>1. CASE State(c) \in {"ready", "starting"}
    BY <1>30, <2>1, LooksType DEF Recheck, TypeOK
  <2>2. CASE State(c) \notin {"ready", "starting"}
    <3>1. PICK r \in Runners :
            /\ run' = [run EXCEPT ![r] = [run[r] EXCEPT !.pc = "open"]]
            /\ cli' = [cli EXCEPT ![c] = [Idle(c) EXCEPT !.pc = "read", !.phase = "poll",
                                                         !.did = {"spawned"}]]
      BY <1>30, <2>2 DEF Recheck
    <3>2. [run[r] EXCEPT !.pc = "open"] \in RunnerRec
      BY RunRec, RunnerPCs DEF RunnerRec
    <3>3. [Idle(c) EXCEPT !.pc = "read", !.phase = "poll", !.did = {"spawned"}] \in ClientRec
      BY IdleType, ClientPCs DEF ClientRec
    <3>4. run' \in [Runners -> RunnerRec] /\ cli' \in [Clients -> ClientRec]
      BY <3>1, <3>2, <3>3 DEF TypeOK
    <3> QED
      BY <3>4, <1>30 DEF Recheck, TypeOK
  <2> QED
    BY <2>1, <2>2
<1>31. ASSUME NEW c \in Clients, StopReady(c) PROVE TypeOK'
  <2>1. ASSUME NEW r \in Runners
        PROVE  [run EXCEPT ![r].pc = "quitting"] \in [Runners -> RunnerRec]
    <3>1. [run[r] EXCEPT !.pc = "quitting"] \in RunnerRec
      BY RunRec, RunnerPCs DEF RunnerRec
    <3> QED
      BY <3>1 DEF TypeOK
  <2>2. dir.socket \in Runners \cup {None} /\ cli[c].rec \in Runners \cup {None}
    BY CliRec DEF TypeOK, Dir, ClientRec
  <2>3. [Idle(c) EXCEPT !.pc = "read", !.target = cli[c].rec] \in ClientRec
    BY <2>2, IdleType, ClientPCs DEF ClientRec
  <2>4. cli' \in [Clients -> ClientRec]
    BY <2>3, <1>31, LooksType, FinishesType, ClientPCs DEF StopReady, TypeOK
  <2>5. run' \in [Runners -> RunnerRec]
    BY <2>1, <2>2, <1>31 DEF StopReady, TypeOK
  <2> QED
    BY <2>4, <2>5, <1>31 DEF StopReady, TypeOK
<1>32. ASSUME NEW c \in Clients, ForceKill(c) PROVE TypeOK'
  <2>1. [Idle(c) EXCEPT !.pc = "read", !.did = {"killed"}] \in ClientRec
    BY IdleType, ClientPCs DEF ClientRec
  <2>2. cli' \in [Clients -> ClientRec]
    BY <2>1, <1>32, FinishesType, ClientPCs DEF ForceKill, TypeOK
  <2>3. Victim(c) \in Runners \cup {None}
    BY VictimType
  <2>4. run' \in [Runners -> RunnerRec] /\ flock' \in [Inodes -> Runners \cup Clients \cup {None}]
    BY <2>3, <1>32, EndedType, ReleasedType, RunnerPCs DEF ForceKill, Die, TypeOK
  <2> QED
    BY <2>2, <2>4, <1>32 DEF ForceKill, TypeOK
<1>33. ASSUME NEW c \in Clients, CleanOpen(c) PROVE TypeOK'
  <2>1. PICK i \in Inodes :
          /\ cli' = [cli EXCEPT ![c] = [cli[c] EXCEPT !.pc = "clean_lock", !.live = i]]
          /\ dir' = [dir EXCEPT !.live = i]
    BY <1>33 DEF CleanOpen
  <2>2. [cli[c] EXCEPT !.pc = "clean_lock", !.live = i] \in ClientRec
    BY CliRec, ClientPCs DEF ClientRec
  <2>3. dir' \in Dir /\ cli' \in [Clients -> ClientRec]
    BY <2>1, <2>2 DEF TypeOK, Dir
  <2> QED
    BY <2>3, <1>33 DEF CleanOpen, TypeOK
<1>34. ASSUME NEW c \in Clients, CleanLock(c) PROVE TypeOK'
  <2>1. [cli[c] EXCEPT !.pc = "clean_check"] \in ClientRec
    BY CliRec, ClientPCs DEF ClientRec
  <2>2. cli' \in [Clients -> ClientRec]
    BY <2>1, <1>34, ReturnsType DEF CleanLock, TypeOK
  <2> QED
    BY <2>2, <1>34 DEF CleanLock, TypeOK
<1>35. ASSUME NEW c \in Clients, CleanCheck(c) PROVE TypeOK'
  <2>1. [cli[c] EXCEPT !.pc = "unlink"] \in ClientRec
    BY CliRec, ClientPCs DEF ClientRec
  <2>2. ASSUME cli[c].tries + 1 # LockTries
        PROVE  [cli[c] EXCEPT !.pc = "clean", !.live = None, !.tries = cli[c].tries + 1] \in ClientRec
    <3>1. cli[c].tries \in 0 .. LockTries - 1
      BY CliRec DEF ClientRec
    <3>2. cli[c].tries + 1 \in 0 .. LockTries - 1
      BY <2>2, <3>1, RunnerAssumption
    <3> QED
      BY <3>2, CliRec, ClientPCs DEF ClientRec
  <2>3. cli' \in [Clients -> ClientRec]
    BY <2>1, <2>2, <1>35, FinishesType, ClientPCs DEF CleanCheck, TypeOK
  <2> QED
    BY <2>3, <1>35, ReleasedType DEF CleanCheck, TypeOK
<1>36. ASSUME NEW c \in Clients, CleanUnlink(c) PROVE TypeOK'
  <2>1. [cli[c] EXCEPT !.pc = "unlink_lock"] \in ClientRec
    BY CliRec, ClientPCs DEF ClientRec
  <2>2. dir' \in Dir
    BY <1>36 DEF CleanUnlink, Dir, TypeOK
  <2> QED
    BY <2>1, <2>2, <1>36 DEF CleanUnlink, ClientStep, TypeOK
<1>37. ASSUME NEW c \in Clients, CleanUnlinkLock(c) PROVE TypeOK'
  <2>1. [cli[c] EXCEPT !.pc = "unlink_live"] \in ClientRec
    BY CliRec, ClientPCs DEF ClientRec
  <2>2. dir' \in Dir
    BY <1>37 DEF CleanUnlinkLock, Dir, TypeOK
  <2> QED
    BY <2>1, <2>2, <1>37 DEF CleanUnlinkLock, ClientStep, TypeOK
<1>38. ASSUME NEW c \in Clients, CleanUnlinkLive(c) PROVE TypeOK'
  <2>1. dir' \in Dir
    BY <1>38 DEF CleanUnlinkLive, Dir, TypeOK
  <2> QED
    BY <2>1, <1>38, ReturnsType, ReleasedType DEF CleanUnlinkLive, TypeOK
<1>39. ASSUME NEW name \in Names, Sweep(name) PROVE TypeOK'
  BY <1>39, SweepLeaves DEF Sweep, TypeOK
<1>40. CASE UNCHANGED vars
  BY <1>40 DEF vars, TypeOK
<1> QED
  BY <1>1, <1>2, <1>3, <1>4, <1>5, <1>6, <1>7, <1>8, <1>9, <1>10, <1>11, <1>12, <1>13,
     <1>14, <1>15, <1>16, <1>17, <1>18, <1>19, <1>20, <1>21, <1>22, <1>23, <1>24, <1>25,
     <1>26, <1>27, <1>28, <1>29, <1>30, <1>31, <1>32, <1>33, <1>34, <1>35, <1>36, <1>37,
     <1>38, <1>39, <1>40 DEF Next, RunnerNext, ClientNext, Poll, Stop, Cleanup

-----------------------------------------------------------------------------
(* The liveness lock *)

\* Where a client that dropped its answers goes on.
LEMMA IdleFields ==
  ASSUME TypeOK, NEW c \in Clients, NEW ph, NEW nx
  PROVE  /\ [Idle(c) EXCEPT !.pc = "read", !.phase = ph].pc = "read"
         /\ [Idle(c) EXCEPT !.pc = "clean", !.next = nx].pc = "clean"
BY IdleType DEF ClientRec

\* A client that decides holds nothing afterwards.
LEMMA LooksLeaves ==
  ASSUME TypeOK, NEW c \in Clients, NEW ph, Looks(c, ph)
  PROVE  cli'[c].pc = "read" /\ \A d \in Clients \ {c} : cli'[d] = cli[d]
BY IdleFields DEF Looks, TypeOK

\* A client that begins a cleanup holds nothing yet.
LEMMA CleansLeaves ==
  ASSUME TypeOK, NEW c \in Clients, NEW nx, Cleans(c, nx)
  PROVE  cli'[c].pc = "clean" /\ \A d \in Clients \ {c} : cli'[d] = cli[d]
BY IdleFields DEF Cleans, TypeOK

\* A client that answers holds nothing afterwards.
LEMMA FinishesLeaves ==
  ASSUME TypeOK, NEW c \in Clients, NEW pc, Finishes(c, pc)
  PROVE  cli'[c].pc = pc /\ \A d \in Clients \ {c} : cli'[d] = cli[d]
<1>1. [NewClient(cli[c].op) EXCEPT !.pc = pc].pc = pc
  BY DEF NewClient
<1>2. QED
  BY <1>1 DEF Finishes, TypeOK

\* A client back from its cleanup holds nothing afterwards.
LEMMA ReturnsLeaves ==
  ASSUME TypeOK, NEW c \in Clients, CleanupReturns(c)
  PROVE  /\ cli'[c].pc \in {"read", "failed", "done"}
         /\ \A d \in Clients \ {c} : cli'[d] = cli[d]
<1>1. cli[c].next \in {"recheck", "failed", "done"}
  BY CliRec DEF ClientRec
<1>2. CASE cli[c].next = "recheck"
  BY <1>2, LooksLeaves DEF CleanupReturns
<1>3. CASE cli[c].next # "recheck"
  BY <1>1, <1>3, FinishesLeaves DEF CleanupReturns
<1>4. QED
  BY <1>2, <1>3

\* A step of a client that touches neither lock nor liveness name, and no runner
\* but to have it quit or started.
LEMMA ClientKeeps ==
  ASSUME TypeOK, LiveGuarded, NEW c \in Clients,
         cli'[c].pc \notin HoldPC, \A d \in Clients \ {c} : cli'[d] = cli[d],
         flock' = flock, dir'.live = dir.live,
         \A r \in Runners : (HoldsLive(r))' => HoldsLive(r) /\ run'[r].live = run[r].live,
         \A r \in Runners : (Owns(r))' => Owns(r)
  PROVE  LiveGuarded'
<1>1. \A d \in Clients : (CleanHolds(d))' => d # c
  BY DEF CleanHolds, HoldPC
<1>2. \A d \in Clients : (CleanNames(d))' => d # c
  BY DEF CleanNames, HoldPC
<1>3. \A d \in Clients \ {c} : /\ (CleanHolds(d))' <=> CleanHolds(d)
                               /\ (CleanNames(d))' <=> CleanNames(d)
  BY DEF CleanHolds, CleanNames
<1>4. \A r \in Runners : (Owns(r))' => run'[r].live = run[r].live
  BY DEF HoldsLive
<1>5. QED
  BY <1>1, <1>2, <1>3, <1>4 DEF LiveGuarded

\* A step of a runner that touches neither lock nor liveness name.
LEMMA RunnerKeeps ==
  ASSUME TypeOK, LiveGuarded, NEW r \in Runners, NEW x,
         run' = [run EXCEPT ![r] = x],
         cli' = cli, flock' = flock, dir'.live = dir.live,
         (HoldsLive(r))' => HoldsLive(r) /\ x.live = run[r].live,
         (Owns(r))' => Owns(r)
  PROVE  LiveGuarded'
<1>1. run'[r] = x /\ \A s \in Runners \ {r} : run'[s] = run[s]
  BY DEF TypeOK
<1>2. \A s \in Runners \ {r} : /\ (HoldsLive(s))' <=> HoldsLive(s)
                               /\ (Owns(s))' <=> Owns(s)
  BY <1>1 DEF HoldsLive, Owns
<1>3. (Owns(r))' => (HoldsLive(r))'
  BY DEF HoldsLive
<1>4. QED
  BY <1>1, <1>2, <1>3 DEF LiveGuarded, CleanHolds, CleanNames

\* A step of a client that lets go of its lock.
LEMMA ReleasesKeeps ==
  ASSUME TypeOK, LiveGuarded, NEW c \in Clients,
         cli'[c].pc \notin HoldPC, \A d \in Clients \ {c} : cli'[d] = cli[d],
         flock' = Released(c), dir' = dir, run' = run
  PROVE  LiveGuarded'
<1>1. \A i \in Inodes : flock[i] # c => flock'[i] = flock[i]
  BY DEF Released, TypeOK
<1>2. \A d \in Clients : /\ (CleanHolds(d))' => d # c /\ CleanHolds(d)
                         /\ (CleanNames(d))' => d # c /\ CleanNames(d)
  BY DEF CleanHolds, CleanNames, HoldPC
<1>3. \A r \in Runners : r # c /\ ((HoldsLive(r))' <=> HoldsLive(r)) /\ ((Owns(r))' <=> Owns(r))
  BY RunnerAssumption DEF HoldsLive, Owns
<1>4. QED
  BY <1>1, <1>2, <1>3 DEF LiveGuarded

\* A runner that ends, and lets go of its locks.
LEMMA EndsKeeps ==
  ASSUME TypeOK, LiveGuarded, NEW r \in Runners, NEW x,
         run' = [run EXCEPT ![r] = x], x.pc \in {"open", "denied", "gave_up", "ended", "killed"},
         cli' = cli, flock' = Released(r) \/ flock' = flock, dir'.live = dir.live
  PROVE  LiveGuarded'
<1>1. run'[r] = x /\ \A s \in Runners \ {r} : run'[s] = run[s]
  BY DEF TypeOK
<1>2. ~(HoldsLive(r))' /\ ~(Owns(r))'
  BY <1>1 DEF HoldsLive, Owns
<1>3. \A s \in Runners \ {r} : /\ (HoldsLive(s))' <=> HoldsLive(s)
                               /\ (Owns(s))' <=> Owns(s)
  BY <1>1 DEF HoldsLive, Owns
<1>4. \A i \in Inodes : flock[i] # r => flock'[i] = flock[i]
  BY DEF Released, TypeOK
<1>5. \A c \in Clients : c # r
  BY RunnerAssumption
<1>6. QED
  BY <1>1, <1>2, <1>3, <1>4, <1>5 DEF LiveGuarded, CleanHolds, CleanNames

\* Where a runner that ended stands.
LEMMA EndedPC ==
  ASSUME NEW r \in Runners, NEW pc
  PROVE  [NewRunner EXCEPT !.pc = pc].pc = pc
BY DEF NewRunner

\* A runner that lost its files to a sweep lets go of what it holds.
LEMMA StartOverKeeps ==
  ASSUME TypeOK, LiveGuarded, NEW r \in Runners, StartOver(r), cli' = cli, dir' = dir
  PROVE  LiveGuarded'
<1>1. CASE run[r].tries + 1 = LockTries
  BY <1>1, EndsKeeps, EndedPC DEF StartOver, Ended
<1>2. CASE run[r].tries + 1 # LockTries
  <2>1. [NewRunner EXCEPT !.pc = "open", !.tries = run[r].tries + 1].pc = "open"
    BY DEF NewRunner
  <2> QED
    BY <1>2, <2>1, EndsKeeps DEF StartOver
<1>3. QED
  BY <1>1, <1>2

\* A step that leaves the liveness file was taken while it was there.
LEMMA KeptBefore == ASSUME TypeOK, [Next]_vars, LiveKept' PROVE LiveKept
<1>1. ASSUME NEW name \in Names, Sweep(name) PROVE LiveKept
  <2>1. "live" \in Names
    BY DEF Names
  <2> QED
    BY <1>1, <2>1, SweepLeaves DEF LiveKept
<1>2. CASE \E r \in Runners : RunnerNext(r) \/ Refresh(r) \/ AskQuit(r) \/ Crash(r)
  BY <1>2 DEF LiveKept, RunnerNext, OpenLock, AcquireLock, OpenLive, AcquireLive, CheckLock,
     CheckLive, CheckFile, Clear, Restore, LoadFails, BootFails, Bind, Publish, QuitEnds,
     Unlink, UnlinkLive, UnlinkLock, Refresh, AskQuit, Crash
<1>3. CASE \E c \in Clients : ClientNext(c)
  BY <1>3 DEF LiveKept, ClientNext, Poll, Stop, Cleanup, ReadRecord, Probe, ProbeEnds,
     PollReady, PollStarting, PollGone, Recheck, StopFirst, StopGone, StopReady,
     StopStarting, ForceKill, Deadline, CleanOpen, CleanLock, CleanCheck, CleanUnlink,
     CleanUnlinkLock, CleanUnlinkLive
<1>4. CASE UNCHANGED vars
  BY <1>4 DEF vars, LiveKept
<1> QED
  BY <1>1, <1>2, <1>3, <1>4 DEF Next

\* Every step that leaves the liveness file keeps the inductive invariant.
LEMMA GuardStep ==
  ASSUME TypeOK, TypeOK', LiveGuarded, [Next]_vars, LiveKept'
  PROVE  LiveGuarded'
<1>1. ASSUME NEW r \in Runners, OpenLock(r) PROVE LiveGuarded'
  <2>1. PICK i \in Inodes :
          /\ run' = [run EXCEPT ![r].pc = "lock", ![r].lock = i]
          /\ dir' = [dir EXCEPT !.lock = i]
    BY <1>1, Zenon DEF OpenLock
  <2>2. [run[r] EXCEPT !.pc = "lock", !.lock = i].pc = "lock"
    BY RunRec DEF RunnerRec
  <2>3. run'[r].pc = "lock" /\ dir'.live = dir.live
    BY <2>1, <2>2 DEF TypeOK, Dir
  <2>4. ~(HoldsLive(r))' /\ ~(Owns(r))'
    BY <2>3 DEF HoldsLive, Owns
  <2> QED
    BY <2>1, <2>3, <2>4, <1>1, RunnerKeeps DEF OpenLock
<1>2. ASSUME NEW r \in Runners, AcquireLock(r) PROVE LiveGuarded'
  <2>1. CASE Unlocked(run[r].lock)
    <3>1. [run[r] EXCEPT !.pc = "open_live"].pc = "open_live"
      BY RunRec DEF RunnerRec
    <3>2. /\ run'[r].pc = "open_live" /\ \A s \in Runners \ {r} : run'[s] = run[s]
          /\ dir' = dir /\ cli' = cli
      BY <3>1, <1>2, <2>1 DEF AcquireLock, TypeOK
    <3>3. \A i \in Inodes : flock[i] # None => flock'[i] = flock[i]
      BY <1>2, <2>1 DEF AcquireLock, Unlocked, TypeOK
    <3>4. \A s \in Runners : /\ (HoldsLive(s))' => s # r /\ HoldsLive(s)
                             /\ (Owns(s))' => s # r /\ Owns(s)
      BY <3>2 DEF HoldsLive, Owns
    <3> QED
      BY <3>2, <3>3, <3>4, RunnerAssumption DEF LiveGuarded, CleanHolds, CleanNames
  <2>2. CASE ~Unlocked(run[r].lock)
    BY <1>2, <2>2, EndsKeeps, EndedPC DEF AcquireLock, Ended
  <2> QED
    BY <2>1, <2>2
<1>3. ASSUME NEW r \in Runners, OpenLive(r) PROVE LiveGuarded'
  <2>1. PICK i \in Inodes :
          /\ dir.live # None => i = dir.live
          /\ run' = [run EXCEPT ![r] = [run[r] EXCEPT !.pc = "live", !.live = i]]
          /\ dir' = [dir EXCEPT !.live = i]
    <3>1. PICK i \in Inodes : /\ Opens("live", i) /\ dir' = [dir EXCEPT !.live = i]
                             /\ run' = [run EXCEPT ![r].pc = "live", ![r].live = i]
      BY <1>3 DEF OpenLive
    <3>2. run' = [run EXCEPT ![r] = [run[r] EXCEPT !.pc = "live", !.live = i]]
      BY <3>1 DEF TypeOK
    <3>3. dir.live # None => i = dir.live
      BY <3>1 DEF Opens
    <3> QED
      BY <3>1, <3>2, <3>3
  <2>2. /\ [run[r] EXCEPT !.pc = "live", !.live = i].pc = "live"
        /\ [run[r] EXCEPT !.pc = "live", !.live = i].live = i
    BY RunRec DEF RunnerRec
  <2>3. /\ run'[r].pc = "live" /\ run'[r].live = i
        /\ \A s \in Runners \ {r} : run'[s] = run[s]
        /\ cli' = cli /\ flock' = flock
    BY <2>1, <2>2, <1>3 DEF OpenLive, TypeOK
  <2>4. dir.live # None => dir'.live = dir.live
    BY <2>1 DEF TypeOK, Dir
  <2>5. \A s \in Runners : /\ (HoldsLive(s))' => s # r /\ HoldsLive(s)
                           /\ (Owns(s))' => s # r /\ Owns(s)
    BY <2>3 DEF HoldsLive, Owns
  <2>6. \A s \in Runners : Owns(s) => dir.live # None
    BY RunnerAssumption DEF LiveGuarded, HoldsLive
  <2>7. \A c \in Clients : CleanNames(c) => dir.live # None
    BY RunnerAssumption DEF LiveGuarded, CleanHolds, CleanNames
  <2> QED
    BY <2>3, <2>4, <2>5, <2>6, <2>7 DEF LiveGuarded, CleanHolds, CleanNames
<1>4. ASSUME NEW r \in Runners, AcquireLive(r) PROVE LiveGuarded'
  <2>1. /\ [run[r] EXCEPT !.pc = "check_lock"].pc = "check_lock"
        /\ [run[r] EXCEPT !.pc = "check_lock"].live = run[r].live
    BY RunRec DEF RunnerRec
  <2>2. /\ run'[r].pc = "check_lock" /\ run'[r].live = run[r].live
        /\ \A s \in Runners \ {r} : run'[s] = run[s]
        /\ dir' = dir /\ cli' = cli
    BY <2>1, <1>4 DEF AcquireLive, TypeOK
  <2>3. run[r].live \in Inodes
    BY <1>4 DEF AcquireLive, Unlocked
  <2>4. flock'[run[r].live] = r /\ \A i \in Inodes : flock[i] # None => flock'[i] = flock[i]
    BY <2>3, <1>4 DEF AcquireLive, Unlocked, TypeOK
  <2>5. \A s \in Runners : /\ (HoldsLive(s))' => s = r \/ HoldsLive(s)
                           /\ (Owns(s))' => s # r /\ Owns(s)
    BY <2>2 DEF HoldsLive, Owns
  <2> QED
    BY <2>2, <2>3, <2>4, <2>5, RunnerAssumption DEF LiveGuarded, CleanHolds, CleanNames
<1>5. ASSUME NEW r \in Runners, CheckLock(r) PROVE LiveGuarded'
  <2>1. CASE dir.lock = run[r].lock
    <3>1. /\ [run[r] EXCEPT !.pc = "check_live"].pc = "check_live"
          /\ [run[r] EXCEPT !.pc = "check_live"].live = run[r].live
      BY RunRec DEF RunnerRec
    <3>2. HoldsLive(r) /\ run' = [run EXCEPT ![r] = [run[r] EXCEPT !.pc = "check_live"]] /\ dir' = dir /\ flock' = flock
      BY <1>5, <2>1 DEF CheckLock, CheckFile, HoldsLive
    <3>3. run'[r].pc = "check_live"
      BY <3>1, <3>2 DEF TypeOK
    <3> QED
      BY <3>1, <3>2, <3>3, <1>5, RunnerKeeps DEF CheckLock, CheckFile, Owns
  <2>2. CASE dir.lock # run[r].lock
    BY <2>2, <1>5, StartOverKeeps DEF CheckLock, CheckFile
  <2> QED
    BY <2>1, <2>2
<1>6. ASSUME NEW r \in Runners, CheckLive(r) PROVE LiveGuarded'
  <2>1. CASE dir.live = run[r].live
    <3>1. /\ [run[r] EXCEPT !.pc = "clear"].pc = "clear"
          /\ [run[r] EXCEPT !.pc = "clear"].live = run[r].live
      BY RunRec DEF RunnerRec
    <3>2. /\ HoldsLive(r) /\ dir' = dir /\ flock' = flock /\ cli' = cli
          /\ run' = [run EXCEPT ![r] = [run[r] EXCEPT !.pc = "clear"]]
      BY <1>6, <2>1 DEF CheckLive, CheckFile, HoldsLive
    <3>3. run'[r].live = run[r].live /\ \A s \in Runners \ {r} : run'[s] = run[s]
      BY <3>1, <3>2 DEF TypeOK
    <3>4. \A s \in Runners : (HoldsLive(s))' => HoldsLive(s)
      BY <3>2, <3>3 DEF HoldsLive, Owns
    <3>5. \A s \in Runners \ {r} : (Owns(s))' => Owns(s)
      BY <3>3 DEF Owns
    <3> QED
      BY <2>1, <3>2, <3>3, <3>4, <3>5 DEF LiveGuarded, CleanHolds, CleanNames
  <2>2. CASE dir.live # run[r].live
    BY <2>2, <1>6, StartOverKeeps DEF CheckLive, CheckFile
  <2> QED
    BY <2>1, <2>2
<1>7. ASSUME NEW r \in Runners, Clear(r) PROVE LiveGuarded'
  <2>1. /\ [run[r] EXCEPT !.pc = "boot", !.tries = 0].pc = "boot"
        /\ [run[r] EXCEPT !.pc = "boot", !.tries = 0].live = run[r].live
    BY RunRec DEF RunnerRec
  <2>2. HoldsLive(r) /\ Owns(r)
    BY <1>7 DEF Clear, HoldsLive, Owns
  <2>3. dir'.live = dir.live
    BY <1>7 DEF Clear, TypeOK, Dir
  <2> QED
    BY <2>1, <2>2, <2>3, <1>7, RunnerKeeps DEF Clear
<1>8. ASSUME NEW r \in Runners, Restore(r) PROVE LiveGuarded'
  <2>1. /\ [run[r] EXCEPT !.pc = "restored", !.tasks = saved].pc = "restored"
        /\ [run[r] EXCEPT !.pc = "restored", !.tasks = saved].live = run[r].live
        /\ [run[r] EXCEPT !.pc = "restored"].pc = "restored"
        /\ [run[r] EXCEPT !.pc = "restored"].live = run[r].live
    BY RunRec DEF RunnerRec
  <2>2. HoldsLive(r) /\ Owns(r)
    BY <1>8 DEF Restore, HoldsLive, Owns
  <2>3. dir'.live = dir.live
    BY <1>8 DEF Restore, TypeOK, Dir
  <2>4. CASE run' = [run EXCEPT ![r].pc = "restored", ![r].tasks = saved]
    BY <2>1, <2>2, <2>3, <2>4, <1>8, RunnerKeeps DEF Restore
  <2>5. CASE run' = [run EXCEPT ![r].pc = "restored"]
    BY <2>1, <2>2, <2>3, <2>5, <1>8, RunnerKeeps DEF Restore
  <2> QED
    BY <2>4, <2>5, <1>8 DEF Restore
<1>9. ASSUME NEW r \in Runners, LoadFails(r) PROVE LiveGuarded'
  <2>1. /\ [run[r] EXCEPT !.pc = "unlink"].pc = "unlink"
        /\ [run[r] EXCEPT !.pc = "unlink"].live = run[r].live
    BY RunRec DEF RunnerRec
  <2>2. HoldsLive(r) /\ Owns(r)
    BY <1>9 DEF LoadFails, RunnerStep, HoldsLive, Owns
  <2>3. dir'.live = dir.live
    BY <1>9 DEF LoadFails, RunnerStep, TypeOK, Dir
  <2> QED
    BY <2>1, <2>2, <2>3, <1>9, RunnerKeeps DEF LoadFails, RunnerStep
<1>10. ASSUME NEW r \in Runners, BootFails(r) PROVE LiveGuarded'
  <2>1. /\ [run[r] EXCEPT !.pc = "unlink", !.tasks = "none"].pc = "unlink"
        /\ [run[r] EXCEPT !.pc = "unlink", !.tasks = "none"].live = run[r].live
    BY RunRec DEF RunnerRec
  <2>2. HoldsLive(r) /\ Owns(r)
    BY <1>10 DEF BootFails, HoldsLive, Owns
  <2>3. dir'.live = dir.live
    BY <1>10 DEF BootFails, TypeOK, Dir
  <2> QED
    BY <2>1, <2>2, <2>3, <1>10, RunnerKeeps DEF BootFails
<1>11. ASSUME NEW r \in Runners, Bind(r) PROVE LiveGuarded'
  <2>1. /\ [run[r] EXCEPT !.pc = "bound"].pc = "bound"
        /\ [run[r] EXCEPT !.pc = "bound"].live = run[r].live
    BY RunRec DEF RunnerRec
  <2>2. HoldsLive(r) /\ Owns(r)
    BY <1>11 DEF Bind, RunnerStep, HoldsLive, Owns
  <2>3. dir'.live = dir.live
    BY <1>11 DEF Bind, RunnerStep, TypeOK, Dir
  <2> QED
    BY <2>1, <2>2, <2>3, <1>11, RunnerKeeps DEF Bind, RunnerStep
<1>12. ASSUME NEW r \in Runners, Publish(r) PROVE LiveGuarded'
  <2>1. /\ [run[r] EXCEPT !.pc = "serving"].pc = "serving"
        /\ [run[r] EXCEPT !.pc = "serving"].live = run[r].live
    BY RunRec DEF RunnerRec
  <2>2. HoldsLive(r) /\ Owns(r)
    BY <1>12 DEF Publish, RunnerStep, HoldsLive, Owns
  <2>3. dir'.live = dir.live
    BY <1>12 DEF Publish, RunnerStep, TypeOK, Dir
  <2> QED
    BY <2>1, <2>2, <2>3, <1>12, RunnerKeeps DEF Publish, RunnerStep
<1>13. ASSUME NEW r \in Runners, QuitEnds(r) PROVE LiveGuarded'
  <2>1. /\ [run[r] EXCEPT !.pc = "unlink", !.tasks = "none"].pc = "unlink"
        /\ [run[r] EXCEPT !.pc = "unlink", !.tasks = "none"].live = run[r].live
    BY RunRec DEF RunnerRec
  <2>2. HoldsLive(r) /\ Owns(r)
    BY <1>13 DEF QuitEnds, HoldsLive, Owns
  <2>3. dir'.live = dir.live
    BY <1>13 DEF QuitEnds, TypeOK, Dir
  <2> QED
    BY <2>1, <2>2, <2>3, <1>13, RunnerKeeps DEF QuitEnds
<1>14. ASSUME NEW r \in Runners, Unlink(r) PROVE LiveGuarded'
  <2>1. /\ [run[r] EXCEPT !.pc = "unlink_live"].pc = "unlink_live"
        /\ [run[r] EXCEPT !.pc = "unlink_live"].live = run[r].live
    BY RunRec DEF RunnerRec
  <2>2. HoldsLive(r) /\ Owns(r)
    BY <1>14 DEF Unlink, RunnerStep, HoldsLive, Owns
  <2>3. dir'.live = dir.live
    BY <1>14 DEF Unlink, RunnerStep, TypeOK, Dir
  <2> QED
    BY <2>1, <2>2, <2>3, <1>14, RunnerKeeps DEF Unlink, RunnerStep
<1>15. ASSUME NEW r \in Runners, UnlinkLive(r) PROVE LiveGuarded'
  <2>1. /\ [run[r] EXCEPT !.pc = "unlink_lock"].pc = "unlink_lock"
        /\ [run[r] EXCEPT !.pc = "unlink_lock"].live = run[r].live
    BY RunRec DEF RunnerRec
  <2>2. /\ run'[r].pc = "unlink_lock" /\ run'[r].live = run[r].live
        /\ \A s \in Runners \ {r} : run'[s] = run[s]
        /\ cli' = cli /\ flock' = flock
    BY <2>1, <1>15 DEF UnlinkLive, RunnerStep, TypeOK
  <2>3. HoldsLive(r) /\ Owns(r)
    BY <1>15 DEF UnlinkLive, RunnerStep, HoldsLive, Owns
  <2>4. \A s \in Runners : HoldsLive(s) /\ dir.live = run[s].live => s = r
    BY <2>3 DEF LiveGuarded
  <2>5. \A c \in Clients : ~CleanNames(c)
    BY <2>3, RunnerAssumption DEF LiveGuarded, CleanNames, CleanHolds
  <2>6. \A s \in Runners : (HoldsLive(s))' => HoldsLive(s)
    BY <2>2, <2>3 DEF HoldsLive, Owns
  <2>7. \A s \in Runners \ {r} : (Owns(s))' => Owns(s)
    BY <2>2 DEF Owns
  <2>8. \A s \in Runners : Owns(s) => s = r
    BY <2>4 DEF LiveGuarded, HoldsLive
  <2>9. ~(Owns(r))'
    BY <2>2 DEF Owns
  <2> QED
    BY <2>2, <2>5, <2>6, <2>7, <2>8, <2>9 DEF LiveGuarded, CleanHolds, CleanNames
<1>16. ASSUME NEW r \in Runners, AskQuit(r) PROVE LiveGuarded'
  <2>1. /\ [run[r] EXCEPT !.pc = "quitting"].pc = "quitting"
        /\ [run[r] EXCEPT !.pc = "quitting"].live = run[r].live
    BY RunRec DEF RunnerRec
  <2>2. HoldsLive(r) /\ Owns(r)
    BY <1>16 DEF AskQuit, RunnerStep, HoldsLive, Owns
  <2>3. dir'.live = dir.live
    BY <1>16 DEF AskQuit, RunnerStep, TypeOK, Dir
  <2> QED
    BY <2>1, <2>2, <2>3, <1>16, RunnerKeeps DEF AskQuit, RunnerStep
<1>17. ASSUME NEW r \in Runners, UnlinkLock(r) PROVE LiveGuarded'
  <2>1. dir'.live = dir.live
    BY <1>17 DEF UnlinkLock, TypeOK, Dir
  <2> QED
    BY <2>1, <1>17, EndsKeeps, EndedPC DEF UnlinkLock, Ended
<1>18. ASSUME NEW r \in Runners, Refresh(r) PROVE LiveGuarded'
  <2>1. dir'.live = dir.live
    BY <1>18 DEF Refresh, TypeOK, Dir
  <2> QED
    BY <2>1, <1>18 DEF Refresh, LiveGuarded, HoldsLive, Owns, CleanHolds, CleanNames
<1>19. ASSUME NEW r \in Runners, Crash(r) PROVE LiveGuarded'
  BY <1>19, EndsKeeps, EndedPC DEF Crash, Die, Ended
<1>20. ASSUME NEW c \in Clients, ReadRecord(c) PROVE LiveGuarded'
  <2>1. [cli[c] EXCEPT !.pc = "probe", !.rec = dir.record].pc = "probe"
    BY CliRec DEF ClientRec
  <2>2. cli'[c].pc = "probe" /\ \A d \in Clients \ {c} : cli'[d] = cli[d]
    BY <2>1, <1>20 DEF ReadRecord, TypeOK
  <2> QED
    BY <2>2, <1>20, ClientKeeps DEF ReadRecord, HoldPC, HoldsLive, Owns
<1>21. ASSUME NEW c \in Clients, Probe(c) PROVE LiveGuarded'
  <2>1. ASSUME NEW x, x \in {[cli[c] EXCEPT !.pc = "probed", !.live = dir.live],
                             [cli[c] EXCEPT !.pc = "decide", !.probe = "dead"],
                             [cli[c] EXCEPT !.pc = "decide", !.probe = "alive"]}
        PROVE  x.pc \in {"probed", "decide"}
    BY <2>1, CliRec DEF ClientRec
  <2>2. PICK x : cli' = [cli EXCEPT ![c] = x] /\ x.pc \in {"probed", "decide"}
    BY <2>1, <1>21 DEF Probe
  <2>4. cli'[c].pc \in {"probed", "decide"} /\ \A d \in Clients \ {c} : cli'[d] = cli[d]
    BY <2>2 DEF TypeOK
  <2>3. \A i \in Inodes : flock[i] # None => flock'[i] = flock[i]
    BY <1>21 DEF Probe, TypeOK
  <2> QED
    BY <2>3, <2>4, <1>21, RunnerAssumption
       DEF Probe, LiveGuarded, CleanHolds, CleanNames, HoldsLive, Owns
<1>22. ASSUME NEW c \in Clients, ProbeEnds(c) PROVE LiveGuarded'
  <2>1. [cli[c] EXCEPT !.pc = "decide", !.live = None, !.probe = "dead"].pc = "decide"
    BY CliRec DEF ClientRec
  <2>2. cli'[c].pc = "decide" /\ \A d \in Clients \ {c} : cli'[d] = cli[d]
    BY <2>1, <1>22 DEF ProbeEnds, TypeOK
  <2> QED
    BY <2>2, <1>22, ReleasesKeeps DEF ProbeEnds, HoldPC
<1>23. ASSUME NEW c \in Clients, PollReady(c) PROVE LiveGuarded'
  <2>1. cli'[c].pc \notin HoldPC /\ \A d \in Clients \ {c} : cli'[d] = cli[d]
    BY <1>23, LooksLeaves, FinishesLeaves DEF PollReady, HoldPC
  <2> QED
    BY <2>1, <1>23, ClientKeeps DEF PollReady, HoldsLive, Owns
<1>24. ASSUME NEW c \in Clients, PollStarting(c) PROVE LiveGuarded'
  <2>1. cli'[c].pc \notin HoldPC /\ \A d \in Clients \ {c} : cli'[d] = cli[d]
    BY <1>24, LooksLeaves DEF PollStarting, HoldPC
  <2> QED
    BY <2>1, <1>24, ClientKeeps DEF PollStarting, HoldsLive, Owns
<1>25. ASSUME NEW c \in Clients, PollGone(c) PROVE LiveGuarded'
  <2>1. cli'[c].pc \notin HoldPC /\ \A d \in Clients \ {c} : cli'[d] = cli[d]
    BY <1>25, LooksLeaves, CleansLeaves, FinishesLeaves DEF PollGone, HoldPC, At
  <2> QED
    BY <2>1, <1>25, ClientKeeps DEF PollGone, HoldsLive, Owns
<1>26. ASSUME NEW c \in Clients, StopFirst(c) PROVE LiveGuarded'
  <2>1. cli'[c].pc \notin HoldPC /\ \A d \in Clients \ {c} : cli'[d] = cli[d]
    BY <1>26, LooksLeaves, CleansLeaves, FinishesLeaves, StateType DEF StopFirst, HoldPC
  <2> QED
    BY <2>1, <1>26, ClientKeeps DEF StopFirst, HoldsLive, Owns
<1>27. ASSUME NEW c \in Clients, StopGone(c) PROVE LiveGuarded'
  <2>1. cli'[c].pc \notin HoldPC /\ \A d \in Clients \ {c} : cli'[d] = cli[d]
    BY <1>27, CleansLeaves, FinishesLeaves DEF StopGone, HoldPC
  <2> QED
    BY <2>1, <1>27, ClientKeeps DEF StopGone, HoldsLive, Owns
<1>28. ASSUME NEW c \in Clients, StopStarting(c) PROVE LiveGuarded'
  <2>1. cli'[c].pc \notin HoldPC /\ \A d \in Clients \ {c} : cli'[d] = cli[d]
    BY <1>28, LooksLeaves DEF StopStarting, HoldPC
  <2> QED
    BY <2>1, <1>28, ClientKeeps DEF StopStarting, HoldsLive, Owns
<1>29. ASSUME NEW c \in Clients, Deadline(c) PROVE LiveGuarded'
  <2>1. cli'[c].pc \notin HoldPC /\ \A d \in Clients \ {c} : cli'[d] = cli[d]
    BY <1>29, FinishesLeaves DEF Deadline, HoldPC
  <2> QED
    BY <2>1, <1>29, ClientKeeps DEF Deadline, HoldsLive, Owns
<1>30. ASSUME NEW c \in Clients, Recheck(c) PROVE LiveGuarded'
  <2>1. CASE State(c) \in {"ready", "starting"}
    <3>1. cli'[c].pc \notin HoldPC /\ \A d \in Clients \ {c} : cli'[d] = cli[d]
      BY <2>1, <1>30, LooksLeaves DEF Recheck, HoldPC
    <3> QED
      BY <2>1, <3>1, <1>30, ClientKeeps DEF Recheck, HoldsLive, Owns
  <2>2. CASE State(c) \notin {"ready", "starting"}
    <3>1. PICK r \in Runners :
            /\ run[r].pc = "off"
            /\ run' = [run EXCEPT ![r] = [run[r] EXCEPT !.pc = "open"]]
            /\ cli' = [cli EXCEPT ![c] = [Idle(c) EXCEPT !.pc = "read", !.phase = "poll",
                                                         !.did = {"spawned"}]]
      BY <1>30, <2>2 DEF Recheck
    <3>2. [run[r] EXCEPT !.pc = "open"].pc = "open"
      BY RunRec DEF RunnerRec
    <3>3. [Idle(c) EXCEPT !.pc = "read", !.phase = "poll", !.did = {"spawned"}].pc = "read"
      BY IdleType DEF ClientRec
    <3>4. /\ run'[r].pc = "open" /\ \A s \in Runners \ {r} : run'[s] = run[s]
          /\ cli'[c].pc = "read" /\ \A d \in Clients \ {c} : cli'[d] = cli[d]
      BY <3>1, <3>2, <3>3 DEF TypeOK
    <3> QED
      BY <3>1, <3>4, <1>30, ClientKeeps DEF Recheck, HoldPC, HoldsLive, Owns
  <2> QED
    BY <2>1, <2>2
<1>31. ASSUME NEW c \in Clients, StopReady(c) PROVE LiveGuarded'
  <2>1. [Idle(c) EXCEPT !.pc = "read", !.target = cli[c].rec].pc = "read"
    BY IdleType DEF ClientRec
  <2>2. cli'[c].pc \notin HoldPC /\ \A d \in Clients \ {c} : cli'[d] = cli[d]
    <3>1. CASE cli[c].target = None
      <4>1. cli' = [cli EXCEPT ![c] = [Idle(c) EXCEPT !.pc = "read", !.target = cli[c].rec]]
        BY <3>1, <1>31 DEF StopReady
      <4> QED
        BY <4>1, <2>1 DEF TypeOK, HoldPC
    <3>2. CASE cli[c].target # None
      BY <3>2, <1>31, LooksLeaves, FinishesLeaves DEF StopReady, HoldPC
    <3> QED
      BY <3>1, <3>2
  <2>3. ASSUME NEW r \in Runners, run[r].pc = "serving", run' = [run EXCEPT ![r].pc = "quitting"]
        PROVE  \A s \in Runners : /\ (HoldsLive(s))' => HoldsLive(s) /\ run'[s].live = run[s].live
                                  /\ (Owns(s))' => Owns(s)
    <3>1. /\ [run[r] EXCEPT !.pc = "quitting"].pc = "quitting"
          /\ [run[r] EXCEPT !.pc = "quitting"].live = run[r].live
      BY RunRec DEF RunnerRec
    <3>2. /\ run'[r].pc = "quitting" /\ run'[r].live = run[r].live
          /\ \A s \in Runners \ {r} : run'[s] = run[s]
      BY <2>3, <3>1 DEF TypeOK
    <3> QED
      BY <2>3, <3>2 DEF HoldsLive, Owns
  <2>4. dir.socket \in Runners \cup {None}
    BY DEF TypeOK, Dir
  <2>5. run' = run \/ \E r \in Runners : /\ run[r].pc = "serving"
                                         /\ run' = [run EXCEPT ![r].pc = "quitting"]
    BY <2>4, <1>31 DEF StopReady
  <2>6. \A s \in Runners : /\ (HoldsLive(s))' => HoldsLive(s) /\ run'[s].live = run[s].live
                           /\ (Owns(s))' => Owns(s)
    BY <2>3, <2>5 DEF HoldsLive, Owns
  <2> QED
    BY <2>2, <2>6, <1>31, ClientKeeps DEF StopReady
<1>32. ASSUME NEW c \in Clients, ForceKill(c) PROVE LiveGuarded'
  <2>1. [Idle(c) EXCEPT !.pc = "read", !.did = {"killed"}].pc = "read"
    BY IdleType DEF ClientRec
  <2>2. cli'[c].pc \notin HoldPC /\ \A d \in Clients \ {c} : cli'[d] = cli[d]
    <3>1. CASE Victim(c) = None
      BY <3>1, <1>32, FinishesLeaves DEF ForceKill, HoldPC
    <3>2. CASE Victim(c) # None
      <4>1. cli' = [cli EXCEPT ![c] = [Idle(c) EXCEPT !.pc = "read", !.did = {"killed"}]]
        BY <3>2, <1>32 DEF ForceKill
      <4> QED
        BY <4>1, <2>1 DEF TypeOK, HoldPC
    <3> QED
      BY <3>1, <3>2
  <2>3. CASE Victim(c) # None /\ Alive(Victim(c))
    <3>1. PICK r \in Runners : Die(r)
      BY <2>3, <1>32, VictimType DEF ForceKill
    <3>2. [NewRunner EXCEPT !.pc = "killed"].pc = "killed"
      BY DEF NewRunner
    <3>3. /\ run'[r].pc = "killed" /\ \A s \in Runners \ {r} : run'[s] = run[s]
          /\ \A i \in Inodes : flock[i] # r => flock'[i] = flock[i]
          /\ dir' = dir
      BY <3>1, <3>2, <1>32 DEF Die, Ended, Released, TypeOK, ForceKill
    <3>4. \A s \in Runners : /\ (HoldsLive(s))' => s # r /\ HoldsLive(s)
                             /\ (Owns(s))' => s # r /\ Owns(s)
      BY <3>3 DEF HoldsLive, Owns
    <3>5. \A d \in Clients : /\ (CleanHolds(d))' => d # c /\ CleanHolds(d)
                             /\ (CleanNames(d))' => d # c /\ CleanNames(d)
      BY <2>2 DEF CleanHolds, CleanNames, HoldPC
    <3>6. \A d \in Clients : d # r
      BY RunnerAssumption
    <3> QED
      BY <2>2, <3>3, <3>4, <3>5, <3>6 DEF LiveGuarded
  <2>4. CASE ~(Victim(c) # None /\ Alive(Victim(c)))
    BY <2>2, <2>4, <1>32, ClientKeeps DEF ForceKill, HoldsLive, Owns
  <2> QED
    BY <2>3, <2>4
<1>33. ASSUME NEW c \in Clients, CleanOpen(c) PROVE LiveGuarded'
  <2>1. PICK i \in Inodes :
          /\ dir.live # None => i = dir.live
          /\ cli' = [cli EXCEPT ![c] = [cli[c] EXCEPT !.pc = "clean_lock", !.live = i]]
          /\ dir' = [dir EXCEPT !.live = i]
    <3>1. PICK i \in Inodes : /\ Opens("live", i) /\ dir' = [dir EXCEPT !.live = i]
                             /\ cli' = [cli EXCEPT ![c].pc = "clean_lock", ![c].live = i]
      BY <1>33 DEF CleanOpen
    <3>2. cli' = [cli EXCEPT ![c] = [cli[c] EXCEPT !.pc = "clean_lock", !.live = i]]
      BY <3>1 DEF TypeOK
    <3>3. dir.live # None => i = dir.live
      BY <3>1 DEF Opens
    <3> QED
      BY <3>1, <3>2, <3>3
  <2>2. [cli[c] EXCEPT !.pc = "clean_lock", !.live = i].pc = "clean_lock"
    BY CliRec DEF ClientRec
  <2>3. /\ cli'[c].pc = "clean_lock" /\ \A d \in Clients \ {c} : cli'[d] = cli[d]
        /\ run' = run /\ flock' = flock
    BY <2>1, <2>2, <1>33 DEF CleanOpen, TypeOK
  <2>4. dir.live # None => dir'.live = dir.live
    BY <2>1 DEF TypeOK, Dir
  <2>5. \A s \in Runners : Owns(s) => dir.live # None
    BY RunnerAssumption DEF LiveGuarded, HoldsLive
  <2>6. \A d \in Clients : CleanNames(d) => dir.live # None
    BY RunnerAssumption DEF LiveGuarded, CleanHolds, CleanNames
  <2> QED
    BY <2>3, <2>4, <2>5, <2>6 DEF LiveGuarded, CleanHolds, CleanNames, HoldsLive, Owns
<1>34. ASSUME NEW c \in Clients, CleanLock(c) PROVE LiveGuarded'
  <2>1. CASE Unlocked(cli[c].live)
    <3>1. /\ [cli[c] EXCEPT !.pc = "clean_check"].pc = "clean_check"
          /\ [cli[c] EXCEPT !.pc = "clean_check"].live = cli[c].live
      BY CliRec DEF ClientRec
    <3>2. /\ cli'[c].pc = "clean_check" /\ cli'[c].live = cli[c].live
          /\ \A d \in Clients \ {c} : cli'[d] = cli[d]
          /\ run' = run /\ dir' = dir
      BY <2>1, <3>1, <1>34 DEF CleanLock, TypeOK
    <3>3. cli[c].live \in Inodes
      BY <2>1 DEF Unlocked
    <3>4. flock'[cli[c].live] = c /\ \A i \in Inodes : flock[i] # None => flock'[i] = flock[i]
      BY <2>1, <3>3, <1>34 DEF CleanLock, Unlocked, TypeOK
    <3>5. \A d \in Clients : /\ (CleanHolds(d))' => d = c \/ CleanHolds(d)
                             /\ (CleanNames(d))' => d # c /\ CleanNames(d)
      BY <3>2 DEF CleanHolds, CleanNames
    <3> QED
      BY <3>2, <3>3, <3>4, <3>5, RunnerAssumption DEF LiveGuarded, HoldsLive, Owns
  <2>2. CASE ~Unlocked(cli[c].live)
    <3>1. cli'[c].pc \notin HoldPC /\ \A d \in Clients \ {c} : cli'[d] = cli[d]
      BY <2>2, <1>34, ReturnsLeaves DEF CleanLock, HoldPC
    <3> QED
      BY <2>2, <3>1, <1>34, ClientKeeps DEF CleanLock, HoldsLive, Owns
  <2> QED
    BY <2>1, <2>2
<1>35. ASSUME NEW c \in Clients, CleanCheck(c) PROVE LiveGuarded'
  <2>1. CASE dir.live = cli[c].live
    <3>1. /\ [cli[c] EXCEPT !.pc = "unlink"].pc = "unlink"
          /\ [cli[c] EXCEPT !.pc = "unlink"].live = cli[c].live
      BY CliRec DEF ClientRec
    <3>2. /\ cli'[c].pc = "unlink" /\ cli'[c].live = cli[c].live
          /\ \A d \in Clients \ {c} : cli'[d] = cli[d]
          /\ run' = run /\ dir' = dir /\ flock' = flock
      BY <2>1, <3>1, <1>35 DEF CleanCheck, TypeOK
    <3>3. CleanHolds(c)
      BY <1>35 DEF CleanCheck, CleanHolds
    <3>4. \A d \in Clients : /\ (CleanHolds(d))' => CleanHolds(d)
                             /\ (CleanNames(d))' => d = c \/ CleanNames(d)
      BY <3>2, <3>3 DEF CleanHolds, CleanNames
    <3> QED
      BY <2>1, <3>2, <3>4 DEF LiveGuarded, HoldsLive, Owns
  <2>2. CASE dir.live # cli[c].live
    <3>1. [cli[c] EXCEPT !.pc = "clean", !.live = None, !.tries = cli[c].tries + 1].pc = "clean"
      BY CliRec DEF ClientRec
    <3>2. cli'[c].pc \notin HoldPC /\ \A d \in Clients \ {c} : cli'[d] = cli[d]
      <4>1. CASE cli[c].tries + 1 = LockTries
        BY <2>2, <4>1, <1>35, FinishesLeaves DEF CleanCheck, HoldPC
      <4>2. CASE cli[c].tries + 1 # LockTries
        <5>1. cli' = [cli EXCEPT ![c] = [cli[c] EXCEPT !.pc = "clean", !.live = None,
                                                       !.tries = cli[c].tries + 1]]
          BY <2>2, <4>2, <1>35 DEF CleanCheck
        <5> QED
          BY <5>1, <3>1 DEF TypeOK, HoldPC
      <4> QED
        BY <4>1, <4>2
    <3> QED
      BY <2>2, <3>2, <1>35, ReleasesKeeps DEF CleanCheck
  <2> QED
    BY <2>1, <2>2
<1>36. ASSUME NEW c \in Clients, CleanUnlink(c) PROVE LiveGuarded'
  <2>1. /\ [cli[c] EXCEPT !.pc = "unlink_lock"].pc = "unlink_lock"
        /\ [cli[c] EXCEPT !.pc = "unlink_lock"].live = cli[c].live
    BY CliRec DEF ClientRec
  <2>2. /\ cli'[c].pc = "unlink_lock" /\ cli'[c].live = cli[c].live
        /\ \A d \in Clients \ {c} : cli'[d] = cli[d]
        /\ run' = run /\ flock' = flock
    BY <2>1, <1>36 DEF CleanUnlink, ClientStep, TypeOK
  <2>3. dir'.live = dir.live
    BY <1>36 DEF CleanUnlink, TypeOK, Dir
  <2>4. CleanHolds(c) /\ CleanNames(c)
    BY <1>36 DEF CleanUnlink, ClientStep, CleanHolds, CleanNames
  <2>5. \A d \in Clients : /\ (CleanHolds(d))' => CleanHolds(d)
                           /\ (CleanNames(d))' => CleanNames(d)
    BY <2>2, <2>4 DEF CleanHolds, CleanNames
  <2> QED
    BY <2>2, <2>3, <2>5 DEF LiveGuarded, HoldsLive, Owns
<1>37. ASSUME NEW c \in Clients, CleanUnlinkLock(c) PROVE LiveGuarded'
  <2>1. /\ [cli[c] EXCEPT !.pc = "unlink_live"].pc = "unlink_live"
        /\ [cli[c] EXCEPT !.pc = "unlink_live"].live = cli[c].live
    BY CliRec DEF ClientRec
  <2>2. /\ cli'[c].pc = "unlink_live" /\ cli'[c].live = cli[c].live
        /\ \A d \in Clients \ {c} : cli'[d] = cli[d]
        /\ run' = run /\ flock' = flock
    BY <2>1, <1>37 DEF CleanUnlinkLock, ClientStep, TypeOK
  <2>3. dir'.live = dir.live
    BY <1>37 DEF CleanUnlinkLock, TypeOK, Dir
  <2>4. CleanHolds(c) /\ CleanNames(c)
    BY <1>37 DEF CleanUnlinkLock, ClientStep, CleanHolds, CleanNames
  <2>5. \A d \in Clients : /\ (CleanHolds(d))' => CleanHolds(d)
                           /\ (CleanNames(d))' => CleanNames(d)
    BY <2>2, <2>4 DEF CleanHolds, CleanNames
  <2> QED
    BY <2>2, <2>3, <2>5 DEF LiveGuarded, HoldsLive, Owns
<1>38. ASSUME NEW c \in Clients, CleanUnlinkLive(c) PROVE LiveGuarded'
  <2>1. /\ cli'[c].pc \notin HoldPC /\ \A d \in Clients \ {c} : cli'[d] = cli[d]
        /\ run' = run
    BY <1>38, ReturnsLeaves DEF CleanUnlinkLive, HoldPC
  <2>2. CleanHolds(c) /\ CleanNames(c)
    BY <1>38 DEF CleanUnlinkLive, CleanHolds, CleanNames
  <2>3. \A s \in Runners : ~Owns(s)
    BY <2>2, RunnerAssumption DEF LiveGuarded, HoldsLive
  <2>4. \A d \in Clients : CleanNames(d) => d = c
    BY <2>2 DEF LiveGuarded, CleanHolds, CleanNames
  <2>5. \A i \in Inodes : flock[i] # c => flock'[i] = flock[i]
    BY <1>38 DEF CleanUnlinkLive, Released, TypeOK
  <2>6. \A d \in Clients : /\ (CleanHolds(d))' => d # c /\ CleanHolds(d)
                           /\ ~(CleanNames(d))'
    BY <2>1, <2>4 DEF CleanHolds, CleanNames, HoldPC
  <2>7. \A r \in Runners : r # c /\ ~(Owns(r))' /\ ((HoldsLive(r))' => HoldsLive(r))
    BY <2>1, <2>3, RunnerAssumption DEF HoldsLive, Owns
  <2> QED
    BY <2>1, <2>5, <2>6, <2>7 DEF LiveGuarded
<1>39. ASSUME NEW name \in Names, Sweep(name) PROVE LiveGuarded'
  <2>1. dir'.live = dir.live
    <3>1. LiveKept /\ "live" \in Names
      BY KeptBefore DEF Names
    <3>2. name # "live"
      BY <1>39, <3>1, SweepLeaves DEF LiveKept
    <3> QED
      BY <1>39, <3>1, <3>2, SweepLeaves
  <2> QED
    BY <2>1, <1>39 DEF Sweep, LiveGuarded, HoldsLive, Owns, CleanHolds, CleanNames
<1>40. CASE UNCHANGED vars
  BY <1>40 DEF vars, LiveGuarded, HoldsLive, Owns, CleanHolds, CleanNames
<1> QED
  BY <1>1, <1>2, <1>3, <1>4, <1>5, <1>6, <1>7, <1>8, <1>9, <1>10, <1>11, <1>12, <1>13,
     <1>14, <1>15, <1>16, <1>17, <1>18, <1>19, <1>20, <1>21, <1>22, <1>23, <1>24, <1>25,
     <1>26, <1>27, <1>28, <1>29, <1>30, <1>31, <1>32, <1>33, <1>34, <1>35, <1>36, <1>37,
     <1>38, <1>39, <1>40 DEF Next, RunnerNext, ClientNext, Poll, Stop, Cleanup

-----------------------------------------------------------------------------
(* The theorems *)

\* The initial states are well typed and guarded.
LEMMA InitBoth == Init => TypeOK /\ LiveGuarded
<1> SUFFICES ASSUME Init PROVE TypeOK /\ LiveGuarded
  OBVIOUS
<1>1. PICK s \in Scenarios : Begin(s.first) /\ cli = [c \in Clients |-> NewClient(s.op[c])]
  BY DEF Init
<1>2. \A c \in Clients : s.op[c] \in {"start", "stop"}
  BY ScenarioAssumption
<1>3. 0 \in 0 .. LockTries - 1
  BY RunnerAssumption
<1>4. ASSUME NEW op \in {"start", "stop"} PROVE NewClient(op) \in ClientRec /\ NewClient(op).pc = "read"
  BY <1>3, ClientPCs DEF NewClient, ClientRec
<1>5. cli \in [Clients -> ClientRec] /\ \A c \in Clients : cli[c].pc = "read"
  BY <1>1, <1>2, <1>4
<1>6. First \in Runners
  BY RunnerAssumption DEF First
<1>7. FirstLock \in Inodes /\ FirstLive \in Inodes /\ FirstLock # FirstLive
  BY RunnerAssumption DEF FirstLock, FirstLive
<1>8. NewRunner \in RunnerRec /\ [NewRunner EXCEPT !.pc = "killed"] \in RunnerRec
  BY <1>3, RunnerPCs DEF NewRunner, RunnerRec
<1>9. [pc |-> "serving", lock |-> FirstLock, live |-> FirstLive, tries |-> 0, tasks |-> "all"] \in RunnerRec
  BY <1>3, <1>7, RunnerPCs DEF RunnerRec
<1>10. run \in [Runners -> RunnerRec]
  BY <1>1, <1>8, <1>9 DEF Begin
<1>11. dir \in Dir /\ dir.live = FirstLive
  BY <1>1, <1>6, <1>7 DEF Begin, Dir
<1>12. /\ flock \in [Inodes -> Runners \cup Clients \cup {None}]
       /\ owner \in [Inodes -> Runners \cup {None}]
       /\ saved \in {"none", "all"}
  BY <1>1, <1>6 DEF Begin
<1>13. /\ 0 \in 0 .. MaxCrashes /\ MaxCrashes \in 0 .. MaxCrashes
       /\ 0 \in 0 .. MaxSweeps /\ 0 \in 0 .. MaxLosses
  BY RunnerAssumption
<1>14. /\ crashes \in 0 .. MaxCrashes
       /\ sweeps \in [Names -> 0 .. MaxSweeps] /\ losses \in 0 .. MaxLosses
  BY <1>1, <1>13 DEF Begin, Init
<1>15. TypeOK
  BY <1>5, <1>10, <1>11, <1>12, <1>14 DEF TypeOK
<1>16. [NewRunner EXCEPT !.pc = "killed"].pc = "killed" /\ NewRunner.pc = "off"
  BY DEF NewRunner
<1>17. ASSUME NEW r \in Runners, run[r].pc \notin {"off", "killed"}
       PROVE  r = First /\ run[r].live = FirstLive /\ flock[FirstLive] = First
  BY <1>1, <1>7, <1>16, <1>17 DEF Begin
<1>18. LiveGuarded
  BY <1>5, <1>7, <1>11, <1>17 DEF LiveGuarded, HoldsLive, Owns, CleanHolds, CleanNames
<1>19. QED
  BY <1>15, <1>18

\* The variables keep their types in every behaviour.
LEMMA RunnerTypes == Spec => []TypeOK
<1>1. Init => TypeOK
  BY InitBoth
<1>2. TypeOK /\ [Next]_vars => TypeOK'
  BY TypeStep
<1>3. QED
  BY <1>1, <1>2, PTL DEF Spec

\* The liveness file is guarded for as long as nobody takes it away.
LEMMA Guarded == Spec => [](LiveKept => LiveGuarded)
<1>1. Init => (LiveKept => LiveGuarded)
  BY InitBoth
<1>2. TypeOK /\ TypeOK' /\ (LiveKept => LiveGuarded) /\ [Next]_vars => (LiveKept => LiveGuarded)'
  BY GuardStep, KeptBefore
<1>3. QED
  BY <1>1, <1>2, RunnerTypes, PTL DEF Spec

\* A lock has one holder.
LEMMA GuardedOnce == LiveGuarded => Once
BY DEF LiveGuarded, Once, HoldsLive

\* Two starts that race never both win (lock_runner_paths), whoever cleans up,
\* quits, is killed or has its files swept in between, the lock file too, while the
\* liveness file is left alone; and the variables keep their types.
THEOREM OneOwner == Spec => []OneRunner
<1>1. TypeOK /\ (LiveKept => LiveGuarded) => OneRunner
  BY GuardedOnce DEF OneRunner, Once
<1>2. QED
  BY <1>1, Guarded, RunnerTypes, PTL

\* What lies at hand of it for what follows.
LEMMA AlwaysOnce == Spec => [](LiveKept => Once)
<1>1. (LiveKept => LiveGuarded) => (LiveKept => Once)
  BY GuardedOnce
<1>2. QED
  BY <1>1, Guarded, PTL

-----------------------------------------------------------------------------
(***************************************************************************)
(* What the lock files are for: whoever looks for a serving runner finds   *)
(* it, and the steps of runners, clients and sweeps are, in terms of who   *)
(* has the directory and where the tasks of its user are, those of         *)
(* RunnerService.                                                          *)
(*                                                                         *)
(* Both rest on the invariant above.  A runner that has the directory is   *)
(* alone with it, so what it has written there is taken away by nobody     *)
(* else; and of the tasks there is one copy, because only a runner that    *)
(* has the directory takes them from the saved file or puts them there.    *)
(***************************************************************************)

\* A runner between taking the saved tasks and giving them back.
Has(r) == run[r].pc \in {"restored", "bound", "serving", "quitting"}

\* Nobody else turns.
Alone(r) == \A s \in Runners \ {r} : run'[s] = run[s]

-----------------------------------------------------------------------------
(* What a step does to the runners and the saved tasks *)

\* A runner moves on with what it has,
Goes(r) ==
  /\ Alone(r) /\ saved' = saved /\ losses' = losses /\ run'[r].tasks = run[r].tasks
  /\ Has(r)' <=> Has(r)
  /\ Owns(r)' <=> Owns(r)

\* gets the directory,
Enters(r) ==
  /\ Alone(r) /\ saved' = saved /\ losses' = losses /\ run'[r].tasks = run[r].tasks
  /\ run[r].pc = "check_live" /\ run'[r].pc = "clear"

\* takes the saved tasks,
Takes(r) ==
  /\ Alone(r) /\ saved' = "none" /\ losses' = losses /\ run'[r].tasks = saved
  /\ run[r].pc = "boot" /\ run'[r].pc = "restored"

\* or cannot read them,
Misses(r) ==
  /\ Alone(r) /\ saved = "all" /\ saved' = "none" /\ losses' = losses + 1
  /\ run'[r].tasks = run[r].tasks
  /\ run[r].pc = "boot" /\ run'[r].pc = "restored"

\* saves its own,
Gives(r) ==
  /\ Alone(r) /\ saved' = run[r].tasks /\ losses' = losses /\ run'[r].tasks = "none"
  /\ Has(r) /\ run'[r].pc = "unlink"

\* or cannot save them,
Fails(r) ==
  /\ Alone(r) /\ run[r].tasks = "all" /\ saved' = saved /\ losses' = losses + 1
  /\ run'[r].tasks = "none"
  /\ Has(r) /\ run'[r].pc = "unlink"

\* lets the directory go,
Parts(r) ==
  /\ Alone(r) /\ saved' = saved /\ losses' = losses /\ run'[r].tasks = run[r].tasks
  /\ run[r].pc = "unlink_live" /\ run'[r].pc = "unlink_lock"

\* or is gone, or begins again, with nothing.
Drops(r) ==
  /\ Alone(r) /\ saved' = saved /\ losses' = losses /\ run'[r].tasks = "none"
  /\ ~Has(r)' /\ ~Owns(r)'

Deed(r) ==
  \/ Goes(r) \/ Enters(r) \/ Takes(r) \/ Misses(r) \/ Gives(r) \/ Fails(r)
  \/ Parts(r) \/ Drops(r)

\* A runner whose program counter moves keeps its tasks, and no other moves.
LEMMA PcTurn ==
  ASSUME TypeOK, NEW r \in Runners, NEW pc,
         run' = [run EXCEPT ![r].pc = pc]
  PROVE  Alone(r) /\ run'[r].pc = pc /\ run'[r].tasks = run[r].tasks
<1>1. /\ [run[r] EXCEPT !.pc = pc].pc = pc
      /\ [run[r] EXCEPT !.pc = pc].tasks = run[r].tasks
  BY RunRec DEF RunnerRec
<1> QED
  BY <1>1 DEF TypeOK, Alone

\* A runner that ends (or starts over) has nothing.
LEMMA EndTurn ==
  ASSUME TypeOK, NEW r \in Runners, NEW pc, run' = Ended(r, pc)
  PROVE  Alone(r) /\ run'[r].pc = pc /\ run'[r].tasks = "none"
<1>1. /\ [NewRunner EXCEPT !.pc = pc].pc = pc
      /\ [NewRunner EXCEPT !.pc = pc].tasks = "none"
  BY DEF NewRunner
<1> QED
  BY <1>1 DEF Ended, TypeOK, Alone

\* So does one that goes round the loop of lock_runner_paths.
LEMMA OverTurn ==
  ASSUME TypeOK, NEW r \in Runners, StartOver(r), saved' = saved, losses' = losses
  PROVE  Drops(r)
<1>1. CASE run[r].tries + 1 = LockTries
  <2>1. Alone(r) /\ run'[r].pc = "gave_up" /\ run'[r].tasks = "none"
    BY <1>1, EndTurn DEF StartOver
  <2> QED
    BY <2>1 DEF Drops, Has, Owns
<1>2. CASE run[r].tries + 1 # LockTries
  <2>1. /\ [NewRunner EXCEPT !.pc = "open", !.tries = run[r].tries + 1].pc = "open"
        /\ [NewRunner EXCEPT !.pc = "open", !.tries = run[r].tries + 1].tasks = "none"
    BY DEF NewRunner
  <2>2. Alone(r) /\ run'[r].pc = "open" /\ run'[r].tasks = "none"
    BY <1>2, <2>1 DEF StartOver, TypeOK, Alone
  <2> QED
    BY <2>2 DEF Drops, Has, Owns
<1> QED
  BY <1>1, <1>2

\* Every step of a runner is one of the deeds.
LEMMA RunnerDeeds ==
  ASSUME TypeOK, NEW r \in Runners, RunnerNext(r) \/ AskQuit(r) \/ Crash(r)
  PROVE  Deed(r)
<1>1. CASE OpenLock(r)
  <2>1. PICK i \in Inodes : run' = [run EXCEPT ![r].pc = "lock", ![r].lock = i]
    BY <1>1 DEF OpenLock
  <2>2. /\ [run[r] EXCEPT !.pc = "lock", !.lock = i].pc = "lock"
        /\ [run[r] EXCEPT !.pc = "lock", !.lock = i].tasks = run[r].tasks
    BY RunRec DEF RunnerRec
  <2>3. Alone(r) /\ run'[r].pc = "lock" /\ run'[r].tasks = run[r].tasks
    BY <2>1, <2>2 DEF TypeOK, Alone
  <2> QED
    BY <1>1, <2>3 DEF OpenLock, Deed, Goes, Has, Owns
<1>2. CASE AcquireLock(r)
  <2>1. CASE Unlocked(run[r].lock)
    BY <1>2, <2>1, PcTurn DEF AcquireLock, Deed, Goes, Has, Owns
  <2>2. CASE ~Unlocked(run[r].lock)
    BY <1>2, <2>2, EndTurn DEF AcquireLock, Deed, Drops, Has, Owns
  <2> QED
    BY <2>1, <2>2
<1>3. CASE OpenLive(r)
  <2>1. PICK i \in Inodes : run' = [run EXCEPT ![r].pc = "live", ![r].live = i]
    BY <1>3 DEF OpenLive
  <2>2. /\ [run[r] EXCEPT !.pc = "live", !.live = i].pc = "live"
        /\ [run[r] EXCEPT !.pc = "live", !.live = i].tasks = run[r].tasks
    BY RunRec DEF RunnerRec
  <2>3. Alone(r) /\ run'[r].pc = "live" /\ run'[r].tasks = run[r].tasks
    BY <2>1, <2>2 DEF TypeOK, Alone
  <2> QED
    BY <1>3, <2>3 DEF OpenLive, Deed, Goes, Has, Owns
<1>4. CASE AcquireLive(r)
  <2>1. Alone(r) /\ run'[r].pc = "check_lock" /\ run'[r].tasks = run[r].tasks
    BY <1>4, PcTurn DEF AcquireLive
  <2> QED
    BY <1>4, <2>1 DEF AcquireLive, Deed, Goes, Has, Owns
<1>5. CASE CheckLock(r)
  <2>1. CASE dir.lock = run[r].lock
    BY <1>5, <2>1, PcTurn DEF CheckLock, CheckFile, Deed, Goes, Has, Owns
  <2>2. CASE dir.lock # run[r].lock
    BY <1>5, <2>2, OverTurn DEF CheckLock, CheckFile, Deed
  <2> QED
    BY <2>1, <2>2
<1>6. CASE CheckLive(r)
  <2>1. CASE dir.live = run[r].live
    BY <1>6, <2>1, PcTurn DEF CheckLive, CheckFile, Deed, Enters
  <2>2. CASE dir.live # run[r].live
    BY <1>6, <2>2, OverTurn DEF CheckLive, CheckFile, Deed
  <2> QED
    BY <2>1, <2>2
<1>7. CASE Clear(r)
  <2>1. /\ [run[r] EXCEPT !.pc = "boot", !.tries = 0].pc = "boot"
        /\ [run[r] EXCEPT !.pc = "boot", !.tries = 0].tasks = run[r].tasks
    BY RunRec DEF RunnerRec
  <2>2. Alone(r) /\ run'[r].pc = "boot" /\ run'[r].tasks = run[r].tasks
    BY <1>7, <2>1 DEF Clear, TypeOK, Alone
  <2> QED
    BY <1>7, <2>2 DEF Clear, Deed, Goes, Has, Owns
<1>8. CASE Restore(r)
  <2>1. /\ [run[r] EXCEPT !.pc = "restored", !.tasks = saved].pc = "restored"
        /\ [run[r] EXCEPT !.pc = "restored", !.tasks = saved].tasks = saved
    BY RunRec DEF RunnerRec
  <2>2. CASE run' = [run EXCEPT ![r].pc = "restored", ![r].tasks = saved] /\ UNCHANGED losses
    <3>1. Alone(r) /\ run'[r].pc = "restored" /\ run'[r].tasks = saved
      BY <2>1, <2>2 DEF TypeOK, Alone
    <3> QED
      BY <1>8, <2>2, <3>1 DEF Restore, Deed, Takes
  <2>3. CASE saved = "all" /\ run' = [run EXCEPT ![r].pc = "restored"] /\ Loses
    BY <1>8, <2>3, PcTurn DEF Restore, Loses, Deed, Misses
  <2> QED
    BY <1>8, <2>2, <2>3 DEF Restore
<1>9. CASE BootFails(r) \/ QuitEnds(r)
  <2>1. /\ [run[r] EXCEPT !.pc = "unlink", !.tasks = "none"].pc = "unlink"
        /\ [run[r] EXCEPT !.pc = "unlink", !.tasks = "none"].tasks = "none"
    BY RunRec DEF RunnerRec
  <2>2. Alone(r) /\ run'[r].pc = "unlink" /\ run'[r].tasks = "none"
    BY <1>9, <2>1 DEF BootFails, QuitEnds, TypeOK, Alone
  <2>3. Has(r) /\ SaveOnQuit(r)
    BY <1>9 DEF BootFails, QuitEnds, Has
  <2> QED
    BY <2>2, <2>3 DEF SaveOnQuit, Loses, Deed, Gives, Fails
<1>10. CASE LoadFails(r) \/ Bind(r) \/ Publish(r) \/ Unlink(r) \/ AskQuit(r)
  BY <1>10, PcTurn
  DEF LoadFails, Bind, Publish, Unlink, AskQuit, RunnerStep, Deed, Goes, Has, Owns
<1>11. CASE UnlinkLive(r)
  BY <1>11, PcTurn DEF UnlinkLive, RunnerStep, Deed, Parts
<1>12. CASE UnlinkLock(r) \/ Crash(r)
  BY <1>12, EndTurn DEF UnlinkLock, Crash, Die, Deed, Drops, Has, Owns
<1> QED
  BY <1>1, <1>2, <1>3, <1>4, <1>5, <1>6, <1>7, <1>8, <1>9, <1>10, <1>11, <1>12 DEF RunnerNext

\* A client spawns a runner, asks one to quit or kills one, or leaves them alone.
LEMMA ClientDeeds ==
  ASSUME TypeOK, NEW c \in Clients, ClientNext(c)
  PROVE  UNCHANGED <<run, saved, losses>> \/ \E r \in Runners : Deed(r)
<1>1. CASE Recheck(c)
  <2>1. run' = run \/ \E r \in Runners : run[r].pc = "off" /\ run' = [run EXCEPT ![r].pc = "open"]
    BY <1>1 DEF Recheck
  <2> QED
    BY <1>1, <2>1, PcTurn DEF Recheck, Deed, Goes, Has, Owns
<1>2. CASE StopReady(c)
  <2>1. dir.socket \in Runners \cup {None}
    BY DEF TypeOK, Dir
  <2>2. run' = run \/ \E r \in Runners : /\ run[r].pc = "serving"
                                         /\ run' = [run EXCEPT ![r].pc = "quitting"]
    BY <1>2, <2>1 DEF StopReady
  <2>3. ASSUME NEW r \in Runners, run[r].pc = "serving", run' = [run EXCEPT ![r].pc = "quitting"]
        PROVE  Deed(r)
    <3>1. Alone(r) /\ run'[r].pc = "quitting" /\ run'[r].tasks = run[r].tasks
      BY <2>3, PcTurn
    <3> QED
      BY <1>2, <2>3, <3>1 DEF StopReady, Deed, Goes, Has, Owns
  <2> QED
    BY <1>2, <2>2, <2>3 DEF StopReady
<1>3. CASE ForceKill(c)
  <2>1. run' = run \/ \E r \in Runners : Die(r)
    BY <1>3, VictimType DEF ForceKill
  <2> QED
    BY <1>3, <2>1, EndTurn DEF ForceKill, Die, Deed, Drops, Has, Owns
<1>4. CASE ~(Recheck(c) \/ StopReady(c) \/ ForceKill(c))
  BY <1>4 DEF ClientNext, Poll, Stop, Cleanup, ReadRecord, Probe, ProbeEnds, PollReady,
              PollStarting, PollGone, StopFirst, StopGone, StopStarting, Deadline, CleanOpen,
              CleanLock, CleanCheck, CleanUnlink, CleanUnlinkLock, CleanUnlinkLive
<1> QED
  BY <1>1, <1>2, <1>3, <1>4

\* So every step is one of the deeds or leaves runners and saved tasks alone.
LEMMA Deeds ==
  ASSUME TypeOK, [Next]_vars
  PROVE  UNCHANGED <<run, saved, losses>> \/ \E r \in Runners : Deed(r)
<1>1. ASSUME NEW r \in Runners, Refresh(r) PROVE UNCHANGED <<run, saved, losses>>
  BY <1>1 DEF Refresh
<1>2. ASSUME NEW name \in Names, Sweep(name) PROVE UNCHANGED <<run, saved, losses>>
  BY <1>2 DEF Sweep
<1>3. CASE UNCHANGED vars
  BY <1>3 DEF vars
<1> QED
  BY <1>1, <1>2, <1>3, RunnerDeeds, ClientDeeds DEF Next

-----------------------------------------------------------------------------
(* A serving runner is found *)

\* What the directory names for a runner that has bound its socket, and published it.
Found ==
  \A r \in Runners :
    /\ run[r].pc \in {"bound", "serving"} => Named("socket", r)
    /\ run[r].pc = "serving" => Named("record", r)

\* The initial states name the runner that serves.
LEMMA InitFound == Init => Found
<1> SUFFICES ASSUME Init PROVE Found
  OBVIOUS
<1>1. PICK s \in Scenarios : Begin(s.first)
  BY DEF Init
<1>2. NewRunner.pc = "off" /\ [NewRunner EXCEPT !.pc = "killed"].pc = "killed"
  BY DEF NewRunner
<1>3. ASSUME NEW r \in Runners, run[r].pc \in {"bound", "serving"}
      PROVE  r = First /\ s.first = "serving"
  BY <1>1, <1>2, <1>3 DEF Begin
<1> QED
  BY <1>1, <1>3 DEF Begin, Found, Named

\* A step that leaves socket, record and sweeps alone keeps what is found, unless it binds
\* or publishes.
LEMMA NamesKept ==
  ASSUME Found, dir'.socket = dir.socket, dir'.record = dir.record, sweeps' = sweeps,
         \A r \in Runners : /\ run'[r].pc = "bound" => run[r].pc = "bound"
                            /\ run'[r].pc = "serving" => run[r].pc = "serving"
  PROVE  Found'
BY DEF Found, Named

\* A step of the runner that has the directory may change the names as it likes, while
\* it has not bound its socket when it is done: no other one is found in them.
LEMMA NamesOwned ==
  ASSUME Once, NEW r \in Runners, Owns(r), Alone(r),
         run'[r].pc \notin {"bound", "serving"}
  PROVE  Found'
BY DEF Once, Alone, Owns, Found

\* A cleanup that removes the names holds the liveness lock: no runner has the directory.
LEMMA CleanAlone ==
  ASSUME LiveGuarded, NEW c \in Clients, CleanNames(c)
  PROVE  \A r \in Runners : ~Owns(r)
BY RunnerAssumption DEF LiveGuarded, CleanHolds, CleanNames, HoldsLive

\* A runner's steps keep what is found.
LEMMA RunnerFound ==
  ASSUME TypeOK, Once, Found, NEW r \in Runners,
         RunnerNext(r) \/ Refresh(r) \/ AskQuit(r) \/ Crash(r)
  PROVE  Found'
<1>1. CASE OpenLock(r) \/ AcquireLock(r) \/ OpenLive(r) \/ AcquireLive(r) \/ CheckLock(r)
           \/ CheckLive(r) \/ Restore(r) \/ QuitEnds(r) \/ UnlinkLive(r) \/ UnlinkLock(r)
           \/ AskQuit(r) \/ Crash(r)
  <2>1. /\ dir'.socket = dir.socket /\ dir'.record = dir.record /\ sweeps' = sweeps
    BY <1>1 DEF OpenLock, AcquireLock, OpenLive, AcquireLive, CheckLock, CheckLive, CheckFile,
                Restore, QuitEnds, UnlinkLive, UnlinkLock, AskQuit, Crash, RunnerStep, TypeOK, Dir
  <2>2. Alone(r) /\ run'[r].pc \notin {"bound", "serving"}
    <3>1. CASE OpenLock(r) \/ OpenLive(r)
      <4>1. PICK i \in Inodes : \/ run' = [run EXCEPT ![r].pc = "lock", ![r].lock = i]
                                \/ run' = [run EXCEPT ![r].pc = "live", ![r].live = i]
        BY <3>1 DEF OpenLock, OpenLive
      <4>2. /\ [run[r] EXCEPT !.pc = "lock", !.lock = i].pc = "lock"
            /\ [run[r] EXCEPT !.pc = "live", !.live = i].pc = "live"
        BY RunRec DEF RunnerRec
      <4> QED
        BY <4>1, <4>2 DEF TypeOK, Alone
    <3>2. CASE AcquireLock(r) \/ AcquireLive(r) \/ UnlinkLive(r) \/ AskQuit(r)
      BY <3>2, PcTurn, EndTurn DEF AcquireLock, AcquireLive, UnlinkLive, AskQuit, RunnerStep
    <3>3. CASE CheckLock(r) \/ CheckLive(r)
      <4>1. CASE StartOver(r)
        <5>1. [NewRunner EXCEPT !.pc = "open", !.tries = run[r].tries + 1].pc = "open"
          BY DEF NewRunner
        <5> QED
          BY <4>1, <5>1, EndTurn DEF StartOver, TypeOK, Alone
      <4>2. CASE ~StartOver(r)
        BY <3>3, <4>2, PcTurn DEF CheckLock, CheckLive, CheckFile
      <4> QED
        BY <4>1, <4>2
    <3>4. CASE Restore(r)
      <4>1. [run[r] EXCEPT !.pc = "restored", !.tasks = saved].pc = "restored"
        BY RunRec DEF RunnerRec
      <4>2. CASE run' = [run EXCEPT ![r].pc = "restored", ![r].tasks = saved]
        BY <4>1, <4>2 DEF TypeOK, Alone
      <4>3. CASE run' = [run EXCEPT ![r].pc = "restored"]
        <5>1. Alone(r) /\ run'[r].pc = "restored"
          BY <4>3, PcTurn
        <5> QED
          BY <5>1
      <4> QED
        BY <3>4, <4>2, <4>3 DEF Restore
    <3>5. CASE QuitEnds(r)
      <4>1. [run[r] EXCEPT !.pc = "unlink", !.tasks = "none"].pc = "unlink"
        BY RunRec DEF RunnerRec
      <4> QED
        BY <3>5, <4>1 DEF QuitEnds, TypeOK, Alone
    <3>6. CASE UnlinkLock(r) \/ Crash(r)
      BY <3>6, EndTurn DEF UnlinkLock, Crash, Die
    <3> QED
      BY <1>1, <3>1, <3>2, <3>3, <3>4, <3>5, <3>6
  <2> QED
    BY <2>1, <2>2, NamesKept DEF Alone
<1>2. CASE Clear(r) \/ LoadFails(r) \/ BootFails(r) \/ Unlink(r)
  <2>1. /\ [run[r] EXCEPT !.pc = "boot", !.tries = 0].pc = "boot"
        /\ [run[r] EXCEPT !.pc = "unlink", !.tasks = "none"].pc = "unlink"
    BY RunRec DEF RunnerRec
  <2>2. Owns(r)
    BY <1>2 DEF Clear, LoadFails, BootFails, Unlink, RunnerStep, Owns
  <2>3. CASE Clear(r) \/ BootFails(r)
    BY <2>1, <2>2, <2>3, NamesOwned DEF Clear, BootFails, TypeOK, Alone
  <2>4. CASE LoadFails(r) \/ Unlink(r)
    BY <2>2, <2>4, PcTurn, NamesOwned DEF LoadFails, Unlink, RunnerStep
  <2> QED
    BY <1>2, <2>3, <2>4
<1>3. CASE Bind(r) \/ Publish(r)
  <2>1. Owns(r) /\ Alone(r)
    BY <1>3, PcTurn DEF Bind, Publish, RunnerStep, Owns
  <2>2. \A s \in Runners \ {r} : run'[s].pc \notin {"bound", "serving"}
    BY <2>1 DEF Once, Alone, Owns
  <2>3. CASE Bind(r)
    <3>1. run'[r].pc = "bound" /\ dir'.socket = r
      BY <2>3, PcTurn DEF Bind, RunnerStep, TypeOK, Dir
    <3> QED
      BY <2>2, <3>1 DEF Found, Named
  <2>4. CASE Publish(r)
    <3>1. /\ run'[r].pc = "serving" /\ sweeps' = sweeps
          /\ dir'.socket = dir.socket /\ dir'.record = r
      BY <2>4, PcTurn DEF Publish, RunnerStep, TypeOK, Dir
    <3>2. Named("socket", r)
      BY <2>4 DEF Publish, RunnerStep, Found
    <3> QED
      BY <2>2, <3>1, <3>2 DEF Found, Named
  <2> QED
    BY <1>3, <2>3, <2>4
<1>4. CASE Refresh(r)
  <2>1. /\ run[r].pc = "serving" /\ run' = run /\ sweeps' = sweeps
        /\ dir'.socket = dir.socket /\ dir'.record = r
    BY <1>4 DEF Refresh, TypeOK, Dir
  <2>2. \A s \in Runners : run[s].pc = "serving" => s = r
    BY <2>1 DEF Once, Owns
  <2> QED
    BY <2>1, <2>2 DEF Found, Named
<1> QED
  BY <1>1, <1>2, <1>3, <1>4 DEF RunnerNext

\* So do a client's: what it removes is under the liveness lock.
LEMMA ClientFound ==
  ASSUME TypeOK, LiveGuarded, Found, NEW c \in Clients, ClientNext(c)
  PROVE  Found'
<1>1. CASE CleanUnlink(c)
  <2>1. \A r \in Runners : ~Owns(r)
    BY <1>1, CleanAlone DEF CleanUnlink, ClientStep, CleanNames
  <2> QED
    BY <1>1, <2>1 DEF CleanUnlink, Found, Owns
<1>2. CASE ~CleanUnlink(c)
  <2>1. dir'.socket = dir.socket /\ dir'.record = dir.record /\ sweeps' = sweeps
    BY <1>2 DEF ClientNext, Poll, Stop, Cleanup, ReadRecord, Probe, ProbeEnds, PollReady,
                PollStarting, PollGone, Recheck, StopFirst, StopGone, StopReady, StopStarting,
                ForceKill, Deadline, CleanOpen, CleanLock, CleanCheck, CleanUnlinkLock,
                CleanUnlinkLive, TypeOK, Dir
  <2>2. CASE run' = run
    BY <2>1, <2>2, NamesKept
  <2>3. CASE run' # run
    <3>1. Recheck(c) \/ StopReady(c) \/ ForceKill(c)
      BY <1>2, <2>3 DEF ClientNext, Poll, Stop, Cleanup, ReadRecord, Probe, ProbeEnds,
                PollReady, PollStarting, PollGone, StopFirst, StopGone, StopStarting,
                Deadline, CleanOpen, CleanLock, CleanCheck, CleanUnlinkLock, CleanUnlinkLive
    <3>2. dir.socket \in Runners \cup {None}
      BY DEF TypeOK, Dir
    <3>3. \E r \in Runners : \/ run' = [run EXCEPT ![r].pc = "open"]
                             \/ run' = [run EXCEPT ![r].pc = "quitting"]
                             \/ run' = Ended(r, "killed")
      BY <2>3, <3>1, <3>2, VictimType DEF Recheck, StopReady, ForceKill, Die
    <3>4. PICK r \in Runners : Alone(r) /\ run'[r].pc \in {"open", "quitting", "killed"}
      BY <3>3, PcTurn, EndTurn
    <3> QED
      BY <2>1, <3>4, NamesKept DEF Alone
  <2> QED
    BY <2>2, <2>3
<1> QED
  BY <1>1, <1>2

\* While the liveness file is left alone, whoever looks for a serving runner finds it:
\* the liveness file the directory names is its own, and so are the socket and the record
\* unless a cleaner took them, whatever other runners start and die and whoever cleans up
\* after them (cleanup_paths deletes only under the liveness lock).
THEOREM ServingIsReachable == Spec => []ServingReachable
<1>1. ASSUME TypeOK, LiveGuarded, Once, Found, [Next]_vars PROVE Found'
  <2>1. ASSUME NEW name \in Names, Sweep(name) PROVE Found'
    <3>1. {"record", "socket"} \subseteq Names
      BY DEF Names
    <3>2. ASSUME NEW n \in {"record", "socket"}, NEW r \in Runners, Named(n, r)
          PROVE  Named(n, r)'
      <4>1. CASE n = name
        BY <1>1, <2>1, <4>1, SweepLeaves DEF Named
      <4>2. CASE n # name
        BY <1>1, <2>1, <3>1, <3>2, <4>2, SweepLeaves DEF Named
      <4> QED
        BY <4>1, <4>2
    <3>3. run' = run
      BY <2>1 DEF Sweep
    <3> QED
      BY <1>1, <3>2, <3>3 DEF Found
  <2>2. CASE UNCHANGED vars
    BY <1>1, <2>2 DEF vars, Found, Named
  <2> QED
    BY <1>1, <2>1, <2>2, RunnerFound, ClientFound DEF Next
<1>2. TypeOK /\ (LiveKept => LiveGuarded) /\ (LiveKept => Found) /\ [Next]_vars =>
        (LiveKept => Found)'
  BY <1>1, KeptBefore, GuardedOnce
<1>3. (LiveKept => LiveGuarded) /\ (LiveKept => Found) => ServingReachable
  BY DEF LiveGuarded, Found, ServingReachable, Owns
<1>4. Init => (LiveKept => Found)
  BY InitFound
<1> QED
  BY <1>2, <1>3, <1>4, Guarded, RunnerTypes, PTL DEF Spec

-----------------------------------------------------------------------------
(* The tasks of the user are in one place *)

\* Only a runner that took the saved tasks has any, and while it has them none are saved.
Placed ==
  \A r \in Runners : /\ run[r].tasks = "all" => Has(r)
                     /\ Has(r) => saved = "none"

\* The initial states have them in one place.
LEMMA InitPlaced == Init => Placed
<1> SUFFICES ASSUME Init, NEW r \in Runners
             PROVE  (run[r].tasks = "all" => Has(r)) /\ (Has(r) => saved = "none")
  BY DEF Placed
<1>1. PICK s \in Scenarios : Begin(s.first)
  BY DEF Init
<1>2. /\ NewRunner.pc = "off" /\ NewRunner.tasks = "none"
      /\ [NewRunner EXCEPT !.pc = "killed"].pc = "killed"
      /\ [NewRunner EXCEPT !.pc = "killed"].tasks = "none"
  BY DEF NewRunner
<1> QED
  BY <1>1, <1>2 DEF Begin, Has

\* Whoever has tasks, or is about to take them, has the directory, and alone.
LEMMA HasOwns == \A r : Has(r) => Owns(r)
BY DEF Has, Owns

\* Every step leaves them in one place: two runners that both had tasks would both have
\* the directory.
LEMMA PlacedStep == TypeOK /\ Once /\ Placed /\ [Next]_vars => Placed'
<1> SUFFICES ASSUME TypeOK, Once, Placed, [Next]_vars PROVE Placed'
  OBVIOUS
<1>1. CASE UNCHANGED <<run, saved, losses>>
  BY <1>1 DEF Placed, Has
<1>2. ASSUME NEW r \in Runners, Deed(r) PROVE Placed'
  <2>1. \A s \in Runners \ {r} : run'[s] = run[s]
    BY <1>2 DEF Deed, Goes, Enters, Takes, Misses, Gives, Fails, Parts,
       Drops, Alone
  <2>2. CASE Goes(r) \/ Drops(r) \/ Enters(r) \/ Parts(r)
    BY <2>1, <2>2 DEF Goes, Drops, Enters, Parts, Placed, Has
  <2>3. CASE Takes(r) \/ Misses(r)
    BY <2>1, <2>3 DEF Takes, Misses, Placed, Has
  <2>4. CASE Gives(r) \/ Fails(r)
    <3>1. Owns(r) /\ \A s \in Runners \ {r} : ~Owns(s)
      BY <2>4, HasOwns DEF Gives, Fails, Once
    <3>2. \A s \in Runners \ {r} : ~Has(s)' /\ run'[s].tasks # "all"
      BY <2>1, <3>1, HasOwns DEF Placed, Has
    <3> QED
      BY <2>4, <3>2 DEF Gives, Fails, Placed, Has
  <2> QED
    BY <1>2, <2>2, <2>3, <2>4 DEF Deed
<1> QED
  BY <1>1, <1>2, Deeds

-----------------------------------------------------------------------------
(* The steps in terms of the service *)

\* Who has the directory, and where the tasks are, in plain words.
HolderRight ==
  Once =>
    /\ \A r \in Runners : Owns(r) => Holder = r
    /\ (\A r \in Runners : ~Owns(r)) => Holder = None
PlaceRight ==
  Once /\ Placed =>
    /\ \A r \in Runners : run[r].tasks = "all" => WhereTasks = r
    /\ (\A r \in Runners : run[r].tasks # "all") =>
         WhereTasks = IF saved = "all" THEN "disk" ELSE "lost"

\* The one is so before a step and after it.
LEMMA HolderIs == HolderRight /\ HolderRight'
BY DEF HolderRight, Once, Holder, Owns

\* So is the other.
LEMMA PlaceIs == PlaceRight /\ PlaceRight'
<1>1. PlaceRight
  BY HasOwns DEF PlaceRight, Once, Placed, WhereTasks
<1>2. PlaceRight'
  BY DEF PlaceRight, Once, Placed, WhereTasks, Has, Owns
<1> QED
  BY <1>1, <1>2

\* The tasks stay where they are while no runner's and no saved ones move.
LEMMA SamePlace ==
  ASSUME saved' = saved, \A r \in Runners : run'[r].tasks = run[r].tasks
  PROVE  WhereTasks' = WhereTasks
BY DEF WhereTasks

\* The directory stays with who has it while none gets it or lets it go.
LEMMA SameHolder ==
  ASSUME \A r \in Runners : Owns(r)' <=> Owns(r)
  PROVE  Holder' = Holder
BY DEF Holder, Owns

\* The initial states are ones of the service.
LEMMA InitService == Init => Service!Init
<1> SUFFICES ASSUME Init PROVE Service!Init
  OBVIOUS
<1>1. Once /\ Placed
  BY InitBoth, InitPlaced, GuardedOnce
<1>0. losses = 0 /\ ~LiveKept = FALSE
  BY DEF Init, LiveKept, Names
<1>2. CASE \E r \in Runners : run[r].tasks = "all"
  <2>1. PICK r \in Runners : run[r].tasks = "all"
    BY <1>2
  <2>2. Holder = r /\ WhereTasks = r
    BY <1>1, <2>1, HolderIs, PlaceIs, HasOwns DEF HolderRight, PlaceRight, Placed
  <2> QED
    BY <1>0, <2>2, RunnerAssumption DEF Service!Init
<1>3. CASE \A r \in Runners : run[r].tasks # "all"
  <2>1. WhereTasks \in {"disk", "lost"}
    BY <1>1, <1>3, PlaceIs DEF PlaceRight
  <2>2. Holder \in Runners \cup {None}
    BY <1>1, HolderIs DEF HolderRight
  <2> QED
    BY <1>0, <2>1, <2>2, PlaceAssumption DEF Service!Init
<1> QED
  BY <1>2, <1>3

\* What the service does, while the liveness file is there.
Serves ==
  \E r \in Runners :
    \/ Service!Take(r) \/ Service!Load(r) \/ Service!Save(r) \/ Service!Lose(r)
    \/ Service!Leave(r) \/ Service!Die(r)

\* Every step is one of the service's, or leaves it alone: a runner that has the
\* directory takes, saves, loses or leaves; one that ends with it dies; nothing else shows.
LEMMA StepServes ==
  ASSUME TypeOK, Once, Once', Placed, Placed', [Next]_vars
  PROVE  Serves \/ UNCHANGED <<Holder, WhereTasks, losses>>
<1>1. CASE UNCHANGED <<run, saved, losses>>
  BY <1>1, SamePlace, SameHolder DEF Owns
<1>2. ASSUME NEW r \in Runners, Deed(r)
      PROVE  Serves \/ UNCHANGED <<Holder, WhereTasks, losses>>
  <2>1. \A s \in Runners \ {r} : run'[s] = run[s]
    BY <1>2 DEF Deed, Goes, Enters, Takes, Misses, Gives, Fails, Parts, Drops, Alone
  <2>2. \A s \in Runners \ {r} : Owns(s)' <=> Owns(s)
    BY <2>1 DEF Owns
  <2>3. r # None /\ r # "disk" /\ r # "lost"
    BY RunnerAssumption, PlaceAssumption
  <2>4. run[r].tasks \in {"none", "all"} /\ saved \in {"none", "all"}
    BY RunRec DEF TypeOK, RunnerRec
  <2>5. CASE Goes(r)
    BY <2>1, <2>2, <2>5, SamePlace, SameHolder DEF Goes
  <2>6. CASE Enters(r)
    <3>1. Owns(r)' /\ ~Owns(r)
      BY <2>6 DEF Enters, Owns
    <3>2. \A s \in Runners : ~Owns(s)
      BY <2>2, <3>1 DEF Once
    <3>3. Holder = None /\ Holder' = r
      BY <3>1, <3>2, HolderIs DEF HolderRight
    <3>4. WhereTasks' = WhereTasks
      BY <2>1, <2>6, SamePlace DEF Enters
    <3> QED
      BY <2>6, <3>3, <3>4 DEF Enters, Serves, Service!Take
  <2>7. CASE Takes(r)
    <3>1. Owns(r)' /\ Owns(r) /\ ~Has(r)
      BY <2>7 DEF Takes, Owns, Has
    <3>2. Holder = r /\ Holder' = r
      BY <3>1, HolderIs DEF HolderRight
    <3>3. \A s \in Runners : run[s].tasks # "all"
      BY <3>1, HasOwns DEF Once, Placed
    <3>4. WhereTasks = IF saved = "all" THEN "disk" ELSE "lost"
      BY <3>3, PlaceIs DEF PlaceRight
    <3>5. CASE saved = "all"
      <4>1. run'[r].tasks = "all"
        BY <2>7, <3>5 DEF Takes
      <4>2. WhereTasks' = r
        BY <4>1, PlaceIs DEF PlaceRight
      <4> QED
        BY <2>7, <3>2, <3>4, <3>5, <4>2 DEF Takes, Serves, Service!Load
    <3>6. CASE saved # "all"
      <4>1. \A s \in Runners : run'[s].tasks # "all"
        BY <2>1, <2>7, <3>3, <3>6 DEF Takes
      <4>2. WhereTasks' = "lost"
        BY <2>7, <4>1, PlaceIs DEF PlaceRight, Takes
      <4> QED
        BY <2>7, <3>2, <3>4, <3>6, <4>2 DEF Takes
    <3> QED
      BY <3>5, <3>6
  <2>10. CASE Misses(r)
    <3>1. Owns(r)' /\ Owns(r) /\ ~Has(r)
      BY <2>10 DEF Misses, Owns, Has
    <3>2. Holder = r /\ Holder' = r
      BY <3>1, HolderIs DEF HolderRight
    <3>3. \A s \in Runners : run[s].tasks # "all"
      BY <3>1, HasOwns DEF Once, Placed
    <3>4. WhereTasks = "disk"
      BY <2>10, <3>3, PlaceIs DEF PlaceRight, Misses
    <3>5. \A s \in Runners : run'[s].tasks # "all"
      BY <2>1, <2>10, <3>3 DEF Misses
    <3>6. WhereTasks' = "lost"
      BY <2>10, <3>5, PlaceIs DEF PlaceRight, Misses
    <3> QED
      BY <2>10, <3>2, <3>4, <3>6 DEF Misses, Serves, Service!Lose
  <2>8. CASE Gives(r) \/ Fails(r)
    <3>1. Owns(r)' /\ Owns(r) /\ Has(r)
      BY <2>8, HasOwns DEF Gives, Fails, Owns
    <3>2. Holder = r /\ Holder' = r
      BY <3>1, HolderIs DEF HolderRight
    <3>3. saved = "none" /\ \A s \in Runners \ {r} : run[s].tasks # "all"
      BY <3>1, HasOwns DEF Once, Placed
    <3>4. \A s \in Runners : run'[s].tasks # "all"
      BY <2>1, <2>8, <3>3 DEF Gives, Fails
    <3>5. WhereTasks' = IF saved' = "all" THEN "disk" ELSE "lost"
      BY <3>4, PlaceIs DEF PlaceRight
    <3>6. CASE run[r].tasks = "all"
      <4>1. WhereTasks = r
        BY <3>6, PlaceIs DEF PlaceRight
      <4>2. CASE Gives(r)
        BY <3>2, <3>5, <3>6, <4>1, <4>2 DEF Gives, Serves, Service!Save
      <4>3. CASE Fails(r)
        BY <3>2, <3>3, <3>5, <4>1, <4>3 DEF Fails, Serves, Service!Lose
      <4> QED
        BY <2>8, <4>2, <4>3
    <3>7. CASE run[r].tasks # "all"
      <4>1. WhereTasks = "lost" /\ saved' = "none"
        BY <2>4, <2>8, <3>3, <3>7, PlaceIs DEF PlaceRight, Gives, Fails
      <4> QED
        BY <2>8, <3>2, <3>5, <3>7, <4>1 DEF Gives, Fails
    <3> QED
      BY <3>6, <3>7
  <2>9. CASE Parts(r) \/ Drops(r)
    <3>1. ~Owns(r)' /\ run'[r].tasks # "all" /\ saved' = saved
      BY <2>9 DEF Parts, Drops, Owns, Has, Placed
    <3>2. CASE ~Owns(r)
      <4>1. run[r].tasks # "all"
        BY <3>2, HasOwns DEF Placed
      <4>2. WhereTasks' = WhereTasks
        BY <2>1, <2>4, <2>9, <4>1, SamePlace DEF Parts, Drops
      <4> QED
        BY <2>2, <2>9, <3>1, <3>2, <4>2, SameHolder DEF Parts, Drops
    <3>3. CASE Owns(r)
      <4>1. \A s \in Runners \ {r} : ~Owns(s) /\ ~Owns(s)' /\ run[s].tasks # "all"
        BY <2>2, <3>3, HasOwns DEF Once, Placed
      <4>2. Holder = r /\ Holder' = None
        BY <3>1, <3>3, <4>1, HolderIs DEF HolderRight
      <4>3. \A s \in Runners : run'[s].tasks # "all"
        BY <2>1, <3>1, <4>1
      <4>4. WhereTasks' = IF saved = "all" THEN "disk" ELSE "lost"
        BY <3>1, <4>3, PlaceIs DEF PlaceRight
      <4>5. CASE run[r].tasks = "all"
        <5>1. WhereTasks = r /\ WhereTasks' = "lost"
          BY <4>4, <4>5, PlaceIs DEF PlaceRight, Placed
        <5> QED
          BY <2>9, <4>2, <5>1 DEF Parts, Drops, Serves, Service!Die
      <4>6. CASE run[r].tasks # "all"
        <5>1. WhereTasks = IF saved = "all" THEN "disk" ELSE "lost"
          BY <4>1, <4>6, PlaceIs DEF PlaceRight
        <5>2. WhereTasks # r /\ WhereTasks' = WhereTasks
          BY <2>3, <4>4, <5>1
        <5> QED
          BY <2>9, <4>2, <5>2 DEF Parts, Drops, Serves, Service!Leave
      <4> QED
        BY <4>5, <4>6
    <3> QED
      BY <3>2, <3>3
  <2> QED
    BY <1>2, <2>5, <2>6, <2>7, <2>8, <2>9, <2>10 DEF Deed
<1> QED
  BY <1>1, <1>2, Deeds

\* In every step the service's promise stands, or the liveness file is gone.
LEMMA StepService ==
  TypeOK /\ (LiveKept => Once) /\ (LiveKept => Once)' /\ (LiveKept => Placed)
    /\ (LiveKept => Placed)' /\ [Next]_vars =>
      [Service!Next]_<<Holder, WhereTasks, losses, ~LiveKept>>
<1> SUFFICES ASSUME TypeOK, LiveKept => Once, (LiveKept => Once)', LiveKept => Placed,
                    (LiveKept => Placed)', [Next]_vars
             PROVE  Service!Next \/ UNCHANGED <<Holder, WhereTasks, losses, ~LiveKept>>
  OBVIOUS
<1>1. CASE ~LiveKept'
  BY <1>1 DEF Service!Next
<1>2. CASE LiveKept'
  <2>1. LiveKept
    BY <1>2, KeptBefore
  <2>2. Serves \/ UNCHANGED <<Holder, WhereTasks, losses>>
    BY <1>2, <2>1, StepServes
  <2> QED
    BY <1>2, <2>1, <2>2 DEF Service!Next, Serves, LiveKept
<1> QED
  BY <1>1, <1>2

\* The lock files, the record, the saved file and all the system calls between them are
\* an implementation of RunnerService: while the liveness file is left alone the
\* directory changes hands only from a runner that left it or died, and the tasks are in
\* the runner that has it or in the saved file, unless one died with them, could not save
\* them or could not read what was saved.
THEOREM FilesServe == Spec => ImplementsService
<1>1. Init => (LiveKept => Placed)
  BY InitPlaced
<1>2. TypeOK /\ (LiveKept => Once) /\ (LiveKept => Placed) /\ [Next]_vars => (LiveKept => Placed)'
  BY PlacedStep, KeptBefore
<1>3. Spec => [](LiveKept => Placed)
  BY <1>1, <1>2, RunnerTypes, AlwaysOnce, PTL DEF Spec
<1> QED
  BY <1>3, InitService, StepService, RunnerTypes, AlwaysOnce, PTL
  DEF Spec, ImplementsService, Service!Spec

=============================================================================
