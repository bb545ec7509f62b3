------------------------------- MODULE Runner -------------------------------
(***************************************************************************)
(* Who owns a runtime directory (src/runner/lockfile.rs, socket.rs,        *)
(* kill.rs, dekit/server.rs run_server, dekit/main.rs shutdown_runner).    *)
(*                                                                         *)
(* Every runner of one identity and every command that starts, stops or    *)
(* sweeps it share six files and no process.  Each system call that        *)
(* another process can see the effect of is a step of its own, and a       *)
(* runner may be killed between any two of them.                           *)
(***************************************************************************)
EXTENDS Integers, FiniteSets

CONSTANTS
  Runners,     \* process instances of `dekit runner run`, by (pid, start time)
  Clients,     \* commands that look for a runner
  Scenarios,   \* how the first runner is found, and what each client does: connect
               \* and start a runner if need be, or stop it
  Inodes,      \* file identities of the two lock files
  LockTries,   \* attempts at the locks before giving up (8 in the code)
  MaxCrashes,  \* bound: how many runners die without unwinding
  MaxSweeps,   \* bound: how often a cleaner of temporary files takes each file
  MaxLosses,   \* bound: how many saves fail, or are of no use to the next start
  None

ASSUME RunnerAssumption ==
  /\ LockTries \in Nat \ {0}
  /\ MaxCrashes \in Nat
  /\ MaxSweeps \in Nat
  /\ MaxLosses \in Nat
  /\ None \notin Runners \cup Clients \cup Inodes
  /\ Runners \cap Clients = {}
  /\ Runners # {}
  /\ \A i \in Inodes : \E j \in Inodes : i # j
  /\ Inodes # {}

ASSUME ScenarioAssumption ==
  Scenarios \subseteq [first : {"serving", "died serving", "died starting"},
                       op : [Clients -> {"start", "stop"}]]

VARIABLES
  dir,      \* what the directory names: lock and live files, record, socket, error
  saved,    \* what the user data dir has of the last quit: its tasks, or none
  flock,    \* flock[i]: the process that holds file i's lock
  owner,    \* owner[i]: the runner whose identity is written in lock file i
  run,      \* each runner process
  cli,      \* each client process
  crashes,  \* how many runners died without unwinding
  sweeps,   \* sweeps[n]: how often a cleaner took the file named n
  losses    \* how many saves did not come about, or came to nothing

vars == <<dir, saved, flock, owner, run, cli, crashes, sweeps, losses>>

(***************************************************************************)
(* Files.                                                                  *)
(***************************************************************************)

\* The names a runtime directory has for one runner identity.
Names == {"lock", "live", "record", "socket", "error"}

\* A file's identity is free for reuse once no name and no descriptor has it.
IsFree(i) ==
  /\ i \notin {dir.lock, dir.live}
  /\ \A r \in Runners : i \notin {run[r].lock, run[r].live}
  /\ \A c \in Clients : i # cli[c].live

\* open_lock_file: the file the name has, or a new one; i is the file opened.
Opens(name, i) ==
  /\ dir[name] = None => \E j \in Inodes : IsFree(j)
  /\ i = IF dir[name] = None THEN CHOOSE j \in Inodes : IsFree(j) ELSE dir[name]

\* Whether a record's runner answers on the socket it bound.
Listening(r) == r # None /\ run[r].pc \in {"serving", "quitting"}

(***************************************************************************)
(* A runner, from its start to its end.                                    *)
(***************************************************************************)

NewRunner == [pc |-> "off", lock |-> None, live |-> None, tries |-> 0, tasks |-> "none"]

Ended(r, pc) == [run EXCEPT ![r] = [NewRunner EXCEPT !.pc = pc]]

\* Nobody has the lock of file i.
Unlocked(i) == i \in Inodes /\ flock[i] = None

\* Closing a descriptor releases its lock.
Released(p) == [i \in Inodes |-> IF flock[i] = p THEN None ELSE flock[i]]

RunnerStep(r, from, to) ==
  /\ run[r].pc = from
  /\ run' = [run EXCEPT ![r].pc = to]

OpenLock(r) ==
  /\ run[r].pc = "open"
  /\ \E i \in Inodes :
       /\ Opens("lock", i)
       /\ run' = [run EXCEPT ![r].pc = "lock", ![r].lock = i]
       /\ owner' = IF dir.lock = None THEN [owner EXCEPT ![i] = None] ELSE owner
       /\ dir' = [dir EXCEPT !.lock = i]
  /\ UNCHANGED <<saved, flock, cli, crashes, sweeps, losses>>

\* acquire_flock: never waits; a runner that is refused ends without a word.
AcquireLock(r) ==
  /\ run[r].pc = "lock"
  /\ IF Unlocked(run[r].lock)
       THEN /\ flock' = [flock EXCEPT ![run[r].lock] = r]
            /\ run' = [run EXCEPT ![r].pc = "open_live"]
       ELSE /\ run' = Ended(r, "denied")
            /\ UNCHANGED flock
  /\ UNCHANGED <<dir, saved, owner, cli, crashes, sweeps, losses>>

OpenLive(r) ==
  /\ run[r].pc = "open_live"
  /\ \E i \in Inodes :
       /\ Opens("live", i)
       /\ run' = [run EXCEPT ![r].pc = "live", ![r].live = i]
       /\ dir' = [dir EXCEPT !.live = i]
  /\ UNCHANGED <<saved, flock, owner, cli, crashes, sweeps, losses>>

\* acquire_flock_blocking: waits for as long as anyone holds it.
AcquireLive(r) ==
  /\ run[r].pc = "live"
  /\ Unlocked(run[r].live)
  /\ flock' = [flock EXCEPT ![run[r].live] = r]
  /\ run' = [run EXCEPT ![r].pc = "check_lock"]
  /\ UNCHANGED <<dir, saved, owner, cli, crashes, sweeps, losses>>

\* The files were swept from under the runner: both are let go and the loop
\* goes round, a bounded number of times.
StartOver(r) ==
  /\ flock' = Released(r)
  /\ run' = IF run[r].tries + 1 = LockTries
              THEN Ended(r, "gave_up")
              ELSE [run EXCEPT ![r] = [NewRunner EXCEPT !.pc = "open", !.tries = run[r].tries + 1]]

\* path_matches_file on each file in turn.
CheckFile(r, from, name, inode, to) ==
  /\ run[r].pc = from
  /\ IF dir[name] = inode
       THEN run' = [run EXCEPT ![r].pc = to] /\ UNCHANGED flock
       ELSE StartOver(r)
  /\ UNCHANGED <<dir, saved, owner, cli, crashes, sweeps, losses>>

CheckLock(r) == CheckFile(r, "check_lock", "lock", run[r].lock, "check_live")
CheckLive(r) == CheckFile(r, "check_live", "live", run[r].live, "clear")

\* The rest of lock_runner_paths: what an earlier runner left is removed, and
\* the identity is written in place.
Clear(r) ==
  /\ run[r].pc = "clear"
  /\ run' = [run EXCEPT ![r].pc = "boot", ![r].tries = 0]
  /\ dir' = [dir EXCEPT !.record = None, !.socket = None, !.error = None]
  /\ owner' = [owner EXCEPT ![run[r].lock] = r]
  /\ UNCHANGED <<saved, flock, cli, crashes, sweeps, losses>>

\* One save is of no use.
Loses == losses < MaxLosses /\ losses' = losses + 1

\* register_tasks: the saved tasks come back and only then is their file removed.
\* A file that cannot be decoded is dropped, and the config's tasks are registered.
Restore(r) ==
  /\ run[r].pc = "boot"
  /\ \/ run' = [run EXCEPT ![r].pc = "restored", ![r].tasks = saved] /\ UNCHANGED losses
     \/ saved = "all" /\ run' = [run EXCEPT ![r].pc = "restored"] /\ Loses
  /\ saved' = "none"
  /\ UNCHANGED <<dir, flock, owner, cli, crashes, sweeps>>

\* The config does not load, or the saved file cannot be read or removed: it stays
\* as it is, and nothing else has been touched yet but the locks.
LoadFails(r) ==
  /\ RunnerStep(r, "boot", "unlink")
  /\ dir' = [dir EXCEPT !.error = r]
  /\ UNCHANGED <<saved, flock, owner, cli, crashes, sweeps, losses>>

\* Mutant: a failed start just stops the kernel.
BootFailsUnsaved(r) ==
  /\ RunnerStep(r, "restored", "unlink")
  /\ dir' = [dir EXCEPT !.error = r]
  /\ UNCHANGED <<saved, flock, owner, cli, crashes, sweeps, losses>>

\* save_on_quit, on every quit: the file is replaced whole, or it is not written (a
\* handler that is dead or does not freeze in time, a second quit, a failing disk) and
\* what the runner had goes with it; the failure is only logged.
SaveOnQuit(r) ==
  \/ saved' = run[r].tasks /\ UNCHANGED losses
  \/ run[r].tasks = "all" /\ UNCHANGED saved /\ Loses

\* on_init or the bind fails: the kernel quits, which saves the tasks again,
\* and the error is published before the locks go.
BootFails(r) ==
  /\ run[r].pc = "restored"
  /\ run' = [run EXCEPT ![r].pc = "unlink", ![r].tasks = "none"]
  /\ SaveOnQuit(r)
  /\ dir' = [dir EXCEPT !.error = r]
  /\ UNCHANGED <<flock, owner, cli, crashes, sweeps>>

\* bind_server_socket, then publish.
Bind(r) ==
  /\ RunnerStep(r, "restored", "bound")
  /\ dir' = [dir EXCEPT !.socket = r]
  /\ UNCHANGED <<saved, flock, owner, cli, crashes, sweeps, losses>>

Publish(r) ==
  /\ RunnerStep(r, "bound", "serving")
  /\ dir' = [dir EXCEPT !.record = r, !.error = None]
  /\ UNCHANGED <<saved, flock, owner, cli, crashes, sweeps, losses>>

\* lockfile::holds: whether the directory still names the runner's files.
Holds(r) == dir.lock = run[r].lock /\ dir.live = run[r].live

\* refresh: a swept record is written again, by a runner that still holds the
\* names; nothing brings a swept socket back.
Refresh(r) ==
  /\ run[r].pc = "serving"
  /\ Holds(r)
  /\ dir.record = None
  /\ dir' = [dir EXCEPT !.record = r]
  /\ UNCHANGED <<saved, flock, owner, run, cli, crashes, sweeps, losses>>

\* Someone attached to the runner ends it.
AskQuit(r) ==
  /\ RunnerStep(r, "serving", "quitting")
  /\ UNCHANGED <<dir, saved, flock, owner, cli, crashes, sweeps, losses>>

\* A quit saves the tasks, then the kernel and the connections end.
QuitEnds(r) ==
  /\ run[r].pc = "quitting"
  /\ run' = [run EXCEPT ![r].pc = "unlink", ![r].tasks = "none"]
  /\ SaveOnQuit(r)
  /\ UNCHANGED <<dir, flock, owner, cli, crashes, sweeps>>

\* Mutant: the locks are let go before the names.
UnlinkUnlocked(r) ==
  /\ RunnerStep(r, "unlink", "unlink_live")
  /\ dir' = [dir EXCEPT !.socket = None, !.record = None]
  /\ flock' = Released(r)
  /\ UNCHANGED <<saved, owner, cli, crashes, sweeps, losses>>

\* LockFileGuard::drop: the names go one by one, the locks last of all.
Unlink(r) ==
  /\ RunnerStep(r, "unlink", "unlink_live")
  /\ dir' = [dir EXCEPT !.socket = None, !.record = None]
  /\ UNCHANGED <<saved, flock, owner, cli, crashes, sweeps, losses>>

UnlinkLive(r) ==
  /\ RunnerStep(r, "unlink_live", "unlink_lock")
  /\ dir' = [dir EXCEPT !.live = None]
  /\ UNCHANGED <<saved, flock, owner, cli, crashes, sweeps, losses>>

UnlinkLock(r) ==
  /\ run[r].pc = "unlink_lock"
  /\ dir' = [dir EXCEPT !.lock = None]
  /\ flock' = Released(r)
  /\ run' = Ended(r, "ended")
  /\ UNCHANGED <<saved, owner, cli, crashes, sweeps, losses>>

Alive(r) == run[r].pc \notin {"off", "denied", "gave_up", "ended", "killed"}

\* The process is gone: its descriptors are closed and its files stay.
Die(r) ==
  /\ run' = Ended(r, "killed")
  /\ flock' = Released(r)

Crash(r) ==
  /\ crashes < MaxCrashes
  /\ Alive(r)
  /\ crashes' = crashes + 1
  /\ Die(r)
  /\ UNCHANGED <<dir, saved, owner, cli, sweeps, losses>>

\* A cleaner of temporary files takes one that was left untouched for long, whoever
\* has it open.
Sweep(name) ==
  /\ sweeps[name] < MaxSweeps
  /\ dir[name] # None
  /\ sweeps' = [sweeps EXCEPT ![name] = @ + 1]
  /\ dir' = [dir EXCEPT ![name] = None]
  /\ UNCHANGED <<saved, flock, owner, run, cli, crashes, losses>>

(***************************************************************************)
(* A client.  `phase` is the call of runner_state it is in, `next` where   *)
(* its cleanup returns to.                                                 *)
(***************************************************************************)

NewClient(op) ==
  [op |-> op, pc |-> "read", phase |-> IF op = "start" THEN "poll" ELSE "first", next |-> "done",
   rec |-> None, probe |-> "dead", live |-> None, tries |-> 0,
   did |-> {}, target |-> None]

ClientStep(c, from, to) ==
  /\ cli[c].pc = from
  /\ cli' = [cli EXCEPT ![c].pc = to]

\* runner_state reads the record, then probes the liveness lock ...
ReadRecord(c) ==
  /\ cli[c].pc = "read"
  /\ cli' = [cli EXCEPT ![c].pc = "probe", ![c].rec = dir.record]
  /\ UNCHANGED <<dir, saved, flock, owner, run, crashes, sweeps, losses>>

\* ... is_runner_alive: the probe itself holds the lock for an instant.
Probe(c) ==
  /\ cli[c].pc = "probe"
  /\ IF dir.live # None /\ flock[dir.live] = None
       THEN /\ flock' = [flock EXCEPT ![dir.live] = c]
            /\ cli' = [cli EXCEPT ![c].pc = "probed", ![c].live = dir.live]
       ELSE /\ cli' = [cli EXCEPT ![c].pc = "decide", ![c].probe = IF dir.live = None THEN "dead" ELSE "alive"]
            /\ UNCHANGED flock
  /\ UNCHANGED <<dir, saved, owner, run, crashes, sweeps, losses>>

ProbeEnds(c) ==
  /\ cli[c].pc = "probed"
  /\ flock' = Released(c)
  /\ cli' = [cli EXCEPT ![c].pc = "decide", ![c].live = None, ![c].probe = "dead"]
  /\ UNCHANGED <<dir, saved, owner, run, crashes, sweeps, losses>>

\* What runner_state answers; the error file is read last.
State(c) ==
  CASE cli[c].rec # None /\ cli[c].probe = "alive" -> "ready"
    [] cli[c].rec # None /\ cli[c].probe = "dead" -> "stale"
    [] cli[c].rec = None /\ cli[c].probe = "alive" -> "starting"
    [] OTHER -> IF dir.error = None THEN "absent" ELSE "failed"

\* What a step answered is not kept past it.
Idle(c) == [cli[c] EXCEPT !.live = None, !.rec = None, !.probe = "dead", !.tries = 0, !.next = "done"]
Looks(c, phase) == cli' = [cli EXCEPT ![c] = [Idle(c) EXCEPT !.pc = "read", !.phase = phase]]
Cleans(c, next) == cli' = [cli EXCEPT ![c] = [Idle(c) EXCEPT !.pc = "clean", !.next = next]]
Finishes(c, pc) == cli' = [cli EXCEPT ![c] = [NewClient(cli[c].op) EXCEPT !.pc = pc]]

At(c, phase, state) == cli[c].pc = "decide" /\ cli[c].phase = phase /\ State(c) = state

\* connect_client_socket's loop.
PollReady(c) ==
  /\ At(c, "poll", "ready")
  /\ IF dir.socket # None /\ Listening(dir.socket) THEN Finishes(c, "connected") ELSE Looks(c, "poll")
  /\ UNCHANGED <<dir, saved, flock, owner, run, crashes, sweeps, losses>>

PollStarting(c) ==
  /\ At(c, "poll", "starting")
  /\ Looks(c, "poll")
  /\ UNCHANGED <<dir, saved, flock, owner, run, crashes, sweeps, losses>>

PollGone(c) ==
  /\ \E state \in {"absent", "stale", "failed"} : At(c, "poll", state)
  /\ IF "spawned" \notin cli[c].did
       THEN Cleans(c, "recheck")
       ELSE CASE State(c) = "failed" -> Finishes(c, "failed")
              [] State(c) = "stale" -> Cleans(c, "failed")
              [] State(c) = "absent" -> Looks(c, "poll")
  /\ UNCHANGED <<dir, saved, flock, owner, run, crashes, sweeps, losses>>

\* After its cleanup a starter looks again, and spawns one if there is none.
Recheck(c) ==
  /\ cli[c].pc = "decide"
  /\ cli[c].phase = "recheck"
  /\ IF State(c) \in {"ready", "starting"}
       THEN Looks(c, "poll") /\ UNCHANGED run
       ELSE \E r \in Runners :
              /\ run[r].pc = "off"
              /\ run' = [run EXCEPT ![r].pc = "open"]
              /\ cli' = [cli EXCEPT ![c] = [Idle(c) EXCEPT !.pc = "read", !.phase = "poll",
                                                           !.did = {"spawned"}]]
  /\ UNCHANGED <<dir, saved, flock, owner, crashes, sweeps, losses>>

\* The deadline, while the loop waits for what does not come.
Deadline(c) ==
  /\ cli[c].pc = "decide"
  /\ cli[c].phase \in {"poll", "loop"}
  /\ State(c) \in (IF cli[c].op = "start" THEN {"ready", "starting", "absent"} ELSE {"ready", "starting"})
  /\ Finishes(c, "failed")
  /\ UNCHANGED <<dir, saved, flock, owner, run, crashes, sweeps, losses>>

(***************************************************************************)
(* cleanup_paths: the names of a dead runner go, under its liveness lock.  *)
(***************************************************************************)

CleanupReturns(c) ==
  IF cli[c].next = "recheck" THEN Looks(c, "recheck") ELSE Finishes(c, cli[c].next)

CleanOpen(c) ==
  /\ cli[c].pc = "clean"
  /\ \E i \in Inodes :
       /\ Opens("live", i)
       /\ cli' = [cli EXCEPT ![c].pc = "clean_lock", ![c].live = i]
       /\ dir' = [dir EXCEPT !.live = i]
  /\ UNCHANGED <<saved, flock, owner, run, crashes, sweeps, losses>>

\* Mutant: a cleanup does not wait for the lock to be free.
CleanLockNot(c) ==
  /\ ClientStep(c, "clean_lock", "clean_check")
  /\ UNCHANGED <<dir, saved, flock, owner, run, crashes, sweeps, losses>>

CleanLock(c) ==
  /\ cli[c].pc = "clean_lock"
  /\ IF Unlocked(cli[c].live)
       THEN /\ flock' = [flock EXCEPT ![cli[c].live] = c]
            /\ cli' = [cli EXCEPT ![c].pc = "clean_check"]
       ELSE CleanupReturns(c) /\ UNCHANGED flock
  /\ UNCHANGED <<dir, saved, owner, run, crashes, sweeps, losses>>

CleanCheck(c) ==
  /\ cli[c].pc = "clean_check"
  /\ IF dir.live = cli[c].live
       THEN cli' = [cli EXCEPT ![c].pc = "unlink"] /\ UNCHANGED flock
       ELSE /\ flock' = Released(c)
            /\ IF cli[c].tries + 1 = LockTries
                 THEN Finishes(c, "failed")
                 ELSE cli' = [cli EXCEPT ![c].pc = "clean", ![c].live = None, ![c].tries = @ + 1]
  /\ UNCHANGED <<dir, saved, owner, run, crashes, sweeps, losses>>

CleanUnlink(c) ==
  /\ ClientStep(c, "unlink", "unlink_lock")
  /\ dir' = [dir EXCEPT !.socket = None, !.record = None, !.error = None]
  /\ UNCHANGED <<saved, flock, owner, run, crashes, sweeps, losses>>

CleanUnlinkLock(c) ==
  /\ ClientStep(c, "unlink_lock", "unlink_live")
  /\ dir' = [dir EXCEPT !.lock = None]
  /\ UNCHANGED <<saved, flock, owner, run, crashes, sweeps, losses>>

CleanUnlinkLive(c) ==
  /\ cli[c].pc = "unlink_live"
  /\ dir' = [dir EXCEPT !.live = None]
  /\ flock' = Released(c)
  /\ CleanupReturns(c)
  /\ UNCHANGED <<saved, owner, run, crashes, sweeps, losses>>

(***************************************************************************)
(* shutdown_runner.                                                        *)
(***************************************************************************)

StopFirst(c) ==
  /\ cli[c].pc = "decide"
  /\ cli[c].phase = "first"
  /\ CASE State(c) \in {"ready", "starting"} -> Looks(c, "loop")
       [] State(c) \in {"stale", "failed"} -> Cleans(c, "done")
       [] State(c) = "absent" -> Finishes(c, "done")
  /\ UNCHANGED <<dir, saved, flock, owner, run, crashes, sweeps, losses>>

\* Mutant: a runner whose record is gone is gone.
StopGoneStarting(c) ==
  /\ \E state \in {"absent", "stale", "failed", "starting"} : At(c, "loop", state)
  /\ cli[c].target # None \/ State(c) # "starting"
  /\ IF State(c) \in {"absent", "starting"} THEN Finishes(c, "done") ELSE Cleans(c, "done")
  /\ UNCHANGED <<dir, saved, flock, owner, run, crashes, sweeps, losses>>

StopGone(c) ==
  /\ \E state \in {"absent", "stale", "failed"} : At(c, "loop", state)
  /\ IF State(c) = "absent" THEN Finishes(c, "done") ELSE Cleans(c, "done")
  /\ UNCHANGED <<dir, saved, flock, owner, run, crashes, sweeps, losses>>

\* The first ready record is the target, and whoever listens is asked to quit;
\* another runner's record later means the target is gone.
StopReady(c) ==
  /\ At(c, "loop", "ready")
  /\ IF cli[c].target = None
       THEN /\ cli' = [cli EXCEPT ![c] = [Idle(c) EXCEPT !.pc = "read", !.target = cli[c].rec]]
            /\ run' = IF dir.socket # None /\ run[dir.socket].pc = "serving"
                        THEN [run EXCEPT ![dir.socket].pc = "quitting"]
                        ELSE run
       ELSE /\ IF cli[c].target = cli[c].rec THEN Looks(c, "loop") ELSE Finishes(c, "done")
            /\ UNCHANGED run
  /\ UNCHANGED <<dir, saved, flock, owner, crashes, sweeps, losses>>

StopStarting(c) ==
  /\ At(c, "loop", "starting")
  /\ Looks(c, "loop")
  /\ UNCHANGED <<dir, saved, flock, owner, run, crashes, sweeps, losses>>

\* Past the quit's deadline: the recorded instance is killed, or the one that
\* wrote its identity in the lock file while it was starting.
Victim(c) ==
  IF State(c) = "ready" THEN cli[c].rec
  ELSE IF dir.lock = None THEN None ELSE owner[dir.lock]

\* force_kill_runner: kill_verified signals that instance or nobody.
ForceKill(c) ==
  /\ cli[c].pc = "decide"
  /\ cli[c].phase = "loop"
  /\ "killed" \notin cli[c].did
  /\ \/ State(c) = "starting"
     \/ State(c) = "ready" /\ cli[c].target = cli[c].rec
  /\ IF Victim(c) = None
       THEN Finishes(c, "failed")
       ELSE cli' = [cli EXCEPT ![c] = [Idle(c) EXCEPT !.pc = "read", !.did = {"killed"}]]
  /\ IF Victim(c) # None /\ Alive(Victim(c))
       THEN Die(Victim(c))
       ELSE UNCHANGED <<run, flock>>
  /\ UNCHANGED <<dir, saved, owner, crashes, sweeps, losses>>

(***************************************************************************)
(* The specification: one runner serves with the tasks of its user, or it  *)
(* died and left its files, while it served or while it started with the   *)
(* tasks of an earlier quit.                                               *)
(***************************************************************************)

\* Which runner and which files come first makes no difference.
First == CHOOSE r \in Runners : TRUE
FirstLock == CHOOSE i \in Inodes : TRUE
FirstLive == CHOOSE i \in Inodes : i # FirstLock

Begin(first) ==
  LET served == IF first = "died starting" THEN None ELSE First IN
  /\ dir = [lock |-> FirstLock, live |-> FirstLive, record |-> served, socket |-> served,
            error |-> None]
  /\ flock = [i \in Inodes |->
               IF first = "serving" /\ i \in {FirstLock, FirstLive} THEN First ELSE None]
  /\ owner = [i \in Inodes |-> IF i = FirstLock THEN First ELSE None]
  /\ run = [r \in Runners |->
              IF r # First THEN NewRunner
              ELSE IF first = "serving"
              THEN [pc |-> "serving", lock |-> FirstLock, live |-> FirstLive, tries |-> 0,
                    tasks |-> "all"]
              ELSE [NewRunner EXCEPT !.pc = "killed"]]
  /\ saved = IF first = "died starting" THEN "all" ELSE "none"
  /\ crashes = IF first = "serving" THEN 0 ELSE MaxCrashes   \* it counts as one of them

Init ==
  /\ \E s \in Scenarios :
       /\ Begin(s.first)
       /\ cli = [c \in Clients |-> NewClient(s.op[c])]
  /\ sweeps = [name \in Names |-> 0]
  /\ losses = 0

\* The steps a runner takes by itself, unless it is killed.
RunnerNext(r) ==
  \/ OpenLock(r) \/ AcquireLock(r) \/ OpenLive(r) \/ AcquireLive(r)
  \/ CheckLock(r) \/ CheckLive(r) \/ Clear(r)
  \/ Restore(r) \/ LoadFails(r) \/ BootFails(r) \/ Bind(r) \/ Publish(r)
  \/ QuitEnds(r) \/ Unlink(r) \/ UnlinkLive(r) \/ UnlinkLock(r)

\* The steps of a client up to its answer.
Poll(c) == PollReady(c) \/ PollStarting(c) \/ PollGone(c) \/ Recheck(c)
Stop(c) == StopFirst(c) \/ StopGone(c) \/ StopReady(c) \/ StopStarting(c) \/ ForceKill(c)
Cleanup(c) ==
  \/ CleanOpen(c) \/ CleanLock(c) \/ CleanCheck(c)
  \/ CleanUnlink(c) \/ CleanUnlinkLock(c) \/ CleanUnlinkLive(c)
ClientNext(c) ==
  ReadRecord(c) \/ Probe(c) \/ ProbeEnds(c) \/ Poll(c) \/ Stop(c) \/ Deadline(c) \/ Cleanup(c)

Next ==
  \/ \E r \in Runners : RunnerNext(r) \/ Refresh(r) \/ AskQuit(r) \/ Crash(r)
  \/ \E c \in Clients : ClientNext(c)
  \/ \E name \in Names : Sweep(name)

Spec == Init /\ [][Next]_vars
=============================================================================
