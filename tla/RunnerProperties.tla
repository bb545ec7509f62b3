-------------------------- MODULE RunnerProperties --------------------------
(***************************************************************************)
(* What the lock files promise (src/runner/lockfile.rs, module doc).       *)
(***************************************************************************)
EXTENDS Runner

RunnerPC ==
  {"off", "open", "lock", "open_live", "live", "check_lock", "check_live", "clear", "boot",
   "restored", "bound", "serving", "quitting", "unlink", "unlink_live", "unlink_lock",
   "denied", "gave_up", "ended", "killed"}

ClientPC ==
  {"read", "probe", "probed", "decide", "clean", "clean_lock", "clean_check", "unlink",
   "unlink_lock", "unlink_live", "connected", "done", "failed"}

Dir ==
  [lock : Inodes \cup {None}, live : Inodes \cup {None}, record : Runners \cup {None},
   socket : Runners \cup {None}, error : Runners \cup {None}]

RunnerRec ==
  [pc : RunnerPC, lock : Inodes \cup {None}, live : Inodes \cup {None},
   tries : 0 .. LockTries - 1, tasks : {"none", "all"}]

ClientRec ==
  [op : {"start", "stop"}, pc : ClientPC, phase : {"poll", "recheck", "first", "loop"},
   next : {"recheck", "failed", "done"}, rec : Runners \cup {None}, probe : {"alive", "dead"},
   live : Inodes \cup {None}, tries : 0 .. LockTries - 1, did : SUBSET {"spawned", "killed"},
   target : Runners \cup {None}]

\* Every variable has its type; a runner that lost its files to a sweep starts
\* over fewer than LockTries times, and so does a cleanup.
TypeOK ==
  /\ dir \in Dir
  /\ saved \in {"none", "all"}
  /\ flock \in [Inodes -> Runners \cup Clients \cup {None}]
  /\ owner \in [Inodes -> Runners \cup {None}]
  /\ run \in [Runners -> RunnerRec]
  /\ cli \in [Clients -> ClientRec]
  /\ crashes \in 0 .. MaxCrashes
  /\ sweeps \in [Names -> 0 .. MaxSweeps]
  /\ losses \in 0 .. MaxLosses

\* A runner past the two locks and not yet letting go of the names.
Owns(r) ==
  run[r].pc \in {"clear", "boot", "restored", "bound", "serving", "quitting", "unlink",
                 "unlink_live"}

\* Nobody took the file by which a runner is known to be alive.  Once it is gone a
\* runner can be told from a dead one by nothing, and another one is started.
LiveKept == sweeps.live = 0

\* lock_runner_paths: two starts that race over the files of a dead or dying
\* runner never both win, whatever is unlinked or swept between their system calls,
\* the lock file included: they meet again at the liveness file.  (And the state is of
\* the shape the code gives it.)
OneRunner ==
  /\ TypeOK
  /\ LiveKept => \A r, s \in Runners : Owns(r) /\ Owns(s) => r = s

\* Only a cleaner of temporary files can have taken the file.
Named(name, r) == dir[name] = r \/ (dir[name] = None /\ sweeps[name] > 0)

\* Cleanup deletes only under the liveness lock, so whoever looks for a serving
\* runner finds it: its liveness file is the directory's, and so are its record
\* and its socket unless a cleaner took them (refresh writes the record again;
\* without its socket a runner is reached only by the pid in its record).
ServingReachable ==
  LiveKept =>
    \A r \in Runners :
      run[r].pc = "serving" =>
        dir.live = run[r].live /\ Named("record", r) /\ Named("socket", r)

\* shutdown_runner: a stop that had found a runner serving and says it is stopped
\* tells the truth, though records are removed, swept and written again, the runner's
\* place is taken by another and the stop looks at one file after the other.
StopIsTrue ==
  [][\A c \in Clients :
       LiveKept /\ cli[c].target # None /\ cli[c].pc # "done" /\ cli'[c].pc = "done"
         => ~Owns(cli[c].target)]_vars

-----------------------------------------------------------------------------
(* What the files are for *)

\* The two places that are not a runner.
ASSUME PlaceAssumption == {"disk", "lost"} \cap (Runners \cup {None}) = {}

Holder == IF \E r \in Runners : Owns(r) THEN CHOOSE r \in Runners : Owns(r) ELSE None

WhereTasks ==
  IF \E r \in Runners : run[r].tasks = "all" THEN CHOOSE r \in Runners : run[r].tasks = "all"
  ELSE IF saved = "all" THEN "disk" ELSE "lost"

Service ==
  INSTANCE RunnerService WITH
    holder <- Holder, tasks <- WhereTasks, swept <- ~LiveKept, Disk <- "disk", Lost <- "lost"

\* The directory changes hands only from a runner that left it or died, and
\* across every quit, failed start and restart the tasks of the user are in the
\* saved file or in the runner that has the directory: only a process that died
\* with them, a save that failed or a saved file that does not decode loses them.
ImplementsService == Service!Spec
=============================================================================
