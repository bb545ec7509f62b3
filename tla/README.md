# A verification of dekit

dekit runs the processes of a project. A *runner* keeps a graph of tasks,
starts each after what it needs, stops each before it, restarts what fails,
and can replace its own binary without stopping a child. This directory holds
TLA+ models of the parts that decide all this, the TLC runs that check them on
small instances, and TLAPS proofs that hold for instances of any size.

`PROJECT.json` is the index: which definition models which lines (`map`), the
runs, a mutant for each property (a plausible bug that the property catches),
the findings, the hazards and the theorems. Paths below are under `src/src/`.

    tlc -workers 2 -config MCKernel.cfg MCKernel      one run
    tlapm KernelProofs.tla                            the proofs of one `...Proofs` module

## 1. The system

| Component | Keeps | Operations | Modules |
|---|---|---|---|
| Kernel task graph (`kernel/kernel.rs`, `kernel/task.rs`) | tasks, edges and pins, run states, vetoes, cached `wanted`/`supported`, counters, queues, deadlines | register, update, remove; up, start, restart, force-restart, stop, kill, veto, unpin; reports; timeouts; settle; quit | `TaskLifecycle`, `KernelGraph`, `Kernel` |
| Waits and watches (`kernel/kernel.rs`) | a condition, the tasks waited on, what was last told of each | begin, look again after a step that changed something, advance, end | `Waits` |
| Kernel loop (`kernel/kernel.rs`) | the channel, the freeze in progress, deferred and replayed messages | freeze, answers, thaw, quit with and without a save, save timeout | `Freeze` |
| Process task (`task/process_task.rs`, `task/ready.rs`) | its process, what it learnt of it, a ready check, whether it is frozen | start, stop, kill, freeze, thaw, exit, ready, end of output | `ProcessTask` |
| Children and the reaper (`process/*`) | listeners by pid, unclaimed exits, the reap order, a pause | fork, mark, register, reap, kill, pause, resume, adopt | `Reaper`; as one child in `ProcessTask` |
| RPC server and connections (`dekit/server.rs`, `dekit/wait.rs`) | connections, requests read, being handled and answered, a wait session | accept, serve, freeze, thaw, carry over, close | `Connections` |
| Upgrade (`upgrade/*`) | a snapshot, what each connection answered | freeze connections, reaper, kernel; exec or fail and thaw; resume | `Upgrade` |
| Runner lifecycle (`runner/*`) | two lock files, a socket, a record, the saved tasks | lock, clear, boot, bind, serve, quit, clean up, probe, stop, kill | `Runner`, `RunnerService` |
| Reload and write-back (`reload.rs`, `write_back.rs`, `console/app_edit.rs`, `task/config_tasks.rs`) | the config as last applied (the base), the task each entry made | plan, pick, apply, write edits back, read back, restore | `ConfigSync` |
| Terminal screen and scrollback (`term/grid.rs`, `row.rs`, `history.rs`, `screen/*`) | rows of cells, cursor, region, lines of history, the view | text, wraps, edits, erasures, scrolls, resizes, snapshots | `Lines`, `Grid` |
| State timers, namespace, config files, commands, console, attach, scripts, help, mprocs | | | none (section 8) |

How they meet. Everything that changes the graph is a message in the kernel's
one channel: verbs from the RPC server and the console, plans from a reload,
reports from tasks. The kernel handles one message at a time and *settles* the
graph after it: it brings caches to a fixed point and drives each task that
should move. Driving sends commands into one channel per task; a task is a
future with its own loop, and reports back through the kernel's channel.
Timers come back as messages too. After a step that changed anything the
kernel looks at its waits. The reaper is one task that calls `waitpid(-1)` on
SIGCHLD and hands each exit to the handler of its pid. An upgrade freezes the
connections, then the reaper, then the kernel and through it every task, and
execs; the next image takes over the descriptors, the children and what was
carried of each connection. Runners and the commands that look for them meet
only in the files of a runtime directory. A reload and a write-back meet in
the config file, the base and the tasks, all of which others change too.

What is hard here:

- the graph is kept incrementally (counters, caches, a queue of who to look at
  again), so one missed step shows up much later and elsewhere;
- a task and the kernel run concurrently, and reports carry no run number;
- handlers may end, children may ignore a kill, checks may never pass;
- four kinds of timeout share one deadline per task;
- two users of the freeze (an upgrade, a quit that saves) may overlap, and
  each may fail halfway, while messages wait;
- pids are used again, and the exec forgets who listened for which;
- a lock is on a file and a name may by then be another file's, and any
  process may die between two system calls;
- a plan is made of one state and carried out in another, and in part;
- a resize takes a screen apart and puts it together again, over history that
  was wrapped at other widths.

## 2. The modules

**TaskLifecycle** has the pure functions of `task.rs` (`exit_state`,
`started_state`, `is_satisfied`, `has_ended`). An exit is "ok", "err" or
"ready_timeout", which is as far as the kernel tells exits apart.

**KernelGraph** has the operations of `struct Graph` as operators from a graph
to a graph, under the code's names, so that a handler that makes several calls
is their composition, in the same order. A flag is the set of the tasks that
have it. `dirty` is a FIFO in the code, filled in the order in which hash sets
are iterated; here it is a set, from which any member may be taken next.

**Kernel** is the loop around it. Messages: `RecvRegister`, `RecvAct` (the
verbs, unpin, remove), `RecvUpdate`, `RecvQuit`, `RecvReport`, `RecvTimeout`.
A message on several tasks acts on them one after the other (`ActOn`). Settling
is at the code's own grain, one step for each queued effect (`ApplyEffect`),
each recomputed task (`Recompute`) and each driven task (`Drive`), so that the
properties speak of the states inside a round as well. Tasks are outside and
may report anything at any time: the properties hold however they behave.

**Waits** extends Kernel: every step of the graph is one of Kernel's, and
`changed` is the flag `state_changed` that a dozen operations set by hand.
Only where it is set does the kernel look at the wait and the watch again
(`check_waits`, `wait_standing`, `is_live`). The watch reports whether any task
is active, and one that waits to be restarted (`Backoff`) counts, as it is coming
back. A wait may be carried over an upgrade, which begins it anew.

**Freeze** is the loop as the rest of the runner sees it. Its graph is only
which tasks are active; in exchange it has the channel itself, the handlers'
own channels, deferred messages, replays, upgrades and quits. A message that a
freeze defers is an *intent*, numbered in the order sent.

**ProcessTask** composes KernelGraph, for one task, with the handler of that
task (`process_main`), its child and the two channels between them. Each
handler action is one turn of its `select!`; `EndTurn` is the check at the top
of the loop, that the output has ended and the child has exited. Each start
gets a number that its reports repeat. The code has none, and no guard reads
it: it is there so that properties can tell runs apart.

**Reaper**, **Connections** and **Upgrade** are one state space in three parts.
Reaper has processes by pid, the registry of the waiter (marks, listeners,
unclaimed exits, the pause) and the tasks' side of it; commands beside the
tasks fork and are waited for too. Connections has the accept loop and, for
each client, its connection's loop (`dispatch_connection`), the requests it
reads, handles and answers, its upgrade or wait session, and how it is frozen,
thawed, carried and closed. Upgrade composes both with `upgrade::run`: stage by
stage, failing or giving up at any of them, and the exec, after which
everything an image keeps in memory is gone and `resume` builds it again from
what was carried. A process has a number beside its pid, which no guard reads.

**Runner** is the runtime directory. The files are names for inodes, a lock is
on an inode, and every system call of a runner (`lock_runner_paths`, the boot,
the quit), of a probe, a cleanup, a stop and a forced kill is a step of its
own, so that anything may happen between two. Runners die anywhere
(`MaxCrashes`), their locks with them; a cleaner of temporary files may take any
one of the directory's names, the lock and liveness files and the socket among
them (`MaxSweeps`); a save may fail, or be one that the next start cannot decode
(`MaxLosses`). **RunnerService** is what all this is for: the directory has one
holder, and the tasks of the user are at one place, unless a holder dies with
them or a save of theirs comes to nothing. `RunnerProperties` has the refinement
mapping: `Holder` is the runner past its two locks, `WhereTasks` the runner that
restored the tasks, the saved file, or nowhere, and `swept` that the liveness file
was taken, from when on nothing is promised.

**ConfigSync** has the config file's text, the base, the tasks with the entry
each came from (its origin), several reloads and a write-back. A plan is a set
of changes computed as `plan` does, some picked; carried out, it is a sequence
of steps, each of which may fail or find its task changed. The write-back
writes some fields, has the file loaded, undoes what does not load, reads back
what is in and records it, item after item in the order listed, which is the
order of the tasks. An agent may be asked to make the edits instead (`AskAgent`);
it makes some of them and ends (`AgentEnds`). The user edits
the file and the tasks meanwhile, and a restart restores some tasks and loses
others. `calm` says of a reload or a write-back that nobody touched what it
works on; what is promised of an undisturbed one is stated of these.

**Lines** and **Grid** are a screen. Lines has rows of cells and lines of
history with the one wrapping rule (`Flow`). Grid has the operations of
`term/grid.rs` as operators from a grid to a grid; an action is what a control
sequence, a resize, the user's scrolling or an upgrade does of them, and
`Settle` is the end of a chunk of output, when the view is looked up again.
A program is bounded by what it may do and how often.

The `...Properties` modules state what is checked, the `MC...` modules the
instances, the `...Proofs` modules the theorems (section 6).

## 3. The runs

| Run | Instance | Properties |
|---|---|---|
| `graph` | job a, service b with a ready timeout, service c pinned in a save, c needs b needs a; c listens to every change and its handler may die; updates exchange deps and kinds; every verb, on one task or on all; 2 commands | `TypeOK`, `Reconciled`, `TimersExact`, `CountersExact`, `GraphClosed`, `StartsAfterDeps`, `StopsAfterDependents`, `LegalTransitions` |
| `waits` | a service that is restarted when it fails, with a ready timeout; a job that needs it, whose handler may die; start, kill, remove; waits for ready, exit, down and a watch; 2 commands | `HeardIsCurrent`, `PendingCanEnd`, `DownAnswered`, `Terminates` |
| `freeze` | two tasks, either may die; two intents, two upgrades, a quit that saves | `FrozenAsAsked`, `GracefulUnlessRepeated`, `NothingLostOrOvertaken`, `SaveFaithful` |
| `freeze_live` | one task; an intent, two quits, two upgrades | `FreezesEnd` |
| `process` | a service with no check, one that reads output or one that polls, or a job; start, restart, kill; 2 commands, 2 restarts, a freeze | `BelievedIsSo`, `RunsApart`, `RunsEnd` |
| `runner` | a start and a stop meet a serving runner, or two starts meet a dead one's files; 3 runners, 7 inodes; anywhere, a crash, a save that comes to nothing or a sweep of any one file | `OneRunner`, `ServingReachable`, `StopIsTrue`, `ImplementsService` |
| `config` | 2 reloads and a write-back, by the writer or an agent, of 2 fields and 3 values: over 2 keys with any two of an edit, a change by hand and a restart; or over 3 keys, two tasks having been moved, one to where the other was | `BaseWasSaid`, `Merges`, `Settles`, `WrittenIsIn`, `OnlyTaken` |
| `upgrade` | populations of 1 or 2 clients, 1 or 2 tasks, 2 pids: a client that pipelines, two that meet, two upgrades, two tasks and a command | `AnsweredOnce`, `SnapshotStands`, `PidsApart`, `VerdictKept`, `GoesOn`, `ExitsReachTheirTask` |
| `grid` | five programs on screens from 1x2 to 4x2 and 2x3, with a narrow and a wide glyph, 3 lines of history, 4 or 5 operations | `Sound`, `RunsAreGlyphs`, `TextKept`, `CursorFollows`, `ViewHolds` |
| `freeze_thawed_quit`, `process_given_up`, `waits_outlived` | as small as the finding needs | section 5 |

Several properties are conjunctions of named parts, each with its own comment
in the module: `Reconciled` of `DirtyTracked`, `Acyclic`, `CachesMatchOracle`
and `SettledIsDriven`; `Terminates` of `SettleTerminates` and `QuitTerminates`;
`FrozenAsAsked` of `ExecFaithful` and `Unfrozen`; `FreezesEnd` of
`IntentsHandled` and `QuitEndsUndisturbed`; `BelievedIsSo` of `ExitTruthful`,
`ReadyOfThisRun` and `ProbeWatching`; `RunsApart` of `ReportsOwnRun` and
`OneChild`; `RunsEnd` of `StartingEnds` and `ExitReported`; `Settles` of
`NothingLeft` and `FailedOffered`; `Sound` of `WideWhole`, `RowsCounted`,
`ViewTrue` and `HistoryInReach`; `TextKept` of `ReflowKeepsText`, `ScrollKeepsText` and
`UpgradeKeepsText`. The types of a module are part of one of them, but for
`graph`, which checks `TypeOK` by itself.

Bounds, and why they are enough. `MaxCmds` bounds only what users send; reports
and timeouts are unbounded, so two commands already meet every state of every
task between and after them. Three tasks are the least with a middle one, that
is held up from above while it waits below; two are the least for a freeze to
be half answered, and two upgrades for an answer to the first to arrive during
the second. In `process`, two verbs and a restart by the kernel give three
runs, enough for a report to be late by more than one. In `runner` the third
runner is the one that a start spawns when the serving one goes; with one
fault per behaviour (`OneFault`: a crash, a loss or a sweep of one file) every
single system call is one at which it may strike, and the scenario of a dead
runner's files has had a crash before. A sweep of the liveness file ends a
behaviour there, since nothing is promised after it.
`LockTries` is 2 and 8 in the code: once around, and giving up. In `config`,
two reloads and a write-back are the least for one to read what another has
half done; three values tell the base, the file and the task apart. The third
key is for two renames of which one takes the key that the other leaves
(`Chain`), listed in either order; what begins with one entry stays within two
keys (`Small`). In `upgrade`, two pids are the least for one to be used again while another is
alive. In `grid`, a screen of 1 to 4 columns has every case of a wide glyph at
an edge; 3 lines of history are soon full.

Symmetry is used in `freeze` (the tasks), `runner` (runners not yet started,
clients) and `config` (reloads, values not in the file at first): each is used
by name only, and these runs check no liveness. `process`, `runner`, `config`,
`upgrade` and `grid` do not check for deadlock: their users do only so much,
after which the system rests. The other models have a `Stand` step for the
states in which a loop really waits, so that a deadlock anywhere else is found.

## 4. Fairness

- *Kernel* and *Waits*: weak fairness of the loop's own steps (`Turn`: a turn
  does not stop halfway) and strong fairness of each timeout, because `select!`
  polls its branches in random order and a timer stays expired until it is
  taken. No task need ever report.
- *Freeze*: of the loop, of the save's timeout (a `sleep`), of the end of an
  upgrade (it has timeouts of its own) and of giving up on a stop, which is
  what `Terminates` shows of Kernel. No task need answer a freeze.
- *ProcessTask*: of both loops, of the reaper, of the thaw after a failed
  freeze, and of the end of the output of a child that has exited, whose
  terminal the system closes. No child need exit and no check need pass. Some
  of these are written with what enables the action spelled out, which is what
  weak fairness means and spares TLC computing `ENABLED`.
- *Upgrade*: of accepting and serving each client, of starting or refusing an
  upgrade, of each task's turns, of the reaper, the kernel and `upgrade::run`,
  stage by stage. Giving up on the kernel's freeze is fair, because it has a
  timeout. Giving up on the connections is not: `GoesOn` shows that they freeze
  without it. A child need not exit.
- *Runner*, *ConfigSync* and *Grid* state safety only: nothing there waits on
  anything that is not a user, a lock another process holds, or a program.

Users and programs do only so much in an instance, so liveness is stated as
what holds again and again, and not from the start.

*Upgrade* assumes one thing of the operating system (`Reusable`): a pid is given
out again only after the handler that knew its last holder has been told of the
exit, and after a spawn under way with that pid is registered. The handler
kills by pid until it is told, so without this a kill could reach another
child.

## 5. Findings

Each is a run whose one property quotes the repository and is violated by a
short behaviour.

1. `freeze_thawed_quit`. An upgrade that is refused because a quit is saving
   still sends `Thaw`, which thaws the quit's freeze. The quit is forgotten.
2. `process_given_up`. A task stopped for not being ready in time that also
   outlives its kill is given up on without `stop_timed_out`. If it was
   unpinned meanwhile, it ends as plain `Idle`, and a wait for its exit is met
   while its process runs. Longer behaviours of the same model (drop the
   `gaveUp` condition from a property) show the other ways a stop that was
   given up on confuses runs: the next start is ignored as long as the old
   process lives, and a report of the old run is taken for the new one's.
3. `waits_outlived`. A job that is done stays satisfied when the service it
   needs has exited for good, and `is_live` takes a satisfied dep as enough. A
   task starts only when its deps are supported too (`compute_supported`). So a
   task that needs that job, stopped and still wanted, is never started again
   unless somebody acts, while a wait for it stays pending. `PendingCanEnd`
   names this case (`Outlives`) and shows that it is the only one.

What follows was met while modelling and is allowed by the models (a property
names the case it leaves out, in its comment). No run is about it.

*Kernel and its tasks.* A quit that saves while a handler is dead drops its
reply and leaves its freeze in place, though the comment says that it goes on
without saving. A stop may overtake an exit report queued in the same round,
and a message deferred twice may be overtaken by a newer one. An update changes
the restart mode of an ended task at once, so that `Exited` may stand on a task
that would now be brought back.

*Config.* A plan decides from the tasks as they were when it was made. A task
started or redefined since is removed, and a value changed here since is
overwritten with nothing picked; `docs/cli/reload.md` says "Gone from the
config: removed, unless it runs or was changed here." and "Changed on both
sides: kept as here, unless you pick the config's." Two tasks can come to have
one origin. After an agent has edited the file, a rename that it did not make
can be recorded. The base takes what was written entry by entry
(`Project::record`), so of two renames, a to b listed before b to c, the second
removes the b that the first one recorded, though `write_back.rs:5-7` says
"Either way, each entry that then reads back as written is recorded in the base".
The writer refuses that order, b being taken when it comes to a; an agent may
well make both edits, and then the base lacks b (`Left` names this case in
`WrittenIsIn`), so that a reload offers the entry.

*Runner.* A start waits for the flock (`acquire_flock_blocking`) for as long as
the earlier runner serves, and holds the startup lock meanwhile. When the
liveness file was swept, a runner can be told from a dead one by nothing, and a
second may start beside it: the promises are for as long as nobody takes that file
(`LiveKept`). When the socket was, the runner goes on but is reached only by the
pid in its record (`lockfile.rs:537-545`), so that a stop has to kill it. A save
that fails on a quit or a failing start, and a saved file that does not decode,
lose the tasks with no more than a line in the log (`server.rs:343-352`,
`444-450`). A stop that finds the runner starting at its deadline kills whoever
wrote the lock file, and that may be a successor of the one it was sent for.

*Upgrade and connections.* A client that hung up with a request in flight
answers the freeze and then closes the descriptor that its snapshot names, so
that the upgrade fails at `set_cloexec` (`SnapshotStands` is about the others).
A second upgrade request, refused but with its error not yet polled when the
first one's freeze arrives, is carried as the pending one, and the new image
answers it "ok". A wait that has finished but not closed is carried as an RPC
connection, which the new image does not close; `wait.rs` says that the server
does. An upgrade in flight when the same client asks for a wait is never
answered (`dropped`), though earlier requests are to be answered first.
Connections accepted after `close_all` are not told of the close. Between a
spawner's mark and its fork another thread may reap an earlier process.

*Grid.* A line of history that ends in a wide glyph is counted a row short where
the wrap puts that glyph on a row of its own (a narrow and a wide glyph on two
columns), because the line's last cell is not stored; the view then cannot be
scrolled to the first row of history (`CountedShort`). An open line of history whose last row ends in padding is snapshotted
with blanks, so that after an upgrade a blank is in the middle of the rejoined
line (`FullRow`). `restore_cursor` with a saved origin mode may leave the cursor
outside the region. Padding that an edit moved before the cursor counts as a
cell in `set_size`'s offset. On a screen or region of one row a wrap is not
recorded in history; a wide glyph on a screen of one column is written as
filler. A scroll down that parts a wrapped row from its continuation lets a
view that is scrolled back drift (`Unparted`).

## 6. Proofs

The theorems hold for every value of the constants that meets the assumptions
of the modules. TLC evaluates the assumptions on every run, and has checked the
inductive invariants on the instances above; the runs check the same properties
as the theorems, under the same names.

| Module | Theorem | Property |
|---|---|---|
| `KernelProofs` | `TypeCorrect`, `GraphStaysClosed`, `CountersStayExact`, `DependentsFirst` | `TypeOK`, `GraphClosed`, `CountersExact`, `StopsAfterDependents` |
| | `TimersStayExact`, `TransitionsLegal` | `TimersExact`, `LegalTransitions` |
| | `KernelReconciles`, `DependenciesFirst` | `Reconciled`, `StartsAfterDeps` |
| `WaitsProofs` | `ClientsHearAll`, `OpenWaitsCanEnd` | `HeardIsCurrent`, `PendingCanEnd` |
| `FreezeProofs` | `TasksStayFrozen`, `SavesAreFaithful`, `QuitIsGraceful`, `NothingIsLost` | `FrozenAsAsked`, `SaveFaithful`, `GracefulUnlessRepeated`, `NothingLostOrOvertaken` |
| `ProcessTaskProofs` | `BelievedTrue`, `RunsKeptApart` | `BelievedIsSo`, `RunsApart` |
| `RunnerProofs` | `OneOwner` | `OneRunner` |
| | `ServingIsReachable`, `FilesServe` | `ServingReachable`, `ImplementsService` |
| `UpgradeProofs` | `ChildrenApart`, `SnapshotTrue`, `VerdictsKept` | `PidsApart`, `SnapshotStands`, `VerdictKept` |
| `UpgradeAnswersProofs` | `AnswersOnce` | `AnsweredOnce` |
| `ConfigSyncProofs` | `BaseSaid`, `TakesOnlyTaken` | `BaseWasSaid`, `OnlyTaken` |
| | `ReloadMerges`, `ReloadSettles`, `WritesAreIn` | `Merges`, `Settles`, `WrittenIsIn` |

**KernelProofs**: theorems of `Kernel!Spec`, for every finite set of tasks and
every choice of definitions, selections, verbs and `MaxCmds`.

- **GraphStaysClosed**. No edge dangles and no queued id is of a task that is
  gone; the code `expect`s this in its hot path.
- **CountersStayExact**. `wanted_parents` and `active_dependents`, kept by
  `+= 1` and `-= 1` in five places, are at every step the cardinality of what
  they count. So these `u32` never underflow.
- **DependentsFirst**. A drive decides on a counter and not on the dependents;
  that it decides right follows from the counter being exact in the middle of a
  round.

Assumptions: `TaskAssumption` (finitely many ids, the init id is not a task)
and `KernelAssumption` (what the constants are).

The argument. `Sound(gr)` says that a graph is a `Graph`, that its edges and its
queue are within its tasks (`Closed`), that a task which is not registered is
neither wanted nor active nor pinned in a save (`Clean`), and that its counters
are exact (`Counted`). There is one lemma for each operation of `KernelGraph`:
it takes a sound graph to a sound graph. `Clean` is what makes this inductive:
without it, registering a task could give it a wanted or active past that its
counters do not know. The inductive invariant `IInv` adds to `Sound(g)` what
the loop knows: `todo` and `toDrive` are registered tasks, empty outside their
phases, and `fresh` ids are not registered. `NextIInv` has one step for each
action.

Its second half adds where each run is. `Marks` says that a task has a
deadline exactly when its state is a timed one, that `killed` and
`start_failed` are flags of a stop and `stop_timed_out` of a task that is down,
and that a task which is not registered is `Idle`: an id is registered again
after a removal, and a deadline left from before would fire into the new task's
first state. `Move` is the life cycle; `Fine` is both, and there is again a
lemma for each operation. That a verb's several calls make one legal move is
by composition.

Its third part is about the round. The caches `wanted` and
`supported` are kept step by step, and the claim is about the whole graph.

- `Tracked`: a task that is not queued has caches that its neighbours' give.
  An operation is `Seen` when every task that sees a change of it is queued
  afterwards; this is the lemma per operation, and it is where a forgotten
  `mark_dirty` would show.
- `Loopless`: no task is in its own closure. It is kept because an edge is added
  only where `would_cycle` finds no way back, and because fewer edges
  make no loop.
- With nothing queued and no loop, caches that agree with their neighbours are
  what the graph says as a whole (a set of tasks where they differ has a last
  or a first element, where they cannot), and each task that was driven is where
  its cache puts it, unless a change of it was seen since.

`RInv` is `Base` (these, with all but the tasks still to be driven where they
should be), `Checked` (an update has no loop left for any of the tasks it goes on
to change) and `Round` (while tasks are driven the caches still are what the
graph says, though the drive of one changes what others see). **DependenciesFirst**
then says of a start what the drive does not look at: that every dep is
satisfied, by the graph, at the moment of the start.

**WaitsProofs** extends KernelProofs. A wait is looked at again only after a step that
raised `state_changed`. `Told` says where nothing changed that tells how a task
stands: `Terms` are its kind and restart mode, `Onward` what a verb may do
without the flag. Each operation either is `Told` or raises the flag, so that
what a client last heard is so whenever the loop waits: of a wait where each task
stands, and of the watch whether a task is active or waits for its back-off. **OpenWaitsCanEnd** is
the other half: what a pending wait depends on is live, so the chain of what it
needs is followed down to a first task (`FirstAndLast`: a finite set without
loops has one), which runs, stops or waits for its back-off; or `Outlives`
(finding 3). `WholeInv` is `IInv`, `RInv` and the wait's own `WInv`. Assumption:
`WaitAssumption`, besides those of Kernel.

**FreezeProofs**: theorems of `Freeze!Spec`, for any finite set of tasks and
any number of intents, upgrades and quits.

- **TasksStayFrozen**. As long as an upgrade may exec, the kernel is frozen by
  that upgrade's freeze, every active task with it, and the snapshot is what the
  tasks are. One that gave up leaves no freeze.
- **SavesAreFaithful**, **QuitIsGraceful**: what a quit saves, and that the loop
  ends with tasks active only when told to quit twice.

A task may answer late, end instead of answering, or answer an earlier freeze,
and each of these is a message in one queue with the freeze's own. `LoopInv`
is `FInv` and `Sealed`. `FInv` has the order in that queue and in the tasks'
inboxes: a task that has not obeyed the last freeze has it last in its inbox
(`InStep`), no answer is ahead of the kernel's number (`Numbered`), a run that
ended is reported before its task answers the upgrade's freeze (`EndsFirst`), no
thaw is behind the freeze of the upgrade under way (`Kept`) and one is behind
each that gave up (`Followed`). `Sealed` says that only an upgrade which got its
answer execs. Since a turn of the loop is a function of the kernel and the queue (deferred
messages are replayed inside it, and one may freeze again), each part is stated
of a kernel `kk` and a queue `q` and followed through the turn.

**NothingIsLost** is about the messages in between: every intent that was sent
is handled, deferred, handed back or queued, once, and until a quit in the order
in which it was sent. `InLine` says so of three sequences, what was handled,
what is deferred and what is to be handled, part by part and between the parts,
so that no step has to look into them: a message goes from the front of the
third to the end of one of the others (`HandledNext`, `DeferredNext`,
`Dropped`), and a thaw puts the second before the third (`HandedBack`). That a
thaw lets nothing overtake needs that nothing handed back is left when it comes.
It is so of every thaw but that of a quit which was itself handed back, after
which the runner only ends. Assumption: `FreezeAssumption`.

**ProcessTaskProofs** is about the two loops, the kernel's and the handler's,
and the two channels between them, for any definition of the task and any
number of verbs, runs and freezes.

- **BelievedTrue**. When a wait for `exit` is met the task has no process; it is
  Ready only by a check that passed in this very run; and a check the kernel
  waits for is being made, also after a freeze cut it off.
- **RunsKeptApart**. A report moves the task only when it is of the run that was
  started last, though no report says of which run it is; and no child starts
  beside another one, nor finds an exit the last one left.

All of it is but for a stop the kernel gave up on (`gaveUp`, a finding of
section 5). The argument is the order of the two channels. `PInv` says how far
the last run has come, against the state the kernel has the task in
(`Progress`): a task that is down `Rests`, with no process and nothing under
way; one that is not is at one of three places. Its start is still `Coming`,
with nothing of an earlier run behind it; or it `Lives`, all reports under way
are its own, `Started` is first among them and none says it ended, and while
the kernel has it up no stop is on its way; or it `Ends`, the process is over
and the report of that is the last one. So the kernel starts a run only when
nothing is left of the one before. `Held` relates the handler to its child, an
exit being taken once; `Thawing` says that a handler stays frozen only while
the kernel is or the thaw is on its way. The kernel's part is KernelGraph's on
the graph of one task (`Lone`), with a lemma for each operation and for
settling: what it does to the state of the task is one step of a few
(`Driven`, `Turned`). Assumption: `ProcessAssumption`.

**RunnerProofs** proves of `Runner!Spec`, for any number of runners, inodes and
clients, of crashes, losses and sweeps, that two runners never own the directory,
though starts race, any process may die between any two calls, and the names
of the lock files are taken away and made again. All of it holds while nobody
takes the liveness file (`LiveKept`); the lock file, the record, the socket and
the error file may be taken at any time.

Assumptions: `RunnerAssumption` and `ScenarioAssumption` (the first states are
ones that runners leave behind).

The argument. A lock does not suffice, because it is on a file and the name may
by then be another's. The inductive part, `LiveGuarded`, says that a runner
which owns the directory holds the flock of the very file that the directory
names as liveness file. It is kept because the name, if no sweep takes it, is
taken away only by who holds the lock of the file it names, and because a cleanup
looks at the name again after it got the lock. Two owners would both hold the flock of one file.

The second half of RunnerProofs is what that is for. `Found` says that the socket in the
directory is that of the runner which bound it, and the record that of the one
which serves, unless a sweep took the one or the other; with `LiveGuarded` it is
inductive,
because whoever else would remove them has to hold the lock of the liveness
file first. **FilesServe** is the refinement of RunnerService. `Placed` says
that only a runner which took the saved tasks has any, and that none are saved
meanwhile; every step of a runner is one of a few deeds (`Deed`: it goes on,
gets the directory, takes the tasks or finds them of no use, gives them back or
fails to, parts with the directory, drops all it has), and each deed is a step
of RunnerService or a stutter. So tasks are lost only with a process that died
with them, with a save that failed or with a saved file that does not decode, each
of the last two counted (`losses`). Assumption: `PlaceAssumption`, that the two places
which are not runners are none.

**UpgradeProofs**: theorems of `Upgrade!Spec`, for any finite set of clients
and any tasks, pids, populations and numbers of upgrades.

- **ChildrenApart**. Across upgrades that fail at any stage or succeed, every
  owner is handed the exit of its own process, once at most, and no kill, not
  even of a resume that failed, reaches a number whose process was reaped.
- **SnapshotTrue**. When the kernel has answered, the snapshot has every
  connection that is there, as it is, with no handler running.
- **VerdictsKept**. A verdict the kernel gave is written for its client, though
  the runner is exiting and whatever froze meanwhile, unless the client left, the
  time to write ended, or a new image gives the verdict anew.
- **AnswersOnce** (UpgradeAnswersProofs, which extends it). Whatever clients send, in however many reads it comes, and
  however often a connection is frozen, thawed and carried into a new image, a
  request is answered once at most and a session's verdict is the last its
  client hears; and the state is of the shape the code gives it (`TypeOK`).

`ChildInv` is the inductive invariant. Of the children (`Children`): until it is
handed over, the exit of a run is at one place at most, its process or the
unclaimed exits (`OnePlace`); who listens at a pid listens for the process that
has it (`Listening`); between its mark and its registration a spawner's process
either is there, and what is unclaimed at that pid is from before the mark, or
it was reaped since, and what is unclaimed is its own (`Ahead`); no two tasks
wait for one pid (`Apart`). Of the freezes
(`Numbers`): one that was given up on has an earlier number, wherever a message
of it still is. Of the tasks (`TasksHeld`): once the kernel answered, a task
that obeyed has no exit that the snapshot lacks, and one that has not has the
freeze last among its commands. Of the connections (`ConnsHeld`): each either
`Answers`, and is as it said, or `Awaits` the freeze, after all that is about
earlier ones. `VerdictsKept` needs what each session was told besides
(`Hearing`): a set before a verdict and nothing after it, at most one request to
wait in the kernel's queue, none once the wait was taken up, and no wait held by
a kernel that is over; then a verdict leaves a session's events only as it is
written. `AnswersOnce` needs `Answering`. Of each connection (`Once`): what was
not read has the numbers after what was (`InTurn`), what is to be answered was
read and is one thing (`Owed`: a call that runs, the upgrade in flight or the
wait), and of the requests that were read those to be answered have no answer
and no other has two (`Given`); after a last frame nothing is to be answered
(`Over`). Of the upgrade under way: the one who asked for it still waits for it,
and a connection that has answered the freeze is what it handed over, though its
client left (`Carries`), so that the new image, which takes it from the snapshot,
says nothing again. Each step of a connection keeps the three (`Fares`).
Assumptions: `ConnectionsAssumption`, `ReaperAssumption`, and `UpgradeAssumption`,
that the populations are some and that the requester `Other` is no client; and, in the
actions themselves, `Reusable` (section 4).

**ConfigSyncProofs**: theorems of `ConfigSync!PSpec`, the reloads and write-backs
with all that is done by hand meanwhile, for any finite config, any fields and
values, and any number of callers, edits and restarts.

- **BaseSaid**. A value that the base has of a field is one the file has had,
  whatever fails or is restarted between two steps; and who carries out a plan or
  records a write holds the lock both share, and nobody else does.
- **TakesOnlyTaken**. A step of a reload changes of a task only the fields its
  plan takes of the entry at this task's path, to what the config says, whatever
  was changed since the plan.
- **ReloadMerges**. A reload that nothing disturbs leaves each task that had an
  entry as the three-way merge of the base, the config and the task.
- **ReloadSettles**. A plan made right after such a reload, from the base it left,
  has no change but of entries that were left by choice or that failed, and it has
  one for each that failed.
- **WritesAreIn**. After a write-back that nothing disturbs, the writer's or an
  agent's, a reload would change no field that was written; the base has the
  definition of the task, and a second write-back has nothing for the entry. The
  last two are but for an entry of an agent's that a later item left (section 5):
  the writer makes no such edits.

`CInv` has the shapes of plans, steps and write-backs (`Whole`) and, of the
first, what the file has said (`said`, a history): the entries of a plan, of a
base and of a write-back are of values the file had, but for the fields that an
item is about to write, which are read back from the file before the base takes
them. The others it leaves as the file or the base says (`LeavesKnown`). `Held`
is the lock: a restart drops it with all that held it. Of a key, the base has what
the last of the items recorded that names it says (`LastSays`). What a write-back makes of
the text is a fold over its items; `EditAllIs` follows it entry by entry, by
induction over the naturals in its set form (`Upto`).

`CalmInv` adds what holds of a reload as long as nothing disturbed it (`CalmOf`).
Planned, its config is the file's text and its plan has one change for each entry
or task that calls for one, each as its kind says (`Of`, `Fits`). Picks keep that
(`Alters`): they turn what is to be done and not what a change is of. While it is
applied, the tasks are what the plan says but for the steps still to do and the
changes that failed (`Under`): a step that is over is carried out, each task from
before is as it was but for such steps (`Follows`), and each later one is for an
entry that was added (`IsNew`). Two due steps of one task agree (`DueIs`), though
a task may be listed elsewhere than its entry, and two entries may be one task's.
When it is done, this and the base it leaves (`BaseLeft`) give the merge and what
a plan made anew would have (`DoneWell`).

`WrittenInv` is the like of a write-back (`WrittenOf`): its items are those of
their tasks and one per entry (`OneEach`), what was read back is what the file
has, and at the end the base has it (`Behind`). That no later item of the writer's
leaves a key an earlier one took is told by the file: what an item left, and no
later one took, is vacant (`EditAllLeaves`, kept from the edit to the record by
`Vacated`), so an item that took the key before would not have read back
(`NoneLeft`).

The proofs corrected two properties. `WrittenIsIn` first said that no later item
of the key an item had takes the entry elsewhere; with more tasks than the run
had, another task of that origin may have such an item, so of that key it now
excludes only an item of the task written. `FailedOffered` first allowed that an
entry that failed is not offered, if its task has what it was to take; it always
is. Assumption: `ConfigAssumption`.

Only model-checked:

- everything about liveness and fairness (`Terminates`, `DownAnswered`,
  `FreezesEnd`, `RunsEnd`, `GoesOn`, `ExitsReachTheirTask`), which the prover
  does not reach;
- `StopIsTrue`, that a stop which found a runner does not say it is stopped while
  that runner has the directory;
- Grid (`Sound`, `RunsAreGlyphs`, `TextKept`, `CursorFollows`, `ViewHolds`), whose
  operators are folds over rows and cells: what they compute for every input
  needs induction over data.

## 7. The plan

To model, in this order: the state timers (the delay queue refines the mark on
the task; a timer of an earlier epoch never fires into a later state); the
namespace (tries as operators, against sets of paths); attach sessions and the
screens they follow; a wait client that reconnects after an upgrade; margins,
tabs and the alternate screen.

To prove: the invariants of what is added. Of what is modelled now, every safety
property but those of Grid and `StopIsTrue` has its theorem.

## 8. What is left out

Within the modelled parts:

- *Kernel*: folders, tags and labels in the graph; moving and duplicating;
  batches of registrations; the length of delays, among them the doubling of
  the back-off; the step budget of `settle`, which is never reached where
  `SettleTerminates` holds. In Freeze a handler that is frozen does not end: it
  does nothing that could fail.
- *ProcessTask*: descriptors, sockets and screens; Windows.
- *Upgrade*: the format and versions of the snapshot, the check of the new
  binary, attach sessions.
- *Runner*: the sweep of a session after a forced kill, the fallback to a kill
  by pid, versions of the record.
- *ConfigSync*: folders and the order of entries, deps between entries, mounts
  and defaults, several files, and the layout that the writer keeps. That a plan
  is made only while nobody holds the lock is a guard of the model, as it is of the
  code, and no property is about it.
- *Grid*: margins, tabs, styles, images, clusters of code points and the
  alternate screen. A written space is a glyph like any other.

Parsing YAML and commands, the escape scanner and the emitter, key encodings,
help pages and the JavaScript bindings transform data without interleavings,
and the repository's own property tests cover them. The console follows the
kernel's notifications and decides nothing of the graph; loggers write what
they are given; `mprocs` is a second front end over the same parts.
