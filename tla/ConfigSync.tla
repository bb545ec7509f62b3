---------------------------- MODULE ConfigSync ----------------------------
(***************************************************************************)
(* The config on disk and the runner's tasks brought in line: reloads      *)
(* (reload.rs), write-backs (write_back.rs, config/writer.rs), the base    *)
(* both compare with and the lock they share (project.rs), the commands    *)
(* they issue (command.rs), edits made to the file and to the tasks while  *)
(* a plan waits for its user, and a restart from saved tasks               *)
(* (task/config_tasks.rs).                                                 *)
(*                                                                         *)
(* An entry is known by its key, which is its path: one file, mounted at   *)
(* the root.  A definition is a value for each field.  Folders, the list's *)
(* order and deps are left out.                                            *)
(***************************************************************************)
EXTENDS Integers, FiniteSets, SequencesExt

CONSTANTS
    Keys,          \* keys of entries, and the paths of tasks
    Fields,        \* the keys of a definition
    Values,        \* what a field says
    Gone,          \* no entry, no task, no origin
    Reloads,       \* callers of a reload: consoles, RPC requests
    MaxId,         \* task ids in all
    MaxEdits,      \* changes made to the file by hand
    MaxLocals,     \* changes made to the tasks by hand
    MaxPlans,      \* reloads and write-backs planned
    MaxRestarts    \* quits that save, each followed by a start

ASSUME ConfigAssumption ==
    /\ MaxId \in Nat /\ MaxPlans \in Nat /\ MaxEdits \in Nat /\ MaxLocals \in Nat /\ MaxRestarts \in Nat
    /\ IsFiniteSet(Keys)
    /\ {"write", Gone} \cap Reloads = {} /\ Gone # "write"
    /\ Gone \notin [Fields -> Values] /\ Gone \notin Keys /\ Gone \notin 1..MaxId
    /\ Gone \notin [path : Keys, origin : Keys \cup {Gone}, spec : [Fields -> Values], running : BOOLEAN]

VARIABLES
    disk,      \* [text: what each entry says, loads: whether the file does]
    base,      \* Project.base: what each entry said when last taken in
    tasks,     \* the runner's tasks by id
    nextId,    \* the next task's id
    syncing,   \* who holds Project.syncing, or Gone
    reload,    \* each caller's reload
    wb,        \* the console's write-back
    spent      \* changes made by hand and restarts so far

vars == <<disk, base, tasks, nextId, syncing, reload, wb, spent>>

Ids == 1..MaxId
Specs == [Fields -> Values]
Entries == [Keys -> Specs \cup {Gone}]
Here(t) == {i \in Ids : t[i] # Gone}
At(t, k) == {i \in Here(t) : t[i].path = k}
From(t, k) == {i \in Here(t) : t[i].origin = k}
In(config) == {k \in Keys : config[k] # Gone}
Changed(a, b) == {f \in Fields : a[f] # b[f]}

(***************************************************************************)
(* A reload's plan.                                                        *)
(***************************************************************************)
Change(kind, k, task, path, fields, apply, was) ==
    [kind |-> kind, key |-> k, task |-> task, path |-> path,
     fields |-> fields, take |-> {}, apply |-> apply, was |-> was,
     way |-> FALSE, taken |-> FALSE, failed |-> FALSE]

\* The fields the config changed, unless both sides made them the same; and
\* those of them that are taken: the task here has not changed them.
Offered(b, h, c) == {f \in Changed(b, c) : h[f] # c[f]}
\* Mutant: a conflict is the config's.
TakenAll(b, h, c) == Offered(b, h, c)
Taken(b, h, c) == {f \in Offered(b, h, c) : h[f] = b[f]}

\* The task an entry is: by its origin, else one at its path whose own entry
\* is gone, which takes this one as its own.  Of several tasks with one
\* origin the last listed counts.
Adopts(config, t, k) ==
    IF From(t, k) # {} THEN {} ELSE {i \in At(t, k) : t[i].origin \notin In(config) \cup {Gone}}
TaskOf(config, t, k) ==
    LET found == IF From(t, k) # {} THEN From(t, k) ELSE Adopts(config, t, k)
    IN IF found = {} THEN Gone ELSE CHOOSE i \in found : \A j \in found : j <= i

\* What a reload makes of an entry the config has: nothing, or one change.
EntryChange(config, bs, t, k) ==
    LET i == TaskOf(config, t, k)
        own == {j \in At(t, k) : t[j].origin = Gone /\ t[j].spec = config[k]}
        was == IF bs[t[i].origin] = Gone THEN config[k] ELSE bs[t[i].origin]
        offered == Offered(was, t[i].spec, config[k])
        taken == Taken(was, t[i].spec, config[k])
    IN IF i # Gone
       THEN IF offered = {} THEN {}
            ELSE {[Change("changed", k, i, t[i].path, offered, taken # {}, was)
                     EXCEPT !.take = taken]}
       ELSE IF own # {}
       THEN {Change("written", k, CHOOSE j \in own : TRUE, k, {}, TRUE, Gone)}
       ELSE {Change(IF bs[k] = Gone THEN "added" ELSE "removed_here", k, Gone, k, {},
                    bs[k] = Gone, bs[k])}

Adopted(config, t) == UNION {Adopts(config, t, k) : k \in In(config)}
GoneChange(bs, t, i) ==
    LET was == bs[t[i].origin]
    IN Change("removed", t[i].origin, i, t[i].path, {},
              was # Gone /\ t[i].spec = was /\ ~t[i].running, was)

\* Marks each new task that a task here would be in the way of once the
\* changes taken are carried out.
CheckTheWay(t, changes) ==
    LET gone == {c.task : c \in {d \in changes : d.kind = "removed" /\ d.apply}}
        InTheWay(c) == At(t, c.path) \ gone # {}
    IN {IF c.kind \notin {"added", "removed_here"} \/ InTheWay(c) = c.way THEN c
        ELSE IF InTheWay(c) THEN [c EXCEPT !.way = TRUE, !.taken = c.apply, !.apply = FALSE]
        ELSE [c EXCEPT !.way = FALSE, !.apply = c.taken]
        : c \in changes}

Plan(config, bs, t) ==
    CheckTheWay(t,
        (UNION {EntryChange(config, bs, t, k) : k \in In(config)})
        \cup {GoneChange(bs, t, i) :
                i \in {j \in Here(t) \ Adopted(config, t) : t[j].origin \notin In(config) \cup {Gone}}})

NoReload == [pc |-> "idle", config |-> [k \in Keys |-> Gone], base |-> [k \in Keys |-> Gone],
             live |-> [i \in Ids |-> Gone], changes |-> {}, steps |-> {}, picked |-> FALSE,
             calm |-> FALSE]

\* Whatever else changes the file, the base or the tasks ends the calm of the
\* others, and what is known of a reload or a write-back that is done.
\* Observed only: no action reads it.
StirredReload(rl) == IF rl.pc = "done" THEN NoReload ELSE [rl EXCEPT !.calm = FALSE]
Stirred(rs) == [r \in Reloads |-> StirredReload(rs[r])]
StirredBut(rs, r) == [s \in Reloads |-> IF s = r THEN rs[s] ELSE StirredReload(rs[s])]
NoWrite == [pc |-> "idle", items |-> {}, order |-> <<>>, agent |-> FALSE, old |-> Gone, new |-> Gone,
            failed |-> {}, read |-> {}, entries |-> {}, calm |-> FALSE]
StirredWrite == IF wb.pc = "done" THEN NoWrite ELSE [wb EXCEPT !.calm = FALSE]

Planned == /\ spent.plans < MaxPlans
           /\ spent' = [spent EXCEPT !.plans = @ + 1]

\* A file that does not load makes no plan.
PlanReload(r) ==
    /\ reload[r].pc \in {"idle", "planned", "done"}
    /\ syncing = Gone
    /\ reload' = [reload EXCEPT ![r] =
         IF disk.loads
         THEN [NoReload EXCEPT !.pc = "planned", !.config = disk.text, !.base = base,
                               !.live = tasks, !.changes = Plan(disk.text, base, tasks),
                               !.calm = TRUE]
         ELSE NoReload]
    /\ Planned
    /\ UNCHANGED <<disk, base, tasks, nextId, syncing, wb>>

\* The dialog takes or leaves a change whole.
Toggle(r, c) ==
    LET apply == ~c.apply \/ (c.take # {} /\ c.take # c.fields)
        toggled == [c EXCEPT !.apply = apply, !.take = IF apply THEN c.fields ELSE {}]
    IN /\ reload[r].pc = "planned"
       /\ reload' = [reload EXCEPT
            ![r].changes = CheckTheWay(reload[r].live, (reload[r].changes \ {c}) \cup {toggled}),
            ![r].picked = TRUE]
       /\ UNCHANGED <<disk, base, tasks, nextId, syncing, wb, spent>>

(***************************************************************************)
(* The steps that carry a plan out, by stage: entries tasks take as        *)
(* theirs, removals, tasks written into the config, new tasks, changes.    *)
(***************************************************************************)
Step(stage, k, act, task, path, to, was) ==
    [stage |-> stage, key |-> k, act |-> act, task |-> task, path |-> path, to |-> to, was |-> was]

\* A task kept is the runner's own from now on.
Removal(c) == IF c.apply THEN {Step(2, c.key, "remove", c.task, Gone, Gone, Gone)}
              ELSE {Step(2, c.key, "origin", c.task, Gone, Gone, Gone)}

\* Which tasks take which entries as theirs.
Adoptions(plan) ==
    {p \in Ids \X In(plan.config) :
       p[1] = TaskOf(plan.config, plan.live, p[2]) /\ plan.live[p[1]].origin # p[2]}

\* A task with what is taken of the config.
Merged(plan, live, c) ==
    [f \in Fields |-> IF f \in c.take THEN plan.config[c.key][f] ELSE live[c.task].spec[f]]

Steps(plan, live) ==
    LET Of(kind) == {c \in plan.changes : c.kind = kind}
        adopts == Adoptions(plan)
        OriginOf(i) == IF \E p \in adopts : p[1] = i THEN (CHOOSE p \in adopts : p[1] = i)[2]
                       ELSE live[i].origin
        written == {c \in Of("written") : c.apply}
        at == ({OriginOf(i) : i \in Here(live)} \ {c.key : c \in {d \in Of("removed") : d.apply}})
              \cup {c.key : c \in written}
    IN {Step(1, Gone, "origin", p[1], Gone, p[2], Gone) : p \in adopts}
       \cup (UNION {Removal(c) : c \in Of("removed")})
       \cup {Step(3, c.key, "origin", c.task, Gone, c.key, Gone) : c \in written}
       \cup {Step(4, c.key, "add", Gone, c.path, plan.config[c.key], Gone) :
               c \in {d \in Of("added") \cup Of("removed_here") : d.apply /\ d.key \notin at}}
       \cup {Step(5, c.key, "update", c.task, live[c.task].path, Merged(plan, live, c),
                   live[c.task].spec) :
               c \in {d \in Of("changed") :
                        live[d.task] # Gone /\ Merged(plan, live, d) # live[d.task].spec}}

BeginApply(r) ==
    /\ reload[r].pc = "planned"
    /\ syncing = Gone
    /\ nextId + Cardinality({c \in reload[r].changes : c.task = Gone}) <= MaxId + 1    \* bound
    /\ syncing' = r
    /\ reload' = [reload EXCEPT ![r].pc = "apply", ![r].steps = Steps(reload[r], tasks)]
    /\ UNCHANGED <<disk, base, tasks, nextId, wb, spent>>

Task(path, origin, spec) == [path |-> path, origin |-> origin, spec |-> spec, running |-> FALSE]

\* An update is for the task at a path, and only while its definition is the
\* one it was made from.
\* Mutant: the update does not say what it was made from.
UpdatableAny(st) == At(tasks, st.path)
Updatable(st) == {i \in At(tasks, st.path) : tasks[i].spec = st.was}

Free(k) == At(tasks, k) = {}

\* The kernel carries a step out.  Telling a task its origin, and removing a
\* task, of what is gone is no failure.
Done(st) ==
    CASE st.act = "origin" ->
           /\ tasks' = IF tasks[st.task] = Gone THEN tasks
                       ELSE [tasks EXCEPT ![st.task].origin = st.to]
           /\ UNCHANGED nextId
      [] st.act = "remove" ->
           /\ tasks' = [tasks EXCEPT ![st.task] = Gone]
           /\ UNCHANGED nextId
      [] st.act = "add" ->
           /\ Free(st.path) /\ nextId \in Ids    \* bound
           /\ tasks' = [tasks EXCEPT ![nextId] = Task(st.path, st.key, st.to)]
           /\ nextId' = nextId + 1
      [] st.act = "update" ->
           \E i \in Updatable(st) :
             /\ tasks' = [tasks EXCEPT ![i].spec = st.to]
             /\ UNCHANGED nextId
\* A new task at a taken path and an update of another definition are
\* refused; so is either when what its deps name is not here.
Refused(st) ==
    /\ st.act \in {"add", "update"}
    /\ UNCHANGED <<tasks, nextId>>

Ready(r) == {st \in reload[r].steps : \A o \in reload[r].steps : st.stage <= o.stage}
FailedKeys(rl) == {c.key : c \in {d \in rl.changes : d.failed}}
Fail(changes, k) == {IF c.key = k THEN [c EXCEPT !.failed = TRUE] ELSE c : c \in changes}

RunStep(r) ==
    /\ reload[r].pc = "apply"
    /\ \E st \in Ready(r) :
         LET left == [reload EXCEPT ![r].steps = @ \ {st}]
         IN \/ /\ st.key \in FailedKeys(reload[r])
               /\ reload' = left
               /\ UNCHANGED <<tasks, nextId, wb>>
            \/ /\ st.key \notin FailedKeys(reload[r])
               /\ Done(st)
               /\ reload' = StirredBut(left, r)
               /\ wb' = StirredWrite
            \/ /\ st.key \notin FailedKeys(reload[r])
               /\ Refused(st)
               /\ reload' = [left EXCEPT ![r].changes = Fail(@, st.key)]
               /\ UNCHANGED wb
    /\ UNCHANGED <<disk, base, syncing, spent>>

\* The base a plan carried out leaves: each entry as the config says it, but
\* for a new one not taken, and one whose change failed.
\* Mutant: a change that failed is taken in like the others.
CarriedOutWhole(plan) ==
    [k \in Keys |->
       IF \E c \in plan.changes : c.key = k /\ c.kind \in {"added", "written"} /\ ~c.apply
       THEN Gone ELSE plan.config[k]]
CarriedOut(plan) ==
    [k \in Keys |->
       LET of == {c \in plan.changes : c.key = k}
           failed == {c \in of : c.failed}
           left == {c \in of : c.kind \in {"added", "written"} /\ ~c.apply}
       IN IF failed # {} THEN (CHOOSE c \in failed : TRUE).was
          ELSE IF left # {} THEN Gone
          ELSE plan.config[k]]

FinishApply(r) ==
    /\ reload[r].pc = "apply" /\ reload[r].steps = {}
    /\ base' = CarriedOut(reload[r])
    /\ syncing' = Gone
    /\ reload' = [StirredBut(reload, r) EXCEPT ![r].pc = "done"]
    /\ wb' = StirredWrite
    /\ UNCHANGED <<disk, tasks, nextId, spent>>

(***************************************************************************)
(* A write-back.                                                           *)
(***************************************************************************)
\* An item is of the task `task`, or of none for one removed here; `fields`
\* are those it writes, and `entry` the key it is under once written.
Item(kind, k, task, entry, fields, spec) ==
    [kind |-> kind, key |-> k, task |-> task, entry |-> entry, fields |-> fields, spec |-> spec]

ChangedHere(config, bs, task) ==
    LET was == IF bs[task.origin] = Gone THEN config[task.origin] ELSE bs[task.origin]
    IN {f \in Changed(config[task.origin], task.spec) : task.spec[f] # was[f]}

WriteItems(config, bs, t, include) ==
    {it \in {Item("changed", t[i].origin, i, t[i].path, ChangedHere(config, bs, t[i]), t[i].spec) :
               i \in {j \in Here(t) : t[j].origin \in In(config)}} :
       it.fields # {} \/ it.entry # it.key}
    \cup {Item("added", t[i].path, i, t[i].path, Fields, t[i].spec) :
            i \in {j \in Here(t) \cap include : t[j].origin = Gone}}
    \cup {Item("removed", k, Gone, k, {}, Gone) :
            k \in {e \in In(config) : From(t, e) = {} /\ bs[e] # Gone}}

\* As tasks are listed, those removed here last.
Listings(items) ==
    {order \in SetToSeqs(items) :
       \A i, j \in DOMAIN order :
         i < j /\ order[i].kind = "removed" => order[j].kind = "removed"}

\* With a task of the runner's own included only that is taken unless chosen;
\* the dialog then takes and leaves items one by one.
PlanWrite ==
    /\ wb.pc \in {"idle", "done"}
    /\ syncing = Gone
    /\ disk.loads
    /\ \E include \in SUBSET {i \in Here(tasks) : tasks[i].origin = Gone} :
       \E chosen \in (SUBSET WriteItems(disk.text, base, tasks, include)) \ {{}} :
       \E order \in Listings(chosen) :
         wb' = [NoWrite EXCEPT !.pc = "planned", !.items = chosen, !.order = order, !.calm = TRUE]
    /\ Planned
    /\ UNCHANGED <<disk, base, tasks, nextId, syncing, reload>>

\* An entry with what an item writes of it.
Body(text, it) == [f \in Fields |-> IF f \in it.fields THEN it.spec[f] ELSE text[it.key][f]]

\* The writer's edit of a file for an item; Gone when it refuses.
Edited(text, it) ==
    CASE it.kind = "removed" ->
           IF text[it.key] = Gone THEN Gone ELSE [text EXCEPT ![it.key] = Gone]
      [] it.kind = "added" ->
           IF text[it.key] # Gone THEN Gone ELSE [text EXCEPT ![it.key] = it.spec]
      [] it.kind = "changed" ->
           IF text[it.key] = Gone \/ (it.entry # it.key /\ text[it.entry] # Gone) THEN Gone
           ELSE [text EXCEPT ![it.key] = Gone, ![it.entry] = Body(text, it)]
EditAll(text, order) ==
    LET done[n \in 0..Len(order)] ==
          IF n = 0 THEN [text |-> text, failed |-> {}]
          ELSE LET before == done[n - 1]
                   new == Edited(before.text, order[n])
               IN IF new = Gone THEN [before EXCEPT !.failed = @ \cup {order[n]}]
                  ELSE [before EXCEPT !.text = new]
    IN done[Len(order)]

\* The file is read and edited with one item after another; the writer may
\* find nothing of the text it can edit safely.
ReadFile ==
    /\ wb.pc = "planned"
    /\ LET done == EditAll(disk.text, wb.order)
       IN \/ /\ done.failed # wb.items
             /\ wb' = [wb EXCEPT !.pc = "read", !.failed = done.failed,
                                 !.old = disk, !.new = done.text]
          \/ wb' = [wb EXCEPT !.pc = "wrote", !.failed = wb.items]
    /\ UNCHANGED <<disk, base, tasks, nextId, syncing, reload, spent>>

\* Renamed over the file, whatever it says by now.
WriteFile ==
    /\ wb.pc = "read"
    /\ disk' = [disk EXCEPT !.text = wb.new]
    /\ wb' = [wb EXCEPT !.pc = "check"]
    /\ reload' = Stirred(reload)
    /\ UNCHANGED <<base, tasks, nextId, syncing, spent>>

\* Loaded again as a fresh start would: deps on what the config lacks fail
\* there.  A write the config does not load with is undone.
CheckWrite ==
    /\ wb.pc = "check"
    /\ \/ /\ disk.loads
          /\ wb' = [wb EXCEPT !.pc = "wrote", !.old = Gone, !.new = Gone]
          /\ UNCHANGED <<disk, reload>>
       \/ /\ disk' = wb.old
          /\ wb' = [wb EXCEPT !.pc = "wrote", !.failed = wb.items, !.old = Gone, !.new = Gone]
          /\ reload' = Stirred(reload)
    /\ UNCHANGED <<base, tasks, nextId, syncing, spent>>

\* An agent is asked instead.  What it does of that it does at once here;
\* whatever else it does to the file is done by hand.
AskAgent ==
    /\ wb.pc = "planned"
    /\ wb' = [wb EXCEPT !.pc = "agent", !.agent = TRUE]
    /\ UNCHANGED <<disk, base, tasks, nextId, syncing, reload, spent>>

AgentText(text, items) ==
    [k \in Keys |->
       LET now == {it \in items : it.entry = k /\ it.kind # "removed"}
           it == CHOOSE w \in now : TRUE
       IN IF now # {} THEN (IF it.kind = "added" \/ text[it.key] = Gone THEN it.spec ELSE Body(text, it))
          ELSE IF \E w \in items : w.key = k THEN Gone
          ELSE text[k]]

\* It ends, and what it did is checked.
AgentEnds ==
    /\ wb.pc = "agent"
    /\ \E did \in SUBSET wb.items : disk' = [disk EXCEPT !.text = AgentText(@, did)]
    /\ wb' = [wb EXCEPT !.pc = "wrote"]
    /\ reload' = Stirred(reload)
    /\ UNCHANGED <<base, tasks, nextId, syncing, spent>>

\* An item written reads back when its entry says what the task has, in what
\* was written, or is gone.
\* Mutant: an entry that is there reads back.
ReadsBackSome(text, it) ==
    IF it.kind = "removed" THEN text[it.entry] = Gone ELSE text[it.entry] # Gone
ReadsBack(text, it) ==
    IF it.kind = "removed" THEN text[it.entry] = Gone
    ELSE text[it.entry] # Gone /\ Changed(text[it.entry], it.spec) \cap it.fields = {}

\* What failed of a path is all there is at it.
ReadBack ==
    /\ wb.pc = "wrote" /\ syncing = Gone
    /\ IF ~disk.loads
       THEN /\ wb' = [wb EXCEPT !.pc = "done", !.failed = wb.items]
            /\ UNCHANGED syncing
       ELSE LET read == {it \in wb.items : /\ it.entry \notin {f.entry : f \in wb.failed}
                                      /\ ReadsBack(disk.text, it)}
            IN /\ wb' = [wb EXCEPT !.pc = "record", !.failed = wb.items \ read, !.read = read]
               /\ syncing' = "write"
    /\ UNCHANGED <<disk, base, tasks, nextId, reload, spent>>

\* A task written takes its entry as its own; what was written for one gone
\* meanwhile is new to the runner.
TakeEntry(it) ==
    /\ wb.pc = "record" /\ it \in wb.read
    /\ IF it.task # Gone /\ tasks[it.task] = Gone
       THEN /\ wb' = [wb EXCEPT !.read = @ \ {it}]
            /\ UNCHANGED <<tasks, reload>>
       ELSE /\ tasks' = IF it.task = Gone THEN tasks
                        ELSE [tasks EXCEPT ![it.task].origin = it.entry]
            /\ wb' = [wb EXCEPT !.read = @ \ {it}, !.entries = @ \cup {it}]
            /\ reload' = Stirred(reload)
    /\ UNCHANGED <<disk, base, nextId, syncing, spent>>

\* The base takes the entries written one after another, and loses the key
\* each left: what it has of a key is for the last of them to say.
\* Mutant: it loses the keys left once it has taken them all.
RecordedLeftLast(bs, order, written) ==
    [k \in Keys |->
       LET now == {it \in written : it.entry = k}
       IN IF \E it \in written : it.key = k /\ it.entry # k THEN Gone
          ELSE IF now # {} THEN (CHOOSE it \in now : TRUE).spec ELSE bs[k]]
Recorded(bs, order, written) ==
    [k \in Keys |->
       LET saying == {n \in DOMAIN order : order[n] \in written /\ k \in {order[n].key, order[n].entry}}
           last == order[Max(saying)]
       IN IF saying = {} THEN bs[k] ELSE IF last.entry = k THEN last.spec ELSE Gone]

Record ==
    /\ wb.pc = "record" /\ wb.read = {}
    /\ base' = Recorded(base, wb.order, wb.entries)
    /\ wb' = [wb EXCEPT !.pc = "done"]
    /\ syncing' = Gone
    /\ reload' = Stirred(reload)
    /\ UNCHANGED <<disk, tasks, nextId, spent>>

(***************************************************************************)
(* Changes made by hand, and a restart.                                    *)
(***************************************************************************)
Stir ==
    /\ reload' = Stirred(reload)
    /\ wb' = StirredWrite

EditFile ==
    /\ spent.edits < MaxEdits
    /\ \/ \E k \in Keys, e \in Specs \cup {Gone} :
            /\ e # disk.text[k]
            /\ disk' = [disk EXCEPT !.text[k] = e]
       \/ disk' = [disk EXCEPT !.loads = ~@]
    /\ spent' = [spent EXCEPT !.edits = @ + 1]
    /\ Stir
    /\ UNCHANGED <<base, tasks, nextId, syncing>>

Local == /\ spent.locals < MaxLocals
         /\ spent' = [spent EXCEPT !.locals = @ + 1]
         /\ Stir
         /\ UNCHANGED <<disk, base, syncing>>
LocalAdd ==
    \E k \in Keys, s \in Specs :
      /\ Free(k) /\ nextId \in Ids
      /\ tasks' = [tasks EXCEPT ![nextId] = Task(k, Gone, s)]
      /\ nextId' = nextId + 1
      /\ Local
LocalUpdate ==
    \E i \in Here(tasks), f \in Fields, v \in Values :
      /\ tasks[i].spec[f] # v
      /\ tasks' = [tasks EXCEPT ![i].spec[f] = v]
      /\ UNCHANGED nextId
      /\ Local
LocalMove ==
    \E i \in Here(tasks), k \in Keys :
      /\ Free(k)
      /\ tasks' = [tasks EXCEPT ![i].path = k]
      /\ UNCHANGED nextId
      /\ Local
LocalRemove ==
    \E i \in Here(tasks) :
      /\ tasks' = [tasks EXCEPT ![i] = Gone]
      /\ UNCHANGED nextId
      /\ Local
LocalStart ==
    \E i \in Here(tasks) :
      /\ tasks' = [tasks EXCEPT ![i].running = ~@]
      /\ UNCHANGED nextId
      /\ Local

\* A quit that saves the tasks and the base, and the next start's restore:
\* what a task's origin no longer can be restored is left out of the base, so
\* that a reload offers it again.  What was planned or under way is lost.
Restart(lost) ==
    /\ spent.restarts < MaxRestarts
    /\ lost \subseteq Here(tasks)
    /\ tasks' = [i \in Ids |-> IF i \in lost \/ tasks[i] = Gone THEN Gone
                               ELSE [tasks[i] EXCEPT !.running = FALSE]]
    /\ base' = [k \in Keys |-> IF \E i \in lost : tasks[i].origin = k THEN Gone ELSE base[k]]
    /\ syncing' = Gone
    /\ reload' = [r \in Reloads |-> NoReload]
    /\ wb' = NoWrite
    /\ spent' = [spent EXCEPT !.restarts = @ + 1]
    /\ UNCHANGED <<disk, nextId>>

Fresh(text) ==
    /\ disk = [text |-> text, loads |-> TRUE]
    /\ base = text
    /\ \E order \in SetToSeqs(In(text)) :
         tasks = [i \in Ids |-> IF i \in DOMAIN order THEN Task(order[i], order[i], text[order[i]])
                                ELSE Gone]
    /\ nextId = Cardinality(In(text)) + 1
    /\ syncing = Gone
    /\ reload = [r \in Reloads |-> NoReload]
    /\ wb = NoWrite
    /\ spent = [plans |-> 0, edits |-> 0, locals |-> 0, restarts |-> 0]
Init == \E text \in Entries : Fresh(text)

Next ==
    \/ \E r \in Reloads :
         \/ PlanReload(r) \/ BeginApply(r) \/ RunStep(r) \/ FinishApply(r)
         \/ \E c \in reload[r].changes : Toggle(r, c)
    \/ PlanWrite \/ ReadFile \/ WriteFile \/ CheckWrite \/ AskAgent \/ AgentEnds \/ ReadBack
    \/ \E it \in wb.read : TakeEntry(it)
    \/ Record
    \/ EditFile \/ LocalAdd \/ LocalUpdate \/ LocalMove \/ LocalRemove \/ LocalStart
    \/ \E lost \in SUBSET Here(tasks) : Restart(lost)

Spec == Init /\ [][Next]_vars
===========================================================================
