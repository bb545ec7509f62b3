----------------------- MODULE ConfigSyncProperties -----------------------
(***************************************************************************)
(* What a reload and a write-back promise of the file, the base and the    *)
(* tasks.                                                                  *)
(***************************************************************************)
EXTENDS ConfigSync

VARIABLE said    \* what each entry has said in the file, field by field

pvars == <<vars, said>>

SaysOf(text) == {<<k, f, text[k][f]>> : k \in In(text), f \in Fields}
PInit == Init /\ said = SaysOf(disk.text)
PNext == Next /\ said' = said \cup SaysOf(disk'.text)
PSpec == PInit /\ [][PNext]_pvars

\* Every variable has its type: paths are the tasks' own, what is recorded is an
\* entry, and who carries out a plan or records a write holds the lock (project.rs
\* syncing).
TypeOK ==
    /\ disk \in [text : Entries, loads : BOOLEAN]
    /\ base \in Entries
    /\ \A i \in Here(tasks) : /\ tasks[i].path \in Keys /\ tasks[i].origin \in Keys \cup {Gone}
                              /\ tasks[i].spec \in Specs
    /\ \A i, j \in Here(tasks) : i # j => tasks[i].path # tasks[j].path
    /\ \A i \in Ids : i >= nextId => tasks[i] = Gone
    /\ syncing \in Reloads \cup {"write", Gone}
    /\ \A r \in Reloads : reload[r].pc = "apply" <=> syncing = r
    /\ wb.pc = "record" <=> syncing = "write"

\* A value the base has of a field is one the file has had: what is recorded
\* after a write is what the file reads back, not what was asked for
\* (write_back.rs written, read_back; reload.rs carried_out).  Of an entry
\* moved here it may be the file's under the old key.
BaseWasSaid ==
  /\ TypeOK
  /\ \A k \in In(base), f \in Fields : \E o \in Keys : <<o, f, base[k][f]>> \in said

\* A reload's update of a task changes the fields taken of the entry that is at its
\* path and no other, whatever was changed by hand after the plan was made or carried
\* out this far (kernel.rs Update with `was`, reload.rs steps).
OnlyTaken ==
    [][\A r \in Reloads, i \in Ids :
         (RunStep(r) /\ tasks[i] # Gone /\ tasks'[i] # Gone)
            => \A f \in Changed(tasks[i].spec, tasks'[i].spec) :
                 \E c \in reload[r].changes, st \in reload[r].steps :
                    /\ f \in c.take /\ tasks'[i].spec[f] = reload[r].config[c.key][f]
                    /\ st.act = "update" /\ st.key = c.key /\ st.path = tasks[i].path]_pvars

\* Undisturbed, and with nothing picked by hand, a reload is the three-way
\* merge docs/cli/reload.md lists: what changed only in the config is taken,
\* and every other value is the one here.  Of tasks that share an entry one is
\* seen.
ThreeWay(b, h, c) == IF h = b THEN c ELSE h
Merges ==
    \A r \in Reloads :
      (reload[r].pc = "done" /\ reload[r].calm /\ ~reload[r].picked /\ FailedKeys(reload[r]) = {}) =>
        \A i \in Here(tasks) \cap Here(reload[r].live) :
          LET was == reload[r].live[i]
              k == tasks[i].origin
              old == IF was.origin = Gone THEN Gone ELSE reload[r].base[was.origin]
          IN k = Gone \/ old = Gone \/ Cardinality(From(tasks, k)) > 1
               \/ \A f \in Fields :
                    tasks[i].spec[f] = ThreeWay(old[f], was.spec[f], reload[r].config[k][f])

\* Undisturbed, a reload leaves nothing for the next one but what was left by
\* choice and what failed.
NothingLeft ==
    \A r \in Reloads :
      (reload[r].pc = "done" /\ reload[r].calm) =>
        \A c \in Plan(disk.text, base, tasks) :
          \/ c.key \in FailedKeys(reload[r])
          \/ \E d \in reload[r].changes :
               d.key = c.key /\ d.kind \in {"added", "removed_here", "written"} /\ ~d.apply

\* "A change that failed: a reload offers it again" (reload.rs carried_out).
FailedOffered ==
    \A r \in Reloads :
      (reload[r].pc = "done" /\ reload[r].calm) =>
        FailedKeys(reload[r]) \subseteq {d.key : d \in Plan(disk.text, base, tasks)}

\* A reload that was not disturbed has said the last word on each entry, or says it
\* again.
Settles == NothingLeft /\ FailedOffered

\* An agent may write items that the writer refuses in the order they are listed: of
\* one moved to a key that a later one leaves, the base loses what it took for it.
Left(it) ==
    \E m, n \in DOMAIN wb.order :
      /\ m < n /\ wb.order[m] = it /\ wb.order[n] \in wb.entries
      /\ wb.order[n].key = it.entry /\ wb.order[n].entry # it.entry

\* Undisturbed, what was written is behind both: the entry is its task's, a
\* reload would change none of the fields written, the base has its
\* task's definition, and a write-back has nothing to write to the entry; what it has for a key
\* the entry left is another task's.  Of tasks that share an entry one is seen
\* (write_back.rs written, and prompt: "`dekit reload`: it should list none of these
\* tasks as changed").
WrittenIsIn ==
    (wb.pc = "done" /\ wb.calm) =>
      \A it \in {w \in wb.entries : Cardinality(From(tasks, w.entry)) <= 1} :
        /\ it.task # Gone => tasks[it.task].origin = it.entry
        /\ \A c \in Plan(disk.text, base, tasks) : c.key = it.entry => c.fields \cap it.fields = {}
        /\ ~(wb.agent /\ Left(it)) =>
             /\ base[it.entry] = it.spec
             /\ \A w \in WriteItems(disk.text, base, tasks, {}) :
                  w.key # it.entry /\ (w.key = it.key => w.task \notin {it.task, Gone})
===========================================================================
