-------------------------- MODULE ConfigSyncProofs --------------------------
(***************************************************************************)
(* Theorems on reloads and write-backs, for any config, tasks and callers, *)
(* and any number of plans, changes made by hand and restarts.             *)
(***************************************************************************)
EXTENDS ConfigSyncProperties, FiniteSetTheorems, SequenceTheorems, TLAPS

-----------------------------------------------------------------------------
(* The types *)

TaskRec == [path : Keys, origin : Keys \cup {Gone}, spec : Specs, running : BOOLEAN]
TaskFns == [Ids -> TaskRec \cup {Gone}]
ChangeRec ==
  [kind : {"changed", "written", "added", "removed_here", "removed"},
   key : Keys, task : Ids \cup {Gone}, path : Keys,
   fields : SUBSET Fields, take : SUBSET Fields, apply : BOOLEAN, was : Specs \cup {Gone},
   way : BOOLEAN, taken : BOOLEAN, failed : BOOLEAN]
StepRec ==
  [stage : 1 .. 5, key : Keys \cup {Gone}, act : {"origin", "remove", "add", "update"},
   task : Ids \cup {Gone}, path : Keys \cup {Gone}, to : Keys \cup Specs \cup {Gone},
   was : Specs \cup {Gone}]
ReloadRec ==
  [pc : {"idle", "planned", "apply", "done"}, config : Entries, base : Entries,
   live : TaskFns, changes : SUBSET ChangeRec, steps : SUBSET StepRec,
   picked : BOOLEAN, calm : BOOLEAN]
ItemRec ==
  [kind : {"changed", "added", "removed"}, key : Keys, task : Ids \cup {Gone},
   entry : Keys, fields : SUBSET Fields, spec : Specs \cup {Gone}]
Disk == [text : Entries, loads : BOOLEAN]
WriteRec ==
  [pc : {"idle", "planned", "agent", "read", "check", "wrote", "record", "done"},
   items : SUBSET ItemRec, order : Seq(ItemRec), agent : BOOLEAN, old : Disk \cup {Gone}, new : Entries \cup {Gone},
   failed : SUBSET ItemRec, read : SUBSET ItemRec, entries : SUBSET ItemRec, calm : BOOLEAN]

\* What is gone is no task.
LEMMA GoneIsNone == Gone \notin TaskRec
BY ConfigAssumption DEF TaskRec, Specs

\* No two tasks are at one path.
Spread(t) == \A i, j \in Here(t) : i # j => t[i].path # t[j].path

\* A task is one of those made so far.
Made(t, n) == \A i \in Ids : i >= n => t[i] = Gone

-----------------------------------------------------------------------------
(* What a plan and its steps are *)

\* A change is of a task, of an entry the config has, or of both.
ChangeOf(config, c) ==
  /\ c.kind \in {"changed", "written", "removed"} => c.task \in Ids
  /\ c.kind # "removed" => c.key \in In(config)

\* A step is of a task or for a path, with what it needs.
StepOf(st) ==
  /\ st.act \in {"origin", "remove"} => st.task \in Ids
  /\ st.act = "origin" => st.to \in Keys \cup {Gone}
  /\ st.act = "add" => st.path \in Keys /\ st.key \in Keys /\ st.to \in Specs
  /\ st.act = "update" => st.path \in Keys /\ st.to \in Specs /\ st.was \in Specs

\* An update takes what the plan takes.
TakesOnly(rl, st) ==
  st.act = "update" =>
    \A f \in Changed(st.was, st.to) :
      \E c \in rl.changes : c.key = st.key /\ f \in c.take /\ st.to[f] = rl.config[c.key][f]

\* An item says where it came from: what it does not write the file says already.
ItemOf(it) ==
  /\ it.kind = "removed" => it.spec = Gone
  /\ it.kind # "removed" => it.spec \in Specs
  /\ it.kind = "added" => it.fields = Fields /\ it.entry = it.key

-----------------------------------------------------------------------------
(* What the file said *)

\* What e says, the file said, under one key or another.
Said(sd, e, S) == \A f \in S : \E o \in Keys : <<o, f, e[f]>> \in sd
SaidAll(sd, text) == \A k \in In(text) : Said(sd, text[k], Fields)

SaidPlan(sd, rl) ==
  /\ SaidAll(sd, rl.config) /\ SaidAll(sd, rl.base)
  /\ \A c \in rl.changes : c.was # Gone => Said(sd, c.was, Fields)

\* The fields an item leaves alone the file said as they are; those of an item
\* read back it says now.
SaidWrite(sd, w) ==
  /\ \A it \in w.items : it.kind = "changed" => Said(sd, it.spec, Fields \ it.fields)
  /\ \A it \in w.read \cup w.entries : it.kind # "removed" => Said(sd, it.spec, Fields)

\* A reload and a write-back, apart from what the file said.
ReloadOf(rl) ==
  /\ rl \in ReloadRec
  /\ Spread(rl.live)
  /\ \A c \in rl.changes : ChangeOf(rl.config, c)
  /\ \A st \in rl.steps : StepOf(st) /\ TakesOnly(rl, st)
  /\ rl.pc = "planned" => rl.steps = {}

WriteOf(w) ==
  /\ w \in WriteRec
  /\ IsFiniteSet(w.items) /\ w.order \in Listings(w.items)
  /\ \A it \in w.items : ItemOf(it)
  /\ w.read \cup w.entries \subseteq w.items
  /\ w.pc \in {"read", "check"} => w.old \in Disk
  /\ w.pc = "read" => w.new \in Entries

\* The tasks, the base and the reloads.
TasksOf(t, n) == t \in TaskFns /\ Spread(t) /\ n \in Nat /\ Made(t, n)
BaseOf(sd, b) == b \in Entries /\ SaidAll(sd, b)
ReloadsOf(sd, rs) ==
  rs \in [Reloads -> ReloadRec] /\ \A r \in Reloads : ReloadOf(rs[r]) /\ SaidPlan(sd, rs[r])

\* All of it, with what the file said as sd.
Whole(sd, d, b, t, n, s, rs, w) ==
  /\ d \in Disk /\ BaseOf(sd, b) /\ TasksOf(t, n)
  /\ s \in Reloads \cup {"write", Gone}
  /\ ReloadsOf(sd, rs)
  /\ WriteOf(w) /\ SaidWrite(sd, w)

\* The inductive invariant.
CInv ==
  /\ Whole(said, disk, base, tasks, nextId, syncing, reload, wb)
  /\ SaysOf(disk.text) \subseteq said

-----------------------------------------------------------------------------
(* Plans *)

\* What an entry's task had been, for a plan.
WasOf(config, bs, t, i, k) == IF bs[t[i].origin] = Gone THEN config[k] ELSE bs[t[i].origin]

\* What a change was is what the config or the base has.
WasKnown(config, bs, c) ==
  \/ c.was = Gone
  \/ \E o \in In(config) : c.was = config[o]
  \/ \E o \in In(bs) : c.was = bs[o]

\* The config has for a task other than it is.
Offers(config, bs, t, i, k) == Offered(WasOf(config, bs, t, i, k), t[i].spec, config[k]) # {}

\* The change of an entry whose task the config changed.
IsChanged(config, bs, t, c) ==
  LET i == TaskOf(config, t, c.key)
      was == WasOf(config, bs, t, i, c.key)
  IN /\ c.key \in In(config) /\ i \in Here(t)
     /\ c.task = i /\ c.path = t[i].path /\ c.was = was
     /\ c.fields = Offered(was, t[i].spec, config[c.key]) /\ c.fields # {}

\* It takes what is not the task's own, unless the dialog says otherwise.
TakesThat(config, bs, t, c) ==
  c.kind = "changed" =>
    c.take = Taken(WasOf(config, bs, t, c.task, c.key), t[c.task].spec, config[c.key])

\* The change of an entry that is a task here by its path and its definition.
IsWritten(config, t, c) ==
  /\ c.key \in In(config) /\ TaskOf(config, t, c.key) = Gone
  /\ c.task \in At(t, c.key) /\ t[c.task].origin = Gone

\* The change of a task whose entry is gone.
IsRemoved(config, t, c) ==
  /\ c.task \in Here(t) \ Adopted(config, t)
  /\ t[c.task].origin \notin In(config) \cup {Gone}
  /\ c.key = t[c.task].origin

\* The change of an entry that no task here is.
IsMissing(config, t, c) == c.key \in In(config) /\ TaskOf(config, t, c.key) = Gone

\* What a change is, by its kind.
Fits(config, bs, t, c) ==
  /\ c \in ChangeRec
  /\ c.kind = "changed" => IsChanged(config, bs, t, c)
  /\ c.kind # "changed" => c.fields = {}
  /\ c.kind = "written" => IsWritten(config, t, c)
  /\ c.kind \in {"added", "removed_here"} => IsMissing(config, t, c)
  /\ c.kind = "removed" => IsRemoved(config, t, c)
ChangeIs(config, bs, t, c) ==
  /\ Fits(config, bs, t, c) /\ TakesThat(config, bs, t, c)
  /\ ~c.failed /\ WasKnown(config, bs, c)
  /\ ChangeOf(config, c)

\* What is in a plan, whatever of it is taken: a change for each entry and each task
\* that calls for one, and one for an entry.
Shaped(config, bs, t, changes) ==
  /\ \A c \in changes : Fits(config, bs, t, c)
  /\ \A k \in In(config), i \in Ids :
       i = TaskOf(config, t, k) /\ Offers(config, bs, t, i, k) =>
         \E c \in changes : c.kind = "changed" /\ c.key = k
  /\ \A k \in In(config) : TaskOf(config, t, k) = Gone => \E c \in changes : c.key = k
  /\ \A i \in Here(t) \ Adopted(config, t) :
       t[i].origin \notin In(config) \cup {Gone} =>
         \E c \in changes : c.kind = "removed" /\ c.task = i
  /\ \A c, d \in changes : c.key = d.key /\ c.key \in In(config) => c = d

\* A change of the same entry and task.
Same(c, d) ==
  /\ d \in ChangeRec
  /\ d.kind = c.kind /\ d.key = c.key /\ d.task = c.task /\ d.path = c.path
  /\ d.was = c.was /\ d.fields = c.fields
Alters(changes, g) == \A c \in changes : Same(c, g[c])

\* What is taken of a plan and what fails does not change its shape.
LEMMA AlteredShaped ==
  ASSUME NEW config, NEW bs, NEW t, NEW changes, Shaped(config, bs, t, changes),
         NEW g, Alters(changes, g)
  PROVE  Shaped(config, bs, t, {g[c] : c \in changes})
<1> DEFINE D == {g[c] : c \in changes}
<1>1. \A c \in changes : Same(c, g[c]) /\ g[c] \in D
  BY DEF Alters
<1>2. ASSUME NEW d \in D PROVE \E c \in changes : d = g[c] /\ Same(c, d)
  BY <1>1
<1> HIDE DEF D
<1>3. ASSUME NEW d \in D PROVE Fits(config, bs, t, d)
  <2>1. PICK c \in changes : Same(c, d)
    BY <1>2
  <2>2. Fits(config, bs, t, c)
    BY DEF Shaped
  <2> QED
    BY <2>1, <2>2 DEF Fits, Same, IsChanged, IsWritten, IsMissing, IsRemoved
<1>4. ASSUME NEW c \in D, NEW d \in D, c.key = d.key, c.key \in In(config) PROVE c = d
  <2>1. PICK x \in changes : c = g[x] /\ Same(x, c)
    BY <1>2
  <2>2. PICK y \in changes : d = g[y] /\ Same(y, d)
    BY <1>2
  <2>3. x.key = y.key /\ x.key \in In(config)
    BY <1>4, <2>1, <2>2 DEF Same
  <2>4. x = y
    BY <2>3 DEF Shaped
  <2> QED
    BY <2>1, <2>2, <2>4
<1>5. ASSUME NEW k \in In(config), NEW i \in Ids,
             i = TaskOf(config, t, k), Offers(config, bs, t, i, k)
      PROVE  \E d \in D : d.kind = "changed" /\ d.key = k
  <2>1. PICK c \in changes : c.kind = "changed" /\ c.key = k
    BY <1>5 DEF Shaped
  <2> QED
    BY <1>1, <2>1 DEF Same
<1>6. ASSUME NEW k \in In(config), TaskOf(config, t, k) = Gone PROVE \E d \in D : d.key = k
  <2>1. PICK c \in changes : c.key = k
    BY <1>6 DEF Shaped
  <2> QED
    BY <1>1, <2>1 DEF Same
<1>7. ASSUME NEW i \in Here(t) \ Adopted(config, t), t[i].origin \notin In(config) \cup {Gone}
      PROVE  \E d \in D : d.kind = "removed" /\ d.task = i
  <2>1. PICK c \in changes : c.kind = "removed" /\ c.task = i
    BY <1>7 DEF Shaped
  <2> QED
    BY <1>1, <2>1 DEF Same
<1>8. Shaped(config, bs, t, D)
  BY <1>3, <1>4, <1>5, <1>6, <1>7 DEF Shaped
<1> QED
  BY <1>8 DEF D

\* Of some numbers one is the highest.
LEMMA Highest ==
  ASSUME NEW N \in Nat, NEW S \in SUBSET (1 .. N), S # {}
  PROVE  \E i \in S : \A j \in S : j <= i
<1> DEFINE R == OpToRel(<, Nat)
           T == {n \in Nat : \A j \in S : j <= n}
<1>1. IsWellFoundedOn(R, Nat)
  BY NatLessThanWellFounded
<1>2. \A x, y \in Nat : x < y => <<x, y>> \in R
  BY DEF OpToRel
<1> HIDE DEF R
<1>3. N \in T
  OBVIOUS
<1>4. PICK n \in T : \A m \in T : ~(<<m, n>> \in R)
  BY <1>1, <1>3, WFMin
<1>5. n \in S
  <2>1. SUFFICES ASSUME n \notin S PROVE FALSE
    OBVIOUS
  <2>2. n \in Nat
    OBVIOUS
  <2>3. ASSUME NEW j \in S PROVE j \in 1 .. N /\ j < n
    <3>1. j \in 1 .. N /\ j <= n /\ j # n
      BY <2>1
    <3> QED
      BY <2>2, <3>1
  <2>4. n - 1 \in Nat
    <3>1. PICK j \in S : TRUE
      OBVIOUS
    <3> QED
      BY <2>2, <2>3, <3>1
  <2>5. \A j \in S : j <= n - 1
    BY <2>2, <2>3
  <2>6. n - 1 \in T /\ n - 1 < n
    BY <2>2, <2>4, <2>5
  <2> QED
    BY <1>2, <1>4, <2>2, <2>6
<1> QED
  BY <1>5

\* Of some tasks one was made last.
LEMMA Latest ==
  ASSUME NEW S \in SUBSET Ids, S # {}
  PROVE  \E i \in S : \A j \in S : j <= i
BY Highest, ConfigAssumption DEF Ids

\* The task of an entry is one that has it, or else one that takes it.
LEMMA TaskOfIs ==
  ASSUME NEW config, NEW t, NEW k
  PROVE  LET i == TaskOf(config, t, k)
         IN \/ i = Gone /\ From(t, k) = {} /\ Adopts(config, t, k) = {}
            \/ i # Gone /\ i \in From(t, k)
            \/ i # Gone /\ i \in Adopts(config, t, k) /\ From(t, k) = {}
<1> DEFINE found == IF From(t, k) # {} THEN From(t, k) ELSE Adopts(config, t, k)
           i == TaskOf(config, t, k)
<1>1. From(t, k) \in SUBSET Ids /\ Adopts(config, t, k) \in SUBSET Ids
  BY DEF From, Adopts, At, Here
<1>2. CASE found = {}
  BY <1>2 DEF TaskOf
<1>3. CASE found # {}
  <2>1. i = CHOOSE j \in found : \A m \in found : m <= j
    BY <1>3 DEF TaskOf
  <2>2. \E j \in found : \A m \in found : m <= j
    BY <1>1, <1>3, Latest
  <2>3. i \in found
    BY <2>1, <2>2
  <2>4. i # Gone
    BY <1>1, <2>3, ConfigAssumption DEF Ids
  <2> QED
    BY <2>3, <2>4
<1> QED
  BY <1>2, <1>3

\* The task of an entry is here, and what it was is an entry.
LEMMA TaskOfHere ==
  ASSUME NEW config \in Entries, NEW bs \in Entries, NEW t \in TaskFns, NEW k \in In(config),
         TaskOf(config, t, k) # Gone
  PROVE  LET i == TaskOf(config, t, k)
             was == WasOf(config, bs, t, i, k)
         IN /\ i \in Here(t) /\ t[i] \in TaskRec /\ t[i].origin \in Keys
            /\ was \in Specs
            /\ was = config[k] \/ (t[i].origin \in In(bs) /\ was = bs[t[i].origin])
<1> DEFINE i == TaskOf(config, t, k)
<1>1. i \in Here(t) /\ (t[i].origin = k \/ t[i].origin # Gone)
  BY TaskOfIs, ConfigAssumption DEF From, Adopts, At
<1> HIDE DEF i
<1>2. t[i] \in TaskRec
  BY <1>1 DEF Here, TaskFns
<1>3. k \in Keys /\ config[k] \in Specs
  BY DEF In, Entries
<1>4. t[i].origin \in Keys
  BY <1>1, <1>2, <1>3 DEF TaskRec
<1> QED
  BY <1>1, <1>2, <1>3, <1>4 DEF WasOf, In, Entries, i

\* What is taken of a change is of it alone.
LEMMA TakeIs ==
  ASSUME NEW c \in ChangeRec, NEW S \in SUBSET Fields
  PROVE  LET d == [c EXCEPT !.take = S]
         IN /\ d \in ChangeRec /\ d.take = S
            /\ d.kind = c.kind /\ d.key = c.key /\ d.task = c.task /\ d.path = c.path
            /\ d.was = c.was /\ d.failed = c.failed /\ d.fields = c.fields
BY DEF ChangeRec

\* What an entry comes to: nothing, when its task has all the config offers, or one
\* change.
LEMMA EntryIs ==
  ASSUME NEW config \in Entries, NEW bs \in Entries, NEW t \in TaskFns, NEW k \in In(config)
  PROVE  /\ \A c \in EntryChange(config, bs, t, k) : ChangeIs(config, bs, t, c) /\ c.key = k
         /\ \A c, d \in EntryChange(config, bs, t, k) : c = d
         /\ LET i == TaskOf(config, t, k)
                was == WasOf(config, bs, t, i, k)
            IN i # Gone /\ Offered(was, t[i].spec, config[k]) # {} =>
                 \E c \in EntryChange(config, bs, t, k) : c.kind = "changed"
         /\ TaskOf(config, t, k) = Gone => EntryChange(config, bs, t, k) # {}
<1> DEFINE i == TaskOf(config, t, k)
           was == WasOf(config, bs, t, i, k)
           offered == Offered(was, t[i].spec, config[k])
           taken == Taken(was, t[i].spec, config[k])
           cc == [Change("changed", k, i, t[i].path, offered, taken # {}, was) EXCEPT !.take = taken]
           own == {j \in At(t, k) : t[j].origin = Gone /\ t[j].spec = config[k]}
           cw == Change("written", k, CHOOSE j \in own : TRUE, k, {}, TRUE, Gone)
           ca == Change(IF bs[k] = Gone THEN "added" ELSE "removed_here", k, Gone, k, {},
                        bs[k] = Gone, bs[k])
<1>0. k \in Keys /\ config[k] \in Specs /\ bs[k] \in Specs \cup {Gone}
  BY DEF In, Entries
<1>1. CASE i # Gone
  <2>1. EntryChange(config, bs, t, k) = IF offered = {} THEN {} ELSE {cc}
    BY <1>1 DEF EntryChange, WasOf
  <2>2. /\ i \in Here(t) /\ t[i] \in TaskRec /\ was \in Specs
        /\ was = config[k] \/ (t[i].origin \in In(bs) /\ was = bs[t[i].origin])
    BY <1>1, TaskOfHere
  <2>3. offered \subseteq Fields /\ taken \subseteq Fields
    BY DEF Offered, Taken, Changed
  <2> HIDE DEF i, was, offered, taken
  <2> DEFINE cb == Change("changed", k, i, t[i].path, offered, taken # {}, was)
  <2>4. cb = [kind |-> "changed", key |-> k, task |-> i, path |-> t[i].path,
              fields |-> offered, take |-> {}, apply |-> taken # {}, was |-> was,
              way |-> FALSE, taken |-> FALSE, failed |-> FALSE]
    BY DEF Change
  <2> HIDE DEF cb
  <2>5. i \in Ids /\ t[i].path \in Keys
    BY <2>2 DEF Here, TaskRec
  <2>6. cb \in ChangeRec
    BY <1>0, <2>2, <2>3, <2>4, <2>5 DEF ChangeRec
  <2>7. cb.key = k /\ cb.kind = "changed" /\ ~cb.failed /\ cb.was = was
        /\ cb.task = i /\ cb.path = t[i].path /\ cb.fields = offered
    BY <2>4
  <2>11. /\ cc \in ChangeRec
         /\ cc.key = k /\ cc.kind = "changed" /\ ~cc.failed /\ cc.was = was
         /\ cc.task = i /\ cc.path = t[i].path /\ cc.take = taken
         /\ cc.fields = offered
    BY <2>3, <2>6, <2>7, TakeIs DEF cb
  <2> HIDE DEF cc
  <2>8. TakesThat(config, bs, t, cc)
    BY <2>11 DEF TakesThat, i, was, taken
  <2>9. WasKnown(config, bs, cc)
    BY <2>2, <2>11 DEF WasKnown
  <2>10. ASSUME offered # {} PROVE ChangeIs(config, bs, t, cc)
    <3>1. IsChanged(config, bs, t, cc)
      BY <2>2, <2>10, <2>11 DEF IsChanged, i, was, offered
    <3> QED
      BY <2>5, <2>8, <2>9, <2>11, <3>1 DEF ChangeIs, Fits, ChangeOf
  <2> QED
    BY <1>1, <2>1, <2>10, <2>11 DEF i, was, offered
<1>2. CASE i = Gone /\ own # {}
  <2>1. EntryChange(config, bs, t, k) = {cw}
    BY <1>2 DEF EntryChange
  <2> DEFINE j == CHOOSE x \in own : TRUE
  <2>2. j \in own
    BY <1>2
  <2>3. j \in Ids /\ j \in At(t, k) /\ t[j].origin = Gone
    BY <2>2 DEF At, Here
  <2> HIDE DEF j, own
  <2>4. cw = [kind |-> "written", key |-> k, task |-> j, path |-> k,
              fields |-> {}, take |-> {}, apply |-> TRUE, was |-> Gone,
              way |-> FALSE, taken |-> FALSE, failed |-> FALSE]
    BY DEF Change, j
  <2> HIDE DEF cw
  <2>5. cw \in ChangeRec
    BY <1>0, <2>3, <2>4 DEF ChangeRec
  <2>6. cw.key = k /\ cw.kind = "written" /\ ~cw.failed /\ cw.was = Gone /\ cw.task = j
        /\ cw.fields = {}
    BY <2>4
  <2>7. IsWritten(config, t, cw)
    BY <1>2, <2>3, <2>6 DEF IsWritten
  <2> QED
    BY <1>2, <2>1, <2>3, <2>5, <2>6, <2>7 DEF ChangeIs, Fits, TakesThat, ChangeOf, WasKnown
<1>3. CASE i = Gone /\ own = {}
  <2>1. EntryChange(config, bs, t, k) = {ca}
    BY <1>3 DEF EntryChange
  <2> DEFINE kind == IF bs[k] = Gone THEN "added" ELSE "removed_here"
  <2>2. kind \in {"added", "removed_here"}
    OBVIOUS
  <2>3. ca = [kind |-> kind, key |-> k, task |-> Gone, path |-> k,
              fields |-> {}, take |-> {}, apply |-> bs[k] = Gone, was |-> bs[k],
              way |-> FALSE, taken |-> FALSE, failed |-> FALSE]
    BY DEF Change
  <2> HIDE DEF kind, ca
  <2>4. ca \in ChangeRec
    BY <1>0, <2>2, <2>3 DEF ChangeRec
  <2>5. ca.key = k /\ ca.kind = kind /\ ~ca.failed /\ ca.was = bs[k] /\ ca.fields = {}
    BY <2>3
  <2>6. WasKnown(config, bs, ca)
    BY <1>0, <2>5 DEF WasKnown, In
  <2> QED
    BY <1>3, <2>1, <2>2, <2>4, <2>5, <2>6 DEF ChangeIs, Fits, TakesThat, IsMissing, ChangeOf
<1> QED
  BY <1>1, <1>2, <1>3

\* So is the change of a task whose entry is gone.
LEMMA GoneIs ==
  ASSUME NEW config \in Entries, NEW bs \in Entries, NEW t \in TaskFns,
         NEW i \in Here(t) \ Adopted(config, t), t[i].origin \notin In(config) \cup {Gone}
  PROVE  LET c == GoneChange(bs, t, i)
         IN ChangeIs(config, bs, t, c) /\ c.kind = "removed" /\ c.task = i
<1> DEFINE c == GoneChange(bs, t, i)
           was == bs[t[i].origin]
           apply == was # Gone /\ t[i].spec = was /\ ~t[i].running
<1>1. t[i] \in TaskRec /\ i \in Ids
  BY DEF Here, TaskFns
<1>2. t[i].origin \in Keys /\ t[i].path \in Keys
  BY <1>1 DEF TaskRec
<1>3. was \in Specs \cup {Gone} /\ (was # Gone => t[i].origin \in In(bs))
  BY <1>2 DEF Entries, In
<1>4. c = [kind |-> "removed", key |-> t[i].origin, task |-> i, path |-> t[i].path,
           fields |-> {}, take |-> {}, apply |-> apply, was |-> was,
           way |-> FALSE, taken |-> FALSE, failed |-> FALSE]
  BY DEF GoneChange, Change
<1> HIDE DEF c
<1>5. apply \in BOOLEAN
  OBVIOUS
<1> HIDE DEF apply
<1>6. c \in ChangeRec
  BY <1>1, <1>2, <1>3, <1>4, <1>5 DEF ChangeRec
<1>7. c.kind = "removed" /\ c.key = t[i].origin /\ c.task = i /\ c.was = was /\ ~c.failed
        /\ c.fields = {}
  BY <1>4
<1>8. IsRemoved(config, t, c)
  BY <1>7 DEF IsRemoved
<1>9. WasKnown(config, bs, c)
  BY <1>3, <1>7 DEF WasKnown
<1> QED
  BY <1>1, <1>6, <1>7, <1>8, <1>9 DEF ChangeIs, Fits, TakesThat, ChangeOf, c

\* d is c, but for what is done about a task in its way.
Like(c, d) ==
  /\ d \in ChangeRec
  /\ d.kind = c.kind /\ d.key = c.key /\ d.task = c.task /\ d.path = c.path
  /\ d.take = c.take /\ d.was = c.was /\ d.failed = c.failed /\ d.fields = c.fields
  /\ c.kind \notin {"added", "removed_here"} => d = c

\* Looking for what is in the way changes nothing else.
LEMMA WayIs ==
  ASSUME NEW t, NEW changes \in SUBSET ChangeRec
  PROVE  \E g : /\ CheckTheWay(t, changes) = {g[c] : c \in changes}
                /\ \A c \in changes : Like(c, g[c])
<1> DEFINE gone == {c.task : c \in {d \in changes : d.kind = "removed" /\ d.apply}}
           InTheWay(c) == At(t, c.path) \ gone # {}
           w(c) == IF c.kind \notin {"added", "removed_here"} \/ InTheWay(c) = c.way THEN c
                   ELSE IF InTheWay(c) THEN [c EXCEPT !.way = TRUE, !.taken = c.apply, !.apply = FALSE]
                   ELSE [c EXCEPT !.way = FALSE, !.apply = c.taken]
           g == [c \in changes |-> w(c)]
<1>1. CheckTheWay(t, changes) = {w(c) : c \in changes}
  BY DEF CheckTheWay
<1>2. ASSUME NEW c \in changes PROVE Like(c, w(c))
  <2> HIDE DEF InTheWay
  <2>1. c \in ChangeRec
    OBVIOUS
  <2>2. CASE w(c) = c
    BY <2>1, <2>2 DEF Like
  <2>3. CASE /\ c.kind \in {"added", "removed_here"}
             /\ w(c) = [c EXCEPT !.way = TRUE, !.taken = c.apply, !.apply = FALSE]
    <3> HIDE DEF w
    <3> QED
      BY <2>1, <2>3 DEF Like, ChangeRec
  <2>4. CASE /\ c.kind \in {"added", "removed_here"}
             /\ w(c) = [c EXCEPT !.way = FALSE, !.apply = c.taken]
    <3> HIDE DEF w
    <3> QED
      BY <2>1, <2>4 DEF Like, ChangeRec
  <2> QED
    BY <2>2, <2>3, <2>4
<1> HIDE DEF w
<1>3. \A c \in changes : g[c] = w(c)
  OBVIOUS
<1>4. {g[c] : c \in changes} = {w(c) : c \in changes}
  BY <1>3
<1> HIDE DEF g
<1> QED
  BY <1>1, <1>2, <1>3, <1>4

\* So the shape stays.
LEMMA WayShaped ==
  ASSUME NEW config, NEW bs, NEW t, NEW changes \in SUBSET ChangeRec,
         Shaped(config, bs, t, changes), NEW live
  PROVE  Shaped(config, bs, t, CheckTheWay(live, changes))
<1>1. PICK g : /\ CheckTheWay(live, changes) = {g[c] : c \in changes}
               /\ \A c \in changes : Like(c, g[c])
  BY WayIs
<1>2. Alters(changes, g)
  BY <1>1 DEF Alters, Like, Same
<1> QED
  BY <1>1, <1>2, AlteredShaped

\* What a plan has is what its entries and its tasks come to.
LEMMA PlanIs ==
  ASSUME NEW config \in Entries, NEW bs \in Entries, NEW t \in TaskFns
  PROVE  /\ \A c \in Plan(config, bs, t) : ChangeIs(config, bs, t, c)
         /\ Shaped(config, bs, t, Plan(config, bs, t))
<1> DEFINE left == {j \in Here(t) \ Adopted(config, t) : t[j].origin \notin In(config) \cup {Gone}}
           ents == UNION {EntryChange(config, bs, t, k) : k \in In(config)}
           gones == {GoneChange(bs, t, i) : i \in left}
           all == ents \cup gones
<1>1. Plan(config, bs, t) = CheckTheWay(t, all)
  BY DEF Plan
<1>2. ASSUME NEW c \in ents
      PROVE  \E k \in In(config) :
               c \in EntryChange(config, bs, t, k) /\ c.key = k /\ ChangeIs(config, bs, t, c)
  <2>1. PICK k \in In(config) : c \in EntryChange(config, bs, t, k)
    OBVIOUS
  <2> QED
    BY <2>1, EntryIs
<1>3. \A k \in In(config) : EntryChange(config, bs, t, k) \subseteq all
  OBVIOUS
<1>4. ASSUME NEW c \in gones
      PROVE  ChangeIs(config, bs, t, c) /\ c.key \notin In(config)
  <2>1. PICK i \in left : c = GoneChange(bs, t, i)
    OBVIOUS
  <2>2. i \in Here(t) \ Adopted(config, t) /\ t[i].origin \notin In(config) \cup {Gone}
    OBVIOUS
  <2>3. ChangeIs(config, bs, t, c) /\ c.kind = "removed"
    BY <2>1, <2>2, GoneIs
  <2> QED
    BY <2>3 DEF ChangeIs, Fits, IsRemoved
<1>5. ASSUME NEW i \in left PROVE \E c \in all : c.kind = "removed" /\ c.task = i
  <2>1. i \in Here(t) \ Adopted(config, t) /\ t[i].origin \notin In(config) \cup {Gone}
    OBVIOUS
  <2>2. GoneChange(bs, t, i) \in all
    OBVIOUS
  <2> HIDE DEF all, left
  <2> QED
    BY <2>1, <2>2, GoneIs
<1>6. all = ents \cup gones
  OBVIOUS
<1> HIDE DEF ents, gones, all
<1>7. \A c \in all : ChangeIs(config, bs, t, c)
  BY <1>2, <1>4, <1>6
<1>8. all \in SUBSET ChangeRec
  BY <1>7 DEF ChangeIs, Fits
<1>9. Shaped(config, bs, t, all)
  <2>1. ASSUME NEW k \in In(config), NEW i \in Ids, i = TaskOf(config, t, k),
               Offers(config, bs, t, i, k)
        PROVE  \E c \in all : c.kind = "changed" /\ c.key = k
    <3>0. i # Gone
      BY ConfigAssumption DEF Ids
    <3>1. PICK c \in EntryChange(config, bs, t, k) : c.kind = "changed"
      BY <2>1, <3>0, EntryIs DEF Offers
    <3>2. c \in all /\ c.key = k
      BY <1>3, EntryIs
    <3> QED
      BY <3>1, <3>2
  <2>2. ASSUME NEW k \in In(config), TaskOf(config, t, k) = Gone PROVE \E c \in all : c.key = k
    <3>1. PICK c \in EntryChange(config, bs, t, k) : TRUE
      BY <2>2, EntryIs
    <3> QED
      BY <1>3, <3>1, EntryIs
  <2>3. ASSUME NEW c \in all, NEW d \in all, c.key = d.key, c.key \in In(config) PROVE c = d
    <3>1. c \in ents /\ d \in ents
      BY <1>4, <1>6, <2>3
    <3>2. PICK k \in In(config) : c \in EntryChange(config, bs, t, k) /\ c.key = k
      BY <1>2, <3>1
    <3>3. d \in EntryChange(config, bs, t, k)
      BY <1>2, <2>3, <3>1, <3>2
    <3> QED
      BY <3>2, <3>3, EntryIs
  <2>4. \A c \in all : Fits(config, bs, t, c)
    BY <1>7 DEF ChangeIs
  <2> QED
    BY <1>5, <2>1, <2>2, <2>3, <2>4 DEF Shaped
<1>10. ASSUME NEW d \in CheckTheWay(t, all) PROVE ChangeIs(config, bs, t, d)
  <2>1. PICK g : CheckTheWay(t, all) = {g[c] : c \in all} /\ \A c \in all : Like(c, g[c])
    BY <1>8, WayIs
  <2>2. PICK c \in all : Like(c, d)
    BY <2>1
  <2>3. ChangeIs(config, bs, t, c)
    BY <1>7
  <2>4. CASE d = c
    BY <2>3, <2>4
  <2>5. CASE c.kind \in {"added", "removed_here"}
    BY <2>2, <2>3, <2>5 DEF Like, ChangeIs, Fits, TakesThat, IsMissing, ChangeOf, WasKnown
  <2> QED
    BY <2>2, <2>4, <2>5 DEF Like
<1> QED
  BY <1>1, <1>8, <1>9, <1>10, WayShaped

\* A change that failed is what it was.
LEMMA FailedIs ==
  ASSUME NEW c \in ChangeRec
  PROVE  LET d == [c EXCEPT !.failed = TRUE]
         IN /\ d \in ChangeRec /\ d.kind = c.kind /\ d.key = c.key /\ d.task = c.task
            /\ d.was = c.was /\ d.take = c.take
BY DEF ChangeRec

-----------------------------------------------------------------------------
(* Steps *)

\* A step is of one of five kinds, by its stage.
Adopting(plan, st) ==
  \E i \in Ids, k \in In(plan.config) :
    /\ i = TaskOf(plan.config, plan.live, k) /\ plan.live[i].origin # k
    /\ st = Step(1, Gone, "origin", i, Gone, k, Gone)
Removing(plan, st) == \E c \in plan.changes : c.kind = "removed" /\ st \in Removal(c)
Writing(plan, st) ==
  \E c \in plan.changes :
    c.kind = "written" /\ c.apply /\ st = Step(3, c.key, "origin", c.task, Gone, c.key, Gone)
Adding(plan, st) ==
  \E c \in plan.changes :
    /\ c.kind \in {"added", "removed_here"} /\ c.apply
    /\ st = Step(4, c.key, "add", Gone, c.path, plan.config[c.key], Gone)
Updating(plan, live, st) ==
  \E c \in plan.changes :
    /\ c.kind = "changed" /\ live[c.task] # Gone
    /\ Merged(plan, live, c) # live[c.task].spec
    /\ st = Step(5, c.key, "update", c.task, live[c.task].path, Merged(plan, live, c),
                 live[c.task].spec)

\* The steps of a plan are these, and all of these but some of the new tasks.
LEMMA StepsAre ==
  ASSUME NEW plan, NEW live
  PROVE  /\ \A st \in Steps(plan, live) :
              \/ Adopting(plan, st) \/ Removing(plan, st) \/ Writing(plan, st)
              \/ Adding(plan, st) \/ Updating(plan, live, st)
         /\ \A st : \/ Adopting(plan, st) \/ Removing(plan, st) \/ Writing(plan, st)
                    \/ Updating(plan, live, st)
                    => st \in Steps(plan, live)
<1> DEFINE Of(kind) == {c \in plan.changes : c.kind = kind}
           adopts == Adoptions(plan)
           OriginOf(i) == IF \E p \in adopts : p[1] = i THEN (CHOOSE p \in adopts : p[1] = i)[2]
                          ELSE live[i].origin
           written == {c \in Of("written") : c.apply}
           at == ({OriginOf(i) : i \in Here(live)} \ {c.key : c \in {d \in Of("removed") : d.apply}})
                 \cup {c.key : c \in written}
           A == {Step(1, Gone, "origin", p[1], Gone, p[2], Gone) : p \in adopts}
           R == UNION {Removal(c) : c \in Of("removed")}
           W == {Step(3, c.key, "origin", c.task, Gone, c.key, Gone) : c \in written}
           N == {Step(4, c.key, "add", Gone, c.path, plan.config[c.key], Gone) :
                   c \in {d \in Of("added") \cup Of("removed_here") : d.apply /\ d.key \notin at}}
           U == {Step(5, c.key, "update", c.task, live[c.task].path, Merged(plan, live, c),
                      live[c.task].spec) :
                   c \in {d \in Of("changed") :
                            live[d.task] # Gone /\ Merged(plan, live, d) # live[d.task].spec}}
<1>1. Steps(plan, live) = A \cup R \cup W \cup N \cup U
  BY DEF Steps
<1>2. \A st : st \in A <=> Adopting(plan, st)
  <2>1. ASSUME NEW st, st \in A PROVE Adopting(plan, st)
    <3>1. PICK p \in adopts : st = Step(1, Gone, "origin", p[1], Gone, p[2], Gone)
      BY <2>1
    <3>2. /\ p[1] \in Ids /\ p[2] \in In(plan.config)
          /\ p[1] = TaskOf(plan.config, plan.live, p[2]) /\ plan.live[p[1]].origin # p[2]
      BY DEF Adoptions
    <3> QED
      BY <3>1, <3>2 DEF Adopting
  <2>2. ASSUME NEW st, Adopting(plan, st) PROVE st \in A
    <3>1. PICK i \in Ids, k \in In(plan.config) :
            /\ i = TaskOf(plan.config, plan.live, k) /\ plan.live[i].origin # k
            /\ st = Step(1, Gone, "origin", i, Gone, k, Gone)
      BY <2>2 DEF Adopting
    <3>2. <<i, k>> \in adopts
      BY <3>1 DEF Adoptions
    <3> QED
      BY <3>1, <3>2
  <2> QED
    BY <2>1, <2>2
<1>3. \A st : st \in R <=> Removing(plan, st)
  BY DEF Removing
<1>4. \A st : st \in W <=> Writing(plan, st)
  BY DEF Writing
<1>5. \A st : st \in N => Adding(plan, st)
  BY DEF Adding
<1>6. \A st : st \in U <=> Updating(plan, live, st)
  BY DEF Updating
<1> HIDE DEF A, R, W, N, U
<1> QED
  BY <1>1, <1>2, <1>3, <1>4, <1>5, <1>6

\* The steps of a plan are steps, and its updates take what it takes.
LEMMA StepsFit ==
  ASSUME NEW rl, rl.config \in Entries, rl.changes \in SUBSET ChangeRec,
         \A c \in rl.changes : ChangeOf(rl.config, c), NEW live \in TaskFns
  PROVE  \A st \in Steps(rl, live) : st \in StepRec /\ StepOf(st) /\ TakesOnly(rl, st)
<1> SUFFICES ASSUME NEW st \in Steps(rl, live)
             PROVE  st \in StepRec /\ StepOf(st) /\ TakesOnly(rl, st)
  OBVIOUS
<1>0. Specs = [Fields -> Values] /\ In(rl.config) \subseteq Keys
      /\ \A k \in In(rl.config) : rl.config[k] \in Specs
  BY DEF Specs, In, Entries
<1>1. CASE Adopting(rl, st)
  <2>1. PICK i \in Ids, k \in In(rl.config) : st = Step(1, Gone, "origin", i, Gone, k, Gone)
    BY <1>1 DEF Adopting
  <2>2. k \in Keys
    BY <1>0
  <2> QED
    BY <2>1, <2>2 DEF Step, StepRec, StepOf, TakesOnly
<1>2. CASE Removing(rl, st)
  <2>1. PICK c \in rl.changes : c.kind = "removed" /\ st \in Removal(c)
    BY <1>2 DEF Removing
  <2>2. c.task \in Ids /\ c.key \in Keys
    BY <2>1 DEF ChangeOf, ChangeRec
  <2>3. \/ st = Step(2, c.key, "remove", c.task, Gone, Gone, Gone)
        \/ st = Step(2, c.key, "origin", c.task, Gone, Gone, Gone)
    BY <2>1 DEF Removal
  <2> QED
    BY <2>2, <2>3 DEF Step, StepRec, StepOf, TakesOnly
<1>3. CASE Writing(rl, st)
  <2>1. PICK c \in rl.changes :
          c.kind = "written" /\ st = Step(3, c.key, "origin", c.task, Gone, c.key, Gone)
    BY <1>3 DEF Writing
  <2>2. c.task \in Ids /\ c.key \in Keys
    BY <2>1 DEF ChangeOf, ChangeRec
  <2> QED
    BY <2>1, <2>2 DEF Step, StepRec, StepOf, TakesOnly
<1>4. CASE Adding(rl, st)
  <2>1. PICK c \in rl.changes :
          /\ c.kind \in {"added", "removed_here"}
          /\ st = Step(4, c.key, "add", Gone, c.path, rl.config[c.key], Gone)
    BY <1>4 DEF Adding
  <2>2. c.key \in Keys /\ c.path \in Keys
    BY DEF ChangeRec
  <2>3. rl.config[c.key] \in Specs
    BY <1>0, <2>1 DEF ChangeOf
  <2> QED
    BY <2>1, <2>2, <2>3 DEF Step, StepRec, StepOf, TakesOnly
<1>5. CASE Updating(rl, live, st)
  <2> DEFINE m(c) == Merged(rl, live, c)
  <2>1. PICK c \in rl.changes :
          /\ c.kind = "changed" /\ live[c.task] # Gone
          /\ st = Step(5, c.key, "update", c.task, live[c.task].path, m(c), live[c.task].spec)
    BY <1>5 DEF Updating
  <2>2. c.task \in Ids /\ c.key \in In(rl.config)
    BY <2>1 DEF ChangeOf
  <2>3. live[c.task] \in TaskRec
    BY <2>1, <2>2 DEF TaskFns
  <2>4. live[c.task].path \in Keys /\ live[c.task].spec \in Specs
    BY <2>3 DEF TaskRec
  <2>5. rl.config[c.key] \in Specs /\ c.key \in Keys
    BY <1>0, <2>2
  <2>6. m(c) \in Specs
    BY <1>0, <2>4, <2>5 DEF Merged
  <2>7. \A f \in Fields : m(c)[f] # live[c.task].spec[f] => f \in c.take /\ m(c)[f] = rl.config[c.key][f]
    BY DEF Merged
  <2> HIDE DEF m
  <2>8. st \in StepRec /\ StepOf(st)
    BY <2>1, <2>2, <2>4, <2>5, <2>6 DEF Step, StepRec, StepOf
  <2>9. st.was = live[c.task].spec /\ st.to = m(c) /\ st.key = c.key
    BY <2>1 DEF Step
  <2>10. TakesOnly(rl, st)
    BY <2>7, <2>9 DEF TakesOnly, Changed
  <2> QED
    BY <2>8, <2>10
<1> QED
  BY <1>1, <1>2, <1>3, <1>4, <1>5, StepsAre

-----------------------------------------------------------------------------
(* Editing a file *)

\* A file edited is one.
LEMMA EditedIs ==
  ASSUME NEW text \in Entries, NEW it \in ItemRec, ItemOf(it), Edited(text, it) # Gone
  PROVE  Edited(text, it) \in Entries
<1> DEFINE body == Body(text, it)
<1>1. it.key \in Keys /\ it.entry \in Keys /\ it.kind \in {"changed", "added", "removed"}
  BY DEF ItemRec
<1>2. CASE it.kind = "removed"
  BY <1>1, <1>2 DEF Edited, Entries
<1>3. CASE it.kind = "added"
  BY <1>1, <1>3 DEF Edited, Entries, ItemOf
<1>4. CASE it.kind = "changed"
  <2>1. Edited(text, it) = IF text[it.key] = Gone \/ (it.entry # it.key /\ text[it.entry] # Gone)
                           THEN Gone ELSE [text EXCEPT ![it.key] = Gone, ![it.entry] = body]
    BY <1>4 DEF Edited
  <2>2. text[it.key] # Gone
    BY <2>1
  <2>3. text[it.key] \in Specs /\ it.spec \in Specs
    BY <1>1, <1>4, <2>2 DEF Entries, ItemOf
  <2>4. body \in Specs
    BY <2>3 DEF Specs, Body
  <2> HIDE DEF body
  <2>5. [text EXCEPT ![it.key] = Gone, ![it.entry] = body] \in Entries
    BY <1>1, <2>4 DEF Entries
  <2> QED
    BY <2>1, <2>5
<1> QED
  BY <1>1, <1>2, <1>3, <1>4

\* What editing has come to after some items.
EditStep(text, order, n, prev) ==
  IF n = 0 THEN [text |-> text, failed |-> {}]
  ELSE LET before == prev
           new == Edited(before.text, order[n])
       IN IF new = Gone THEN [before EXCEPT !.failed = @ \cup {order[n]}]
          ELSE [before EXCEPT !.text = new]
EditSteps(text, order, n, d) ==
  d = [m \in 0 .. n |-> EditStep(text, order, m, d[m - 1])]

\* What holds of 0 and of the next of each holds up to any.
LEMMA Upto ==
  ASSUME NEW N \in Nat, NEW S \in SUBSET (0 .. N), 0 \in S, \A n \in S : n < N => n + 1 \in S
  PROVE  N \in S
<1> DEFINE R == OpToRel(<, Nat)
           T == (0 .. N) \ S
<1>1. IsWellFoundedOn(R, Nat)
  BY NatLessThanWellFounded
<1>2. \A x, y \in Nat : x < y => <<x, y>> \in R
  BY DEF OpToRel
<1> HIDE DEF R
<1>3. SUFFICES ASSUME N \notin S PROVE FALSE
  OBVIOUS
<1>4. T \in SUBSET Nat /\ N \in T
  BY <1>3
<1>5. PICK n \in T : \A m \in T : ~(<<m, n>> \in R)
  BY <1>1, <1>4, WFMin
<1>6. n \in 0 .. N /\ n \notin S /\ n # 0
  OBVIOUS
<1>7. n - 1 \in 0 .. N /\ n - 1 < n /\ n - 1 < N /\ n \in Nat /\ n - 1 \in Nat
  BY <1>6
<1>8. n - 1 \notin S
  <2>1. ASSUME n - 1 \in S PROVE FALSE
    <3>1. n - 1 + 1 \in S
      BY <1>7, <2>1
    <3>2. n - 1 + 1 = n
      BY <1>7
    <3> QED
      BY <1>6, <3>1, <3>2
  <2> QED
    BY <2>1
<1>9. n - 1 \in T
  BY <1>7, <1>8
<1> QED
  BY <1>2, <1>5, <1>7, <1>9

\* What editing comes to is the last of a file for each item more.
LEMMA EditsAre ==
  ASSUME NEW text \in Entries, NEW N \in Nat, NEW order \in [1 .. N -> ItemRec],
         \A n \in 1 .. N : ItemOf(order[n]), Len(order) = N
  PROVE  \E d \in [0 .. N -> [text : Entries, failed : SUBSET {order[n] : n \in 1 .. N}]] :
           /\ \A n \in 0 .. N : d[n] = EditStep(text, order, n, d[n - 1])
           /\ EditAll(text, order) = d[N]
<1> DEFINE F == {order[n] : n \in 1 .. N}
           DR == [text : Entries, failed : SUBSET F]
           All(n) == [0 .. n -> DR]
           step(m, prev) == EditStep(text, order, m, prev)
           S == {n \in 0 .. N : \E d \in All(n) : EditSteps(text, order, n, d)}
<1>1. ASSUME NEW m \in 0 .. N, NEW prev \in DR PROVE step(m, prev) \in DR
  <2> DEFINE new == Edited(prev.text, order[m])
  <2>1. CASE m = 0
    BY <2>1 DEF EditStep
  <2>2. CASE m # 0
    <3>1. m \in 1 .. N /\ order[m] \in ItemRec /\ ItemOf(order[m]) /\ prev.text \in Entries
      BY <2>2
    <3>2. new # Gone => new \in Entries
      BY <3>1, EditedIs
    <3>3. step(m, prev) = IF new = Gone THEN [prev EXCEPT !.failed = @ \cup {order[m]}]
                          ELSE [prev EXCEPT !.text = new]
      BY <2>2 DEF EditStep
    <3>4. order[m] \in F
      BY <3>1
    <3> HIDE DEF new, step, F
    <3>5. CASE new = Gone
      BY <3>3, <3>4, <3>5
    <3>6. CASE new # Gone
      BY <3>2, <3>3, <3>6
    <3> QED
      BY <3>5, <3>6
  <2> QED
    BY <2>1, <2>2
<1> HIDE DEF DR
<1>2. 0 \in S
  <2> DEFINE d == [m \in 0 .. 0 |-> [text |-> text, failed |-> {}]]
  <2>1. [text |-> text, failed |-> {}] \in DR
    BY DEF DR
  <2>2. d \in All(0)
    BY <2>1
  <2>3. d = [m \in 0 .. 0 |-> EditStep(text, order, m, d[m - 1])]
    BY DEF EditStep
  <2>4. EditSteps(text, order, 0, d) /\ 0 \in 0 .. N
    BY <2>3 DEF EditSteps
  <2> HIDE DEF d
  <2> QED
    BY <2>2, <2>4
<1>3. ASSUME NEW n \in S, n < N PROVE n + 1 \in S
  <2>1. n \in 0 .. N /\ n + 1 \in 0 .. N /\ n \in 0 .. n
    BY <1>3
  <2>2. PICK d \in All(n) : d = [m \in 0 .. n |-> step(m, d[m - 1])]
    BY DEF EditSteps
  <2> DEFINE e == [m \in 0 .. (n + 1) |-> IF m = n + 1 THEN step(m, d[n]) ELSE d[m]]
  <2> HIDE DEF step
  <2>3. e \in All(n + 1)
    <3>1. d[n] \in DR
      BY <2>1
    <3>2. step(n + 1, d[n]) \in DR
      BY <1>1, <2>1, <3>1
    <3>3. \A m \in 0 .. (n + 1) : m # n + 1 => m \in 0 .. n
      BY <2>1
    <3> QED
      BY <3>2, <3>3
  <2>4. ASSUME NEW m \in 0 .. (n + 1) PROVE e[m] = step(m, e[m - 1])
    <3>1. CASE m = n + 1
      <4>1. m - 1 = n /\ n \in 0 .. (n + 1) /\ n # n + 1
        BY <2>1, <3>1
      <4>2. e[n] = d[n]
        BY <4>1
      <4> QED
        BY <3>1, <4>1, <4>2
    <3>2. CASE m = 0
      <4>1. step(0, e[0 - 1]) = step(0, d[0 - 1])
        BY DEF step, EditStep
      <4>2. e[0] = d[0] /\ d[0] = step(0, d[0 - 1])
        BY <2>1, <2>2
      <4> QED
        BY <3>2, <4>1, <4>2
    <3>3. CASE m # n + 1 /\ m # 0
      <4>1. m \in 0 .. n /\ m - 1 \in 0 .. (n + 1) /\ m - 1 # n + 1
        BY <2>1, <3>3
      <4>2. e[m] = d[m] /\ e[m - 1] = d[m - 1]
        BY <3>3, <4>1
      <4> QED
        BY <2>2, <4>1, <4>2
    <3> QED
      BY <3>1, <3>2, <3>3
  <2>5. e = [m \in 0 .. (n + 1) |-> step(m, e[m - 1])]
    BY <2>4
  <2>6. EditSteps(text, order, n + 1, e)
    BY <2>5 DEF EditSteps, step
  <2> HIDE DEF e
  <2> QED
    BY <2>1, <2>3, <2>6
<1>4. N \in S
  <2> HIDE DEF S
  <2>1. S \in SUBSET (0 .. N)
    BY DEF S
  <2> QED
    BY <1>2, <1>3, <2>1, Upto
<1>5. PICK d \in All(N) : EditSteps(text, order, N, d)
  BY <1>4
<1> DEFINE done == CHOOSE g : EditSteps(text, order, N, g)
<1>6. EditSteps(text, order, N, done)
  BY <1>5
<1>7. EditAll(text, order) = done[N]
  BY DEF EditAll, EditSteps, EditStep
<1>8. done \in All(N)
  <2> DEFINE V == {n \in 0 .. N : done[n] \in DR}
  <2>1. done = [m \in 0 .. N |-> step(m, done[m - 1])]
    BY <1>6 DEF EditSteps
  <2> HIDE DEF step, done
  <2>2. 0 \in V
    <3>1. done[0] = step(0, done[0 - 1])
      BY <2>1
    <3>2. step(0, done[0 - 1]) = [text |-> text, failed |-> {}]
      BY DEF step, EditStep
    <3> QED
      BY <3>1, <3>2 DEF DR
  <2>3. ASSUME NEW n \in V, n < N PROVE n + 1 \in V
    <3>1. n + 1 \in 0 .. N /\ (n + 1) - 1 = n
      BY <2>3
    <3>2. done[n + 1] = step(n + 1, done[n])
      BY <2>1, <3>1
    <3> QED
      BY <1>1, <3>1, <3>2
  <2>4. ASSUME NEW n \in 0 .. N PROVE done[n] \in DR
    <3> DEFINE W == {m \in 0 .. n : done[m] \in DR}
    <3>1. W \in SUBSET (0 .. n) /\ 0 \in W /\ n \in Nat
      BY <2>2
    <3>2. \A m \in W : m < n => m + 1 \in W
      BY <2>3
    <3> HIDE DEF W
    <3>3. n \in W
      BY <3>1, <3>2, Upto
    <3> QED
      BY <3>3 DEF W
  <2> QED
    BY <2>1, <2>4
<1>9. \A n \in 0 .. N : done[n] = EditStep(text, order, n, done[n - 1])
  BY <1>6 DEF EditSteps
<1> HIDE DEF done
<1> QED
  BY <1>7, <1>8, <1>9 DEF DR

\* Editing comes to a file, whatever is edited and however many items fail.
LEMMA EditAllIs ==
  ASSUME NEW text \in Entries, NEW N \in Nat, NEW order \in [1 .. N -> ItemRec],
         \A n \in 1 .. N : ItemOf(order[n]), Len(order) = N
  PROVE  /\ EditAll(text, order).text \in Entries
         /\ EditAll(text, order).failed \subseteq {order[n] : n \in 1 .. N}
<1> DEFINE F == {order[n] : n \in 1 .. N}
<1>1. PICK d \in [0 .. N -> [text : Entries, failed : SUBSET F]] : EditAll(text, order) = d[N]
  BY EditsAre
<1> HIDE DEF F
<1>2. d[N] \in [text : Entries, failed : SUBSET F]
  OBVIOUS
<1>3. EditAll(text, order).text \in Entries /\ EditAll(text, order).failed \subseteq F
  BY <1>1, <1>2
<1> QED
  BY <1>3 DEF F

\* An item that takes its entry from its key.
Leaves(it) == it.kind = "removed" \/ (it.kind = "changed" /\ it.key # it.entry)

\* The key an edited item leaves is gone, unless a later item took it.
LeavesDone(text, order, failed) ==
  \A j \in DOMAIN order :
    Leaves(order[j]) /\ order[j] \notin failed =>
      \/ text[order[j].key] = Gone
      \/ \E m \in DOMAIN order : m > j /\ order[m].kind # "removed" /\ order[m].entry = order[j].key

\* One edit empties the key its item leaves, and fills no other than its entry.
LEMMA EditedLeaves ==
  ASSUME NEW text \in Entries, NEW it \in ItemRec, ItemOf(it), Edited(text, it) # Gone
  PROVE  /\ Leaves(it) => Edited(text, it)[it.key] = Gone
         /\ \A k \in Keys : text[k] = Gone =>
              Edited(text, it)[k] = Gone \/ (it.kind # "removed" /\ it.entry = k)
<1>1. it.key \in Keys /\ it.entry \in Keys /\ it.kind \in {"changed", "added", "removed"}
  BY DEF ItemRec
<1>2. CASE it.kind = "removed"
  BY <1>1, <1>2 DEF Edited, Entries
<1>3. CASE it.kind = "added"
  BY <1>1, <1>3 DEF Edited, Entries, ItemOf, Leaves
<1>4. CASE it.kind = "changed"
  <2> DEFINE body == Body(text, it)
  <2>1. Edited(text, it) = [text EXCEPT ![it.key] = Gone, ![it.entry] = body]
    BY <1>4 DEF Edited
  <2> HIDE DEF body
  <2> QED
    BY <1>1, <1>4, <2>1 DEF Entries, Leaves
<1> QED
  BY <1>1, <1>2, <1>3, <1>4

\* So does editing with all of them.
LEMMA EditAllLeaves ==
  ASSUME NEW text \in Entries, NEW N \in Nat, NEW order \in [1 .. N -> ItemRec],
         \A n \in 1 .. N : ItemOf(order[n]), Len(order) = N
  PROVE  LeavesDone(EditAll(text, order).text, order, EditAll(text, order).failed)
<1> DEFINE F == {order[n] : n \in 1 .. N}
           DR == [text : Entries, failed : SUBSET F]
           TakenBy(j, n) == \E m \in 1 .. n : /\ m > j /\ order[m].kind # "removed"
                                            /\ order[m].entry = order[j].key
<1>1. PICK d \in [0 .. N -> DR] :
        /\ \A n \in 0 .. N : d[n] = EditStep(text, order, n, d[n - 1])
        /\ EditAll(text, order) = d[N]
  BY EditsAre
<1> DEFINE Emptied(j, n) == Leaves(order[j]) /\ order[j] \notin d[n].failed =>
                            d[n].text[order[j].key] = Gone \/ TakenBy(j, n)
           S == {n \in 0 .. N : \A j \in 1 .. n : Emptied(j, n)}
<1>2. 0 \in S
  OBVIOUS
<1>3. ASSUME NEW n \in S, n < N PROVE n + 1 \in S
  <2> DEFINE x == order[n + 1]
             before == d[n]
             new == Edited(before.text, x)
  <2>1. /\ n \in 0 .. N /\ n + 1 \in 0 .. N /\ n + 1 # 0 /\ (n + 1) - 1 = n /\ n + 1 \in 1 .. N
        /\ \A j \in 1 .. n : Emptied(j, n)
    BY <1>3
  <2>2. x \in ItemRec /\ ItemOf(x) /\ before \in DR
    BY <2>1
  <2>3. d[n + 1] = IF new = Gone THEN [before EXCEPT !.failed = @ \cup {x}]
                   ELSE [before EXCEPT !.text = new]
    <3>1. d[n + 1] = EditStep(text, order, n + 1, d[n])
      BY <1>1, <2>1
    <3> QED
      BY <2>1, <3>1 DEF EditStep
  <2>4. before.text \in Entries
    BY <2>2
  <2>5. ASSUME NEW j \in 1 .. (n + 1) PROVE Emptied(j, n + 1)
    <3>1. j \in 1 .. N /\ order[j].key \in Keys
      BY <2>1 DEF ItemRec
    <3>2. j # n + 1 /\ TakenBy(j, n) => TakenBy(j, n + 1)
      <4>1. 1 .. n \subseteq 1 .. (n + 1)
        BY <2>1
      <4> QED
        BY <4>1
    <3>3. CASE new = Gone
      <4>1. d[n + 1].text = before.text /\ d[n + 1].failed = before.failed \cup {x}
        BY <2>2, <2>3, <3>3
      <4>2. CASE j = n + 1
        BY <4>1, <4>2
      <4>3. CASE j # n + 1
        <5>1. j \in 1 .. n
          BY <2>1, <4>3
        <5>2. Emptied(j, n)
          BY <2>1, <5>1
        <5> HIDE DEF TakenBy
        <5> QED
          BY <3>2, <4>1, <4>3, <5>2
      <4> QED
        BY <4>2, <4>3
    <3>4. CASE new # Gone
      <4>1. d[n + 1].text = new /\ d[n + 1].failed = before.failed
        BY <2>2, <2>3, <3>4
      <4>2. /\ Leaves(x) => new[x.key] = Gone
            /\ \A k \in Keys : before.text[k] = Gone =>
                 new[k] = Gone \/ (x.kind # "removed" /\ x.entry = k)
        BY <2>2, <2>4, <3>4, EditedLeaves
      <4>3. CASE j = n + 1
        BY <4>1, <4>2, <4>3
      <4>4. CASE j # n + 1
        <5>1. j \in 1 .. n /\ n + 1 > j /\ n + 1 \in 1 .. (n + 1)
          BY <2>1, <4>4
        <5>2. Emptied(j, n)
          BY <2>1, <5>1
        <5>3. x.kind # "removed" /\ x.entry = order[j].key => TakenBy(j, n + 1)
          BY <5>1
        <5>4. before.text[order[j].key] = Gone =>
                new[order[j].key] = Gone \/ (x.kind # "removed" /\ x.entry = order[j].key)
          BY <3>1, <4>2
        <5> HIDE DEF TakenBy, x, new
        <5> QED
          BY <3>2, <4>1, <4>4, <5>2, <5>3, <5>4
      <4> QED
        BY <4>3, <4>4
    <3> QED
      BY <3>3, <3>4
  <2> QED
    BY <2>1, <2>5
<1>4. N \in S
  <2> HIDE DEF S
  <2>1. S \in SUBSET (0 .. N)
    BY DEF S
  <2> QED
    BY <1>2, <1>3, <2>1, Upto
<1>5. \A j \in 1 .. N : Emptied(j, N)
  BY <1>4
<1>6. DOMAIN order = 1 .. N
  OBVIOUS
<1> QED
  BY <1>1, <1>5, <1>6 DEF LeavesDone

-----------------------------------------------------------------------------
(* The items of a write-back *)

\* What an item leaves alone is what the config or the base has there.
LeavesKnown(config, bs, it) ==
  \A f \in Fields \ it.fields :
    \/ \E o \in In(config) : it.spec[f] = config[o][f]
    \/ \E o \in In(bs) : it.spec[f] = bs[o][f]

\* What a function gives of a finite set is finite.
LEMMA ImageFinite ==
  ASSUME NEW S, IsFiniteSet(S), NEW f, f = [x \in S |-> f[x]]
  PROVE  IsFiniteSet({f[x] : x \in S})
<1> DEFINE T == {f[x] : x \in S}
<1>1. f \in [S -> T] /\ \A y \in T : \E x \in S : f[x] = y
  OBVIOUS
<1> HIDE DEF T
<1>2. f \in Surjection(S, T)
  BY <1>1 DEF Surjection
<1>3. IsFiniteSet(T)
  BY <1>2, FS_Surjection
<1> QED
  BY <1>3 DEF T

\* Items as they are listed: each of them once.
LEMMA Listed ==
  ASSUME NEW items, IsFiniteSet(items), NEW order \in Listings(items)
  PROVE  /\ Len(order) \in Nat /\ DOMAIN order = 1 .. Len(order) /\ order \in Seq(items)
         /\ order \in [1 .. Len(order) -> items]
         /\ \A m, n \in DOMAIN order : order[m] = order[n] => m = n
         /\ \A it \in items : \E n \in DOMAIN order : order[n] = it
<1> DEFINE N == Cardinality(items)
           D == 1 .. N
<1>1. N \in Nat
  BY FS_CardinalityType
<1>2. order \in [D -> items] /\ \A i, j \in D : i # j => order[i] # order[j]
  BY DEF Listings, SetToSeqs
<1>3. Cardinality(D) = N
  BY <1>1, FS_Interval
<1> HIDE DEF N
<1>4. order \in Seq(items) /\ Len(order) = N /\ DOMAIN order = D
  BY <1>1, <1>2
<1>5. order \in Injection(D, items)
  BY <1>2, <1>4 DEF Injection, IsInjective
<1>6. order \in Surjection(D, items)
  BY <1>3, <1>5, FS_Injection DEF N
<1>7. \A it \in items : \E n \in D : order[n] = it
  BY <1>6 DEF Surjection
<1> QED
  BY <1>1, <1>2, <1>4, <1>7

\* An item is one, and leaves alone what is known.
LEMMA ItemsAre ==
  ASSUME NEW config \in Entries, NEW bs \in Entries, NEW t \in TaskFns, NEW include \in SUBSET Here(t)
  PROVE  /\ \A it \in WriteItems(config, bs, t, include) :
              /\ it \in ItemRec /\ ItemOf(it)
              /\ it.kind = "changed" => LeavesKnown(config, bs, it)
         /\ IsFiniteSet(WriteItems(config, bs, t, include))
<1> DEFINE J == {j \in Here(t) : t[j].origin \in In(config)}
           ch(i) == Item("changed", t[i].origin, i, t[i].path, ChangedHere(config, bs, t[i]), t[i].spec)
           ad(i) == Item("added", t[i].path, i, t[i].path, Fields, t[i].spec)
           re(k) == Item("removed", k, Gone, k, {}, Gone)
           A == {it \in {ch(i) : i \in J} : it.fields # {} \/ it.entry # it.key}
           L == {j \in Here(t) \cap include : t[j].origin = Gone}
           B == {ad(i) : i \in L}
           M == {e \in In(config) : From(t, e) = {} /\ bs[e] # Gone}
           C == {re(k) : k \in M}
<1>1. WriteItems(config, bs, t, include) = A \cup B \cup C
  BY DEF WriteItems
<1>0. /\ \A i \in Here(t) : i \in Ids /\ t[i] \in TaskRec
      /\ In(config) \subseteq Keys /\ \A k \in In(config) : config[k] \in Specs
  BY DEF Here, TaskFns, In, Entries
<1>2. ASSUME NEW i \in J
      PROVE  ch(i) \in ItemRec /\ ItemOf(ch(i)) /\ LeavesKnown(config, bs, ch(i))
  <2> DEFINE c == ch(i)
             F == ChangedHere(config, bs, t[i])
             k == t[i].origin
             was == IF bs[k] = Gone THEN config[k] ELSE bs[k]
  <2>1. i \in Ids /\ t[i] \in TaskRec /\ k \in In(config) /\ k \in Keys
    BY <1>0
  <2>2. t[i].path \in Keys /\ t[i].spec \in Specs
    BY <2>1 DEF TaskRec
  <2>3. F \subseteq Fields
    BY DEF ChangedHere, Changed
  <2>4. \A f \in Fields \ F : t[i].spec[f] = config[k][f] \/ t[i].spec[f] = was[f]
    BY DEF ChangedHere, Changed
  <2>5. was = config[k] \/ (k \in In(bs) /\ was = bs[k])
    BY <2>1 DEF In
  <2> HIDE DEF F, was
  <2>6. c = [kind |-> "changed", key |-> k, task |-> i, entry |-> t[i].path, fields |-> F,
             spec |-> t[i].spec]
    BY DEF Item, F
  <2> HIDE DEF c, k
  <2>7. c \in ItemRec
    BY <2>1, <2>2, <2>3, <2>6 DEF ItemRec
  <2>8. ItemOf(c)
    BY <2>2, <2>6 DEF ItemOf
  <2>9. LeavesKnown(config, bs, c)
    BY <2>1, <2>4, <2>5, <2>6 DEF LeavesKnown
  <2> QED
    BY <2>7, <2>8, <2>9 DEF c
<1>3. ASSUME NEW i \in L PROVE ad(i) \in ItemRec /\ ItemOf(ad(i)) /\ ad(i).kind = "added"
  <2>1. i \in Ids /\ t[i] \in TaskRec
    BY <1>0
  <2>2. t[i].path \in Keys /\ t[i].spec \in Specs
    BY <2>1 DEF TaskRec
  <2> QED
    BY <2>1, <2>2 DEF Item, ItemRec, ItemOf
<1>4. ASSUME NEW k \in M PROVE re(k) \in ItemRec /\ ItemOf(re(k)) /\ re(k).kind = "removed"
  <2>1. k \in Keys
    BY <1>0
  <2> QED
    BY <2>1 DEF Item, ItemRec, ItemOf
<1>5. IsFiniteSet(J) /\ IsFiniteSet(L) /\ IsFiniteSet(M)
  <2>1. IsFiniteSet(Ids) /\ IsFiniteSet(Keys)
    BY ConfigAssumption, FS_Interval DEF Ids
  <2>2. J \subseteq Ids /\ L \subseteq Ids /\ M \subseteq Keys
    BY <1>0
  <2> HIDE DEF J, L, M
  <2> QED
    BY <2>1, <2>2, FS_Subset
<1> HIDE DEF ch, ad, re, J, L, M
<1>6. IsFiniteSet(A) /\ IsFiniteSet(B) /\ IsFiniteSet(C)
  <2> DEFINE fc == [i \in J |-> ch(i)]
             fa == [i \in L |-> ad(i)]
             fr == [k \in M |-> re(k)]
  <2>1. IsFiniteSet({fc[i] : i \in J}) /\ IsFiniteSet({fa[i] : i \in L}) /\ IsFiniteSet({fr[k] : k \in M})
    <3>1. fc = [i \in J |-> fc[i]] /\ fa = [i \in L |-> fa[i]] /\ fr = [k \in M |-> fr[k]]
      OBVIOUS
    <3> HIDE DEF fc, fa, fr
    <3> QED
      BY <1>5, <3>1, ImageFinite
  <2>2. A \subseteq {fc[i] : i \in J} /\ B = {fa[i] : i \in L} /\ C = {fr[k] : k \in M}
    OBVIOUS
  <2> HIDE DEF fc, fa, fr, A, B, C
  <2> QED
    BY <2>1, <2>2, FS_Subset
<1>7. \A it \in A \cup B \cup C :
        it \in ItemRec /\ ItemOf(it) /\ (it.kind = "changed" => LeavesKnown(config, bs, it))
  <2>1. \A it \in A : it \in ItemRec /\ ItemOf(it) /\ LeavesKnown(config, bs, it)
    BY <1>2
  <2>2. \A it \in B : it \in ItemRec /\ ItemOf(it) /\ it.kind = "added"
    BY <1>3
  <2>3. \A it \in C : it \in ItemRec /\ ItemOf(it) /\ it.kind = "removed"
    BY <1>4
  <2> HIDE DEF A, B, C
  <2> QED
    BY <2>1, <2>2, <2>3
<1> HIDE DEF A, B, C
<1>8. IsFiniteSet(A \cup B \cup C)
  <2>1. IsFiniteSet(A \cup B)
    BY <1>6, FS_Union
  <2> QED
    BY <1>6, <2>1, FS_Union
<1> QED
  BY <1>1, <1>7, <1>8

-----------------------------------------------------------------------------
(* What is kept *)

\* What was said stays said.
LEMMA StaysSaid ==
  ASSUME NEW sd, NEW more, sd \subseteq more
  PROVE  /\ \A e, S : Said(sd, e, S) => Said(more, e, S)
         /\ \A text : SaidAll(sd, text) => SaidAll(more, text)
         /\ \A rl : SaidPlan(sd, rl) => SaidPlan(more, rl)
         /\ \A w : SaidWrite(sd, w) => SaidWrite(more, w)
<1>1. \A e, S : Said(sd, e, S) => Said(more, e, S)
  BY DEF Said
<1>2. \A text : SaidAll(sd, text) => SaidAll(more, text)
  BY <1>1 DEF SaidAll
<1>3. \A rl : SaidPlan(sd, rl) => SaidPlan(more, rl)
  BY <1>1, <1>2 DEF SaidPlan
<1>4. \A w : SaidWrite(sd, w) => SaidWrite(more, w)
  BY <1>1 DEF SaidWrite
<1> QED
  BY <1>1, <1>2, <1>3, <1>4

\* What the file says is said.
LEMMA TextSaid ==
  ASSUME NEW sd, NEW text, SaysOf(text) \subseteq sd
  PROVE  SaidAll(sd, text)
<1> SUFFICES ASSUME NEW k \in In(text), NEW f \in Fields PROVE <<k, f, text[k][f]>> \in sd
  BY DEF SaidAll, Said, In
<1>1. <<k, f, text[k][f]>> \in SaysOf(text)
  BY DEF SaysOf
<1> QED
  BY <1>1

\* Nothing planned is a reload, and so is nothing written a write-back.
LEMMA NothingIs ==
  ASSUME NEW sd
  PROVE  /\ ReloadOf(NoReload) /\ SaidPlan(sd, NoReload)
         /\ WriteOf(NoWrite) /\ SaidWrite(sd, NoWrite)
<1> DEFINE none == [k \in Keys |-> Gone]
           empty == [i \in Ids |-> Gone]
<1>1. none \in Entries /\ In(none) = {}
  BY DEF Entries, In
<1>2. empty \in TaskFns /\ Spread(empty)
  BY DEF TaskFns, Spread, Here
<1> HIDE DEF none, empty
<1>3. NoReload = [pc |-> "idle", config |-> none, base |-> none, live |-> empty,
                  changes |-> {}, steps |-> {}, picked |-> FALSE, calm |-> FALSE]
  BY DEF NoReload, none, empty
<1>4. ReloadOf(NoReload)
  BY <1>1, <1>2, <1>3 DEF ReloadOf, ReloadRec
<1>5. SaidPlan(sd, NoReload)
  BY <1>1, <1>3 DEF SaidPlan, SaidAll
<1>6. IsFiniteSet({})
  BY FS_EmptySet
<1>7. WriteOf(NoWrite)
  <2>1. <<>> \in Listings({})
    BY FS_EmptySet DEF Listings, SetToSeqs
  <2> QED
    BY <1>6, <2>1 DEF WriteOf, WriteRec, NoWrite
<1>8. SaidWrite(sd, NoWrite)
  BY DEF SaidWrite, NoWrite
<1> QED
  BY <1>4, <1>5, <1>7, <1>8

\* A reload stirred is one.
LEMMA StirredIs ==
  ASSUME NEW sd, NEW rl, ReloadOf(rl), SaidPlan(sd, rl)
  PROVE  ReloadOf(StirredReload(rl)) /\ SaidPlan(sd, StirredReload(rl))
<1>1. CASE rl.pc = "done"
  BY <1>1, NothingIs DEF StirredReload
<1>2. CASE rl.pc # "done"
  <2> DEFINE q == [rl EXCEPT !.calm = FALSE]
  <2>1. rl \in ReloadRec
    BY DEF ReloadOf
  <2>2. /\ q \in ReloadRec /\ q.pc = rl.pc /\ q.config = rl.config /\ q.base = rl.base /\ q.live = rl.live
        /\ q.changes = rl.changes /\ q.steps = rl.steps
    BY <2>1 DEF ReloadRec
  <2>3. StirredReload(rl) = q
    BY <1>2 DEF StirredReload
  <2> HIDE DEF q
  <2> QED
    BY <2>2, <2>3 DEF ReloadOf, SaidPlan, TakesOnly
<1> QED
  BY <1>1, <1>2

\* So are all of them, and the write-back.
LEMMA StirredAre ==
  ASSUME NEW sd, NEW rs, ReloadsOf(sd, rs)
  PROVE  /\ ReloadsOf(sd, Stirred(rs))
         /\ \A r \in Reloads : ReloadsOf(sd, StirredBut(rs, r)) /\ StirredBut(rs, r)[r] = rs[r]
<1>1. \A r \in Reloads : /\ ReloadOf(rs[r]) /\ SaidPlan(sd, rs[r])
                         /\ ReloadOf(StirredReload(rs[r])) /\ SaidPlan(sd, StirredReload(rs[r]))
  BY StirredIs DEF ReloadsOf
<1>2. \A rl : ReloadOf(rl) => rl \in ReloadRec
  BY DEF ReloadOf
<1>3. ReloadsOf(sd, Stirred(rs))
  BY <1>1, <1>2 DEF ReloadsOf, Stirred
<1>4. ASSUME NEW r \in Reloads
      PROVE  ReloadsOf(sd, StirredBut(rs, r)) /\ StirredBut(rs, r)[r] = rs[r]
  BY <1>1, <1>2 DEF ReloadsOf, StirredBut
<1> QED
  BY <1>3, <1>4

\* So is the write-back.
LEMMA StirredWriteIs ==
  ASSUME NEW sd, WriteOf(wb), SaidWrite(sd, wb)
  PROVE  WriteOf(StirredWrite) /\ SaidWrite(sd, StirredWrite)
<1>1. CASE wb.pc = "done"
  BY <1>1, NothingIs DEF StirredWrite
<1>2. CASE wb.pc # "done"
  <2> DEFINE q == [wb EXCEPT !.calm = FALSE]
  <2>1. wb \in WriteRec
    BY DEF WriteOf
  <2>2. /\ q \in WriteRec /\ q.pc = wb.pc /\ q.items = wb.items /\ q.order = wb.order /\ q.old = wb.old /\ q.new = wb.new
        /\ q.read = wb.read /\ q.entries = wb.entries
    BY <2>1 DEF WriteRec
  <2>3. StirredWrite = q
    BY <1>2 DEF StirredWrite
  <2> HIDE DEF q
  <2> QED
    BY <2>2, <2>3 DEF WriteOf, SaidWrite
<1> QED
  BY <1>1, <1>2

\* One reload's next plan or step leaves the others as they are.
LEMMA OneReload ==
  ASSUME NEW sd, NEW rs, ReloadsOf(sd, rs), NEW r \in Reloads, NEW rl,
         ReloadOf(rl), SaidPlan(sd, rl)
  PROVE  ReloadsOf(sd, [rs EXCEPT ![r] = rl])
<1>1. rl \in ReloadRec
  BY DEF ReloadOf
<1> QED
  BY <1>1 DEF ReloadsOf

\* A task here that changes and stays, and one that goes.
LEMMA TaskTo ==
  ASSUME NEW t, NEW n, TasksOf(t, n), NEW i \in Here(t), NEW x \in TaskRec \cup {Gone},
         x # Gone => \A j \in Here(t) \ {i} : t[j].path # x.path
  PROVE  TasksOf([t EXCEPT ![i] = x], n)
<1>1. i \in Ids /\ t[i] # Gone
  BY DEF Here
<1>2. [t EXCEPT ![i] = x] \in TaskFns
  BY <1>1 DEF TasksOf, TaskFns
<1>3. Spread([t EXCEPT ![i] = x])
  BY <1>1 DEF TasksOf, TaskFns, Spread, Here
<1>4. Made([t EXCEPT ![i] = x], n)
  BY <1>1 DEF TasksOf, TaskFns, Made
<1> QED
  BY <1>2, <1>3, <1>4 DEF TasksOf

\* A new task at a free path.
LEMMA TaskNew ==
  ASSUME NEW t, NEW n, TasksOf(t, n), NEW x \in TaskRec, \A j \in Here(t) : t[j].path # x.path
  PROVE  TasksOf([t EXCEPT ![n] = x], n + 1)
<1>1. n \in Nat /\ t \in TaskFns /\ \A i \in Ids : i >= n => t[i] = Gone
  BY DEF TasksOf, Made
<1>2. Ids \subseteq Nat
  BY ConfigAssumption DEF Ids
<1>3. [t EXCEPT ![n] = x] \in TaskFns
  BY <1>1 DEF TaskFns
<1>4. Spread([t EXCEPT ![n] = x])
  BY <1>1, <1>2 DEF TasksOf, TaskFns, Spread, Here
<1>5. Made([t EXCEPT ![n] = x], n + 1)
  BY <1>1, <1>2 DEF TaskFns, Made
<1> QED
  BY <1>1, <1>3, <1>4, <1>5 DEF TasksOf

-----------------------------------------------------------------------------
(* Reloads *)

\* All of it after a step.
WholeNext == Whole(said, disk', base', tasks', nextId', syncing', reload', wb')

\* What is known of the reload a step is of.
LEMMA Mine ==
  ASSUME CInv, NEW r \in Reloads
  PROVE  /\ reload[r] \in ReloadRec /\ ReloadOf(reload[r]) /\ SaidPlan(said, reload[r])
         /\ reload[r].config \in Entries /\ reload[r].base \in Entries
         /\ reload[r].live \in TaskFns /\ reload[r].changes \in SUBSET ChangeRec
         /\ reload[r].steps \in SUBSET StepRec
BY DEF CInv, Whole, ReloadsOf, ReloadOf, ReloadRec

\* A plan is of what the file and the base say.
LEMMA PlanReloadKeeps ==
  ASSUME CInv, NEW r \in Reloads, PlanReload(r)
  PROVE  WholeNext
<1> DEFINE cs == Plan(disk.text, base, tasks)
           rl == [NoReload EXCEPT !.pc = "planned", !.config = disk.text, !.base = base,
                                  !.live = tasks, !.changes = cs, !.calm = TRUE]
<1>1. /\ disk.text \in Entries /\ base \in Entries /\ tasks \in TaskFns /\ Spread(tasks)
      /\ SaidAll(said, base) /\ SaidAll(said, disk.text)
  BY TextSaid DEF CInv, Whole, Disk, BaseOf, TasksOf
<1>2. \A c \in cs : ChangeIs(disk.text, base, tasks, c)
  BY <1>1, PlanIs
<1>3. \A c \in cs : c.was # Gone => Said(said, c.was, Fields)
  BY <1>1, <1>2 DEF ChangeIs, WasKnown, SaidAll
<1>4. cs \subseteq ChangeRec /\ \A c \in cs : ChangeOf(disk.text, c)
  BY <1>2 DEF ChangeIs, Fits
<1> HIDE DEF cs
<1>9. NoReload \in ReloadRec /\ NoReload.steps = {}
  BY NothingIs DEF ReloadOf, NoReload
<1>5. /\ rl \in ReloadRec /\ rl.pc = "planned" /\ rl.config = disk.text /\ rl.base = base
      /\ rl.live = tasks /\ rl.changes = cs /\ rl.steps = {}
  BY <1>1, <1>4, <1>9 DEF ReloadRec
<1> HIDE DEF rl
<1>6. ReloadOf(rl) /\ SaidPlan(said, rl)
  <2>2. ReloadOf(rl)
    BY <1>1, <1>4, <1>5 DEF ReloadOf
  <2>3. SaidPlan(said, rl)
    BY <1>1, <1>3, <1>5 DEF SaidPlan
  <2> QED
    BY <2>2, <2>3
<1>7. /\ reload' = [reload EXCEPT ![r] = IF disk.loads THEN rl ELSE NoReload]
      /\ UNCHANGED <<disk, base, tasks, nextId, syncing, wb>>
  BY DEF PlanReload, rl, cs
<1>8. ReloadsOf(said, reload')
  BY <1>6, <1>7, OneReload, NothingIs DEF CInv, Whole
<1> QED
  BY <1>7, <1>8 DEF CInv, Whole, WholeNext

\* A change taken or left is of the same entry and the same task.
LEMMA ToggleKeeps ==
  ASSUME CInv, NEW r \in Reloads, NEW c \in reload[r].changes, Toggle(r, c)
  PROVE  WholeNext
<1> DEFINE ap == ~c.apply \/ (c.take # {} /\ c.take # c.fields)
           S == IF ap THEN c.fields ELSE {}
           toggled == [c EXCEPT !.apply = ap, !.take = S]
           set == (reload[r].changes \ {c}) \cup {toggled}
           cs == CheckTheWay(reload[r].live, set)
           rl == [reload[r] EXCEPT !.changes = cs, !.picked = TRUE]
<1>1. reload[r] \in ReloadRec /\ reload[r].changes \in SUBSET ChangeRec /\ ReloadOf(reload[r])
      /\ SaidPlan(said, reload[r])
  BY Mine
<1>2. c \in ChangeRec /\ ap \in BOOLEAN /\ S \in SUBSET Fields
  BY <1>1 DEF ChangeRec
<1>3. reload[r].steps = {}
  BY <1>1 DEF Toggle, ReloadOf
<1>4. reload' = [reload EXCEPT ![r] = rl] /\ UNCHANGED <<disk, base, tasks, nextId, syncing, wb>>
  BY DEF Toggle
<1> HIDE DEF ap, S
<1>5. /\ toggled \in ChangeRec /\ toggled.kind = c.kind /\ toggled.key = c.key
      /\ toggled.task = c.task /\ toggled.was = c.was
  BY <1>2 DEF ChangeRec
<1> HIDE DEF toggled
<1>6. \A d \in set : \E e \in reload[r].changes :
        d \in ChangeRec /\ d.kind = e.kind /\ d.key = e.key /\ d.task = e.task /\ d.was = e.was
  BY <1>1, <1>5
<1> HIDE DEF set
<1>7. \A d \in cs : \E e \in set : Like(e, d)
  <2>1. PICK g : CheckTheWay(reload[r].live, set) = {g[e] : e \in set} /\ \A e \in set : Like(e, g[e])
    BY <1>6, WayIs
  <2> QED
    BY <2>1
<1>8. \A d \in cs : \E e \in reload[r].changes :
        d \in ChangeRec /\ d.kind = e.kind /\ d.key = e.key /\ d.task = e.task /\ d.was = e.was
  BY <1>6, <1>7 DEF Like
<1> HIDE DEF cs
<1>9. /\ rl \in ReloadRec /\ rl.pc = reload[r].pc /\ rl.config = reload[r].config
      /\ rl.base = reload[r].base /\ rl.live = reload[r].live /\ rl.changes = cs /\ rl.steps = {}
  BY <1>1, <1>3, <1>8 DEF ReloadRec
<1> HIDE DEF rl
<1>10. ReloadOf(rl)
  BY <1>1, <1>8, <1>9 DEF ReloadOf, ChangeOf
<1>11. SaidPlan(said, rl)
  BY <1>1, <1>8, <1>9 DEF SaidPlan
<1>12. ReloadsOf(said, reload')
  BY <1>4, <1>10, <1>11, OneReload DEF CInv, Whole
<1> QED
  BY <1>4, <1>12 DEF CInv, Whole, WholeNext

\* The steps of a plan come from the tasks as they are.
LEMMA BeginApplyKeeps ==
  ASSUME CInv, NEW r \in Reloads, BeginApply(r)
  PROVE  WholeNext
<1> DEFINE sts == Steps(reload[r], tasks)
           rl == [reload[r] EXCEPT !.pc = "apply", !.steps = sts]
<1>1. /\ reload[r] \in ReloadRec /\ ReloadOf(reload[r]) /\ SaidPlan(said, reload[r])
      /\ reload[r].config \in Entries /\ reload[r].changes \in SUBSET ChangeRec
  BY Mine
<1>2. tasks \in TaskFns /\ \A c \in reload[r].changes : ChangeOf(reload[r].config, c)
  BY <1>1 DEF CInv, Whole, TasksOf, ReloadOf
<1>3. \A st \in sts : st \in StepRec /\ StepOf(st) /\ TakesOnly(reload[r], st)
  BY <1>1, <1>2, StepsFit
<1>4. /\ reload' = [reload EXCEPT ![r] = rl] /\ syncing' = r
      /\ UNCHANGED <<disk, base, tasks, nextId, wb>>
  BY DEF BeginApply
<1> HIDE DEF sts
<1>5. /\ rl \in ReloadRec /\ rl.pc = "apply" /\ rl.config = reload[r].config
      /\ rl.base = reload[r].base /\ rl.live = reload[r].live /\ rl.changes = reload[r].changes
      /\ rl.steps = sts
  BY <1>1, <1>3 DEF ReloadRec
<1> HIDE DEF rl
<1>6. ReloadOf(rl)
  BY <1>1, <1>3, <1>5 DEF ReloadOf, TakesOnly
<1>7. SaidPlan(said, rl)
  BY <1>1, <1>5 DEF SaidPlan
<1>8. ReloadsOf(said, reload')
  BY <1>4, <1>6, <1>7, OneReload DEF CInv, Whole
<1> QED
  BY <1>4, <1>8 DEF CInv, Whole, WholeNext

\* A step the kernel carries out leaves tasks.
LEMMA DoneKeeps ==
  ASSUME TasksOf(tasks, nextId), NEW st, st \in StepRec, StepOf(st), Done(st)
  PROVE  TasksOf(tasks', nextId')
<1>0. /\ tasks \in TaskFns
      /\ \A i \in Here(tasks) : i \in Ids /\ tasks[i] \in TaskRec
  BY DEF TasksOf, TaskFns, Here
<1>1. CASE st.act = "origin"
  <2>1. st.task \in Ids /\ st.to \in Keys \cup {Gone} /\ nextId' = nextId
    BY <1>1 DEF StepOf, Done
  <2>2. CASE tasks[st.task] = Gone
    BY <1>1, <2>1, <2>2 DEF Done
  <2>3. CASE tasks[st.task] # Gone
    <3> DEFINE x == [tasks[st.task] EXCEPT !.origin = st.to]
    <3>1. st.task \in Here(tasks)
      BY <2>1, <2>3 DEF Here
    <3>2. x \in TaskRec /\ x.path = tasks[st.task].path
      BY <1>0, <2>1, <3>1 DEF TaskRec
    <3>3. tasks' = [tasks EXCEPT ![st.task] = x]
      BY <1>1, <2>3 DEF Done
    <3> HIDE DEF x
    <3>4. \A j \in Here(tasks) \ {st.task} : tasks[j].path # x.path
      BY <3>1, <3>2 DEF TasksOf, Spread
    <3> QED
      BY <2>1, <3>1, <3>2, <3>3, <3>4, TaskTo
  <2> QED
    BY <2>2, <2>3
<1>2. CASE st.act = "remove"
  <2>1. st.task \in Ids /\ nextId' = nextId /\ tasks' = [tasks EXCEPT ![st.task] = Gone]
    BY <1>2 DEF StepOf, Done
  <2>2. CASE tasks[st.task] = Gone
    <3>1. tasks' = tasks
      BY <1>0, <2>1, <2>2 DEF TaskFns
    <3> QED
      BY <2>1, <3>1
  <2>3. CASE tasks[st.task] # Gone
    <3>1. st.task \in Here(tasks)
      BY <2>1, <2>3 DEF Here
    <3> QED
      BY <2>1, <3>1, TaskTo
  <2> QED
    BY <2>2, <2>3
<1>3. CASE st.act = "add"
  <2> DEFINE x == Task(st.path, st.key, st.to)
  <2>1. st.path \in Keys /\ st.key \in Keys /\ st.to \in Specs
    BY <1>3 DEF StepOf
  <2>2. x \in TaskRec /\ x.path = st.path
    BY <2>1 DEF Task, TaskRec
  <2>3. Free(st.path) /\ tasks' = [tasks EXCEPT ![nextId] = x] /\ nextId' = nextId + 1
    BY <1>3 DEF Done
  <2> HIDE DEF x
  <2>4. \A j \in Here(tasks) : tasks[j].path # x.path
    BY <2>2, <2>3 DEF Free, At
  <2> QED
    BY <2>2, <2>3, <2>4, TaskNew
<1>4. CASE st.act = "update"
  <2>1. PICK i \in Updatable(st) : tasks' = [tasks EXCEPT ![i].spec = st.to] /\ nextId' = nextId
    BY <1>4 DEF Done
  <2>2. i \in Here(tasks) /\ st.to \in Specs
    BY <1>4 DEF Updatable, At, StepOf
  <2> DEFINE x == [tasks[i] EXCEPT !.spec = st.to]
  <2>3. x \in TaskRec /\ x.path = tasks[i].path
    BY <1>0, <2>2 DEF TaskRec
  <2>4. tasks' = [tasks EXCEPT ![i] = x]
    BY <2>1
  <2> HIDE DEF x
  <2>5. \A j \in Here(tasks) \ {i} : tasks[j].path # x.path
    BY <2>2, <2>3 DEF TasksOf, Spread
  <2> QED
    <3>1. TasksOf([tasks EXCEPT ![i] = x], nextId)
      BY <2>2, <2>3, <2>5, TaskTo
    <3> QED
      BY <2>1, <2>4, <3>1
<1> QED
  BY <1>1, <1>2, <1>3, <1>4 DEF StepRec

\* A step carried out, refused or passed over.
LEMMA RunStepKeeps ==
  ASSUME CInv, NEW r \in Reloads, RunStep(r)
  PROVE  WholeNext
<1>1. /\ reload[r] \in ReloadRec /\ ReloadOf(reload[r]) /\ SaidPlan(said, reload[r])
      /\ reload[r].changes \in SUBSET ChangeRec /\ reload[r].steps \in SUBSET StepRec
  BY Mine
<1>2. ReloadsOf(said, reload) /\ TasksOf(tasks, nextId) /\ WriteOf(wb) /\ SaidWrite(said, wb)
  BY DEF CInv, Whole
<1>3. PICK st \in Ready(r) :
         LET left == [reload EXCEPT ![r].steps = @ \ {st}]
         IN \/ reload' = left /\ UNCHANGED <<tasks, nextId, wb>>
            \/ Done(st) /\ reload' = StirredBut(left, r) /\ wb' = StirredWrite
            \/ /\ Refused(st)
               /\ reload' = [left EXCEPT ![r].changes = Fail(@, st.key)]
               /\ UNCHANGED wb
  BY DEF RunStep
<1> DEFINE rl == [reload[r] EXCEPT !.steps = @ \ {st}]
           left == [reload EXCEPT ![r] = rl]
           cs == Fail(reload[r].changes, st.key)
           fl == [rl EXCEPT !.changes = cs]
<1>4. UNCHANGED <<disk, base, syncing>> /\ reload[r].pc = "apply"
  BY DEF RunStep
<1>5. st \in reload[r].steps /\ st \in StepRec /\ StepOf(st)
  BY <1>1 DEF Ready, ReloadOf
<1>6. /\ rl \in ReloadRec /\ rl.pc = "apply" /\ rl.config = reload[r].config
      /\ rl.base = reload[r].base /\ rl.live = reload[r].live
      /\ rl.changes = reload[r].changes /\ rl.steps = reload[r].steps \ {st}
  BY <1>1, <1>4 DEF ReloadRec
<1>7. [reload EXCEPT ![r].steps = @ \ {st}] = left
  OBVIOUS
<1>8. r \in Reloads /\ reload \in [Reloads -> ReloadRec]
  BY <1>2 DEF ReloadsOf
<1>9. [left EXCEPT ![r].changes = Fail(@, st.key)] = [reload EXCEPT ![r] = fl]
  <2> HIDE DEF rl
  <2>1. left[r] = rl
    BY <1>8
  <2>2. Fail(left[r].changes, st.key) = cs
    BY <1>6, <2>1
  <2> QED
    BY <1>8, <2>1, <2>2
<1> HIDE DEF rl
<1>10. ReloadOf(rl) /\ SaidPlan(said, rl)
  <2>1. ReloadOf(rl)
    BY <1>1, <1>6 DEF ReloadOf, TakesOnly
  <2>2. SaidPlan(said, rl)
    BY <1>1, <1>6 DEF SaidPlan
  <2> QED
    BY <2>1, <2>2
<1>11. ReloadsOf(said, left)
  BY <1>2, <1>10, OneReload
<1>12. /\ \A d \in cs : \E e \in rl.changes :
            d \in ChangeRec /\ d.kind = e.kind /\ d.key = e.key /\ d.task = e.task /\ d.was = e.was
       /\ \A e \in rl.changes : \E d \in cs : d.key = e.key /\ d.take = e.take
  <2> DEFINE d(c) == IF c.key = st.key THEN [c EXCEPT !.failed = TRUE] ELSE c
  <2>1. cs = {d(c) : c \in reload[r].changes}
    BY DEF Fail
  <2>2. ASSUME NEW c \in reload[r].changes
        PROVE  /\ d(c) \in ChangeRec /\ d(c).kind = c.kind /\ d(c).key = c.key
               /\ d(c).task = c.task /\ d(c).was = c.was /\ d(c).take = c.take
    BY <1>1, FailedIs
  <2> HIDE DEF d, cs
  <2> QED
    BY <1>6, <2>1, <2>2
<1> HIDE DEF cs
<1>13. ReloadOf(fl) /\ SaidPlan(said, fl)
  <2>1. /\ fl \in ReloadRec /\ fl.pc = rl.pc /\ fl.config = rl.config /\ fl.base = rl.base
        /\ fl.live = rl.live /\ fl.steps = rl.steps /\ fl.changes = cs
    BY <1>6, <1>12 DEF ReloadRec
  <2> HIDE DEF fl
  <2>2. \A c \in cs : ChangeOf(fl.config, c)
    BY <1>10, <1>12, <2>1 DEF ReloadOf, ChangeOf
  <2>3. \A x \in fl.steps : StepOf(x) /\ TakesOnly(fl, x)
    BY <1>10, <1>12, <2>1 DEF ReloadOf, TakesOnly
  <2>4. ReloadOf(fl)
    BY <1>6, <1>10, <2>1, <2>2, <2>3 DEF ReloadOf
  <2>5. SaidPlan(said, fl)
    BY <1>10, <1>12, <2>1 DEF SaidPlan
  <2> QED
    BY <2>4, <2>5
<1>14. ReloadsOf(said, [reload EXCEPT ![r] = fl])
  BY <1>2, <1>13, OneReload
<1>15. ReloadsOf(said, StirredBut(left, r)) /\ WriteOf(StirredWrite) /\ SaidWrite(said, StirredWrite)
  BY <1>2, <1>11, StirredAre, StirredWriteIs
<1> HIDE DEF left, fl
<1>16. CASE reload' = left /\ UNCHANGED <<tasks, nextId, wb>>
  BY <1>4, <1>11, <1>16 DEF CInv, Whole, WholeNext
<1>17. CASE Done(st) /\ reload' = StirredBut(left, r) /\ wb' = StirredWrite
  <2>1. TasksOf(tasks', nextId')
    BY <1>2, <1>5, <1>17, DoneKeeps
  <2> QED
    BY <1>4, <1>15, <1>17, <2>1 DEF CInv, Whole, WholeNext
<1>18. CASE Refused(st) /\ reload' = [reload EXCEPT ![r] = fl] /\ UNCHANGED wb
  BY <1>4, <1>14, <1>18 DEF CInv, Whole, WholeNext, Refused
<1> QED
  BY <1>3, <1>7, <1>9, <1>16, <1>17, <1>18

\* The base a plan leaves is of what the config or the last base says.
LEMMA FinishApplyKeeps ==
  ASSUME CInv, NEW r \in Reloads, FinishApply(r)
  PROVE  WholeNext
<1> DEFINE rl == reload[r]
           b == CarriedOut(rl)
<1>1. /\ rl \in ReloadRec /\ ReloadOf(rl) /\ SaidPlan(said, rl)
      /\ rl.config \in Entries /\ rl.changes \in SUBSET ChangeRec
  BY Mine
<1>2. ASSUME NEW k \in Keys
      PROVE  b[k] \in Specs \cup {Gone} /\ (b[k] # Gone => Said(said, b[k], Fields))
  <2> DEFINE of == {c \in rl.changes : c.key = k}
             failed == {c \in of : c.failed}
  <2>1. b[k] \in {c.was : c \in failed} \/ b[k] = Gone \/ b[k] = rl.config[k]
    <3>1. failed # {} => (CHOOSE c \in failed : TRUE) \in failed
      OBVIOUS
    <3> QED
      BY <3>1 DEF CarriedOut
  <2>2. \A c \in failed : c.was \in Specs \cup {Gone} /\ (c.was # Gone => Said(said, c.was, Fields))
    BY <1>1 DEF ChangeRec, SaidPlan
  <2>3. /\ rl.config[k] \in Specs \cup {Gone}
        /\ rl.config[k] # Gone => Said(said, rl.config[k], Fields)
    BY <1>1 DEF Entries, SaidPlan, SaidAll, In
  <2> HIDE DEF failed, b, rl
  <2> QED
    BY <2>1, <2>2, <2>3
<1>3. BaseOf(said, b)
  <2>1. b = [k \in Keys |-> b[k]]
    BY DEF CarriedOut
  <2> HIDE DEF b
  <2>2. b \in Entries
    BY <1>2, <2>1 DEF Entries
  <2> QED
    BY <1>2, <2>2 DEF BaseOf, SaidAll, In
<1>4. /\ base' = b /\ syncing' = Gone /\ wb' = StirredWrite
      /\ reload' = [StirredBut(reload, r) EXCEPT ![r].pc = "done"]
      /\ UNCHANGED <<disk, tasks, nextId>> /\ rl.steps = {}
  BY DEF FinishApply
<1> DEFINE dl == [rl EXCEPT !.pc = "done"]
<1>5. ReloadsOf(said, StirredBut(reload, r)) /\ StirredBut(reload, r)[r] = rl
  BY StirredAre DEF CInv, Whole
<1>6. reload' = [StirredBut(reload, r) EXCEPT ![r] = dl]
  BY <1>4, <1>5 DEF ReloadsOf
<1> HIDE DEF rl, b
<1>7. /\ dl \in ReloadRec /\ dl.pc = "done" /\ dl.config = rl.config /\ dl.base = rl.base
      /\ dl.live = rl.live /\ dl.changes = rl.changes /\ dl.steps = {}
  BY <1>1, <1>4 DEF ReloadRec
<1> HIDE DEF dl
<1>8. ReloadOf(dl) /\ SaidPlan(said, dl)
  BY <1>1, <1>7 DEF ReloadOf, SaidPlan
<1>9. ReloadsOf(said, reload')
  BY <1>5, <1>6, <1>8, OneReload
<1>10. WriteOf(StirredWrite) /\ SaidWrite(said, StirredWrite)
  BY StirredWriteIs DEF CInv, Whole
<1> QED
  BY <1>3, <1>4, <1>9, <1>10 DEF CInv, Whole, WholeNext

-----------------------------------------------------------------------------
(* The write-back *)

\* What is known of the write-back.
LEMMA Ours ==
  ASSUME CInv
  PROVE  /\ wb \in WriteRec /\ WriteOf(wb) /\ SaidWrite(said, wb)
         /\ wb.items \in SUBSET ItemRec /\ IsFiniteSet(wb.items)
         /\ wb.read \subseteq wb.items /\ wb.entries \subseteq wb.items
         /\ \A it \in wb.items : ItemOf(it)
         /\ ReloadsOf(said, Stirred(reload))
BY StirredAre DEF CInv, Whole, WriteOf, WriteRec

\* A write-back further on, with the items it has.
LEMMA WriteOn ==
  ASSUME NEW sd, NEW w, WriteOf(w), SaidWrite(sd, w), NEW q \in WriteRec,
         q.items = w.items, q.order = w.order, q.read \subseteq w.read, q.entries \subseteq w.entries \cup w.read,
         q.pc \in {"read", "check"} => q.old \in Disk,
         q.pc = "read" => q.new \in Entries
  PROVE  WriteOf(q) /\ SaidWrite(sd, q)
<1>1. q.read \cup q.entries \subseteq w.read \cup w.entries
  OBVIOUS
<1>2. WriteOf(q)
  BY <1>1 DEF WriteOf
<1>3. SaidWrite(sd, q)
  BY <1>1 DEF SaidWrite
<1> QED
  BY <1>2, <1>3

\* What an item leaves alone is what the file or the base says, so the file said it.
LEMMA PlanWriteKeeps ==
  ASSUME CInv, PlanWrite
  PROVE  WholeNext
<1>1. /\ disk.text \in Entries /\ base \in Entries /\ tasks \in TaskFns
      /\ SaidAll(said, base) /\ SaidAll(said, disk.text)
  BY TextSaid DEF CInv, Whole, Disk, BaseOf, TasksOf
<1>2. PICK include \in SUBSET {i \in Here(tasks) : tasks[i].origin = Gone} :
        \E chosen \in (SUBSET WriteItems(disk.text, base, tasks, include)) \ {{}} :
        \E order \in Listings(chosen) :
          wb' = [NoWrite EXCEPT !.pc = "planned", !.items = chosen, !.order = order, !.calm = TRUE]
  BY DEF PlanWrite
<1> DEFINE all == WriteItems(disk.text, base, tasks, include)
<1>15. PICK chosen \in (SUBSET all) \ {{}} :
         \E order \in Listings(chosen) :
           wb' = [NoWrite EXCEPT !.pc = "planned", !.items = chosen, !.order = order, !.calm = TRUE]
  BY <1>2
<1>3. PICK order \in Listings(chosen) :
        wb' = [NoWrite EXCEPT !.pc = "planned", !.items = chosen, !.order = order, !.calm = TRUE]
  BY <1>15
<1> DEFINE w == [NoWrite EXCEPT !.pc = "planned", !.items = chosen, !.order = order, !.calm = TRUE]
<1>4. include \in SUBSET Here(tasks)
  OBVIOUS
<1>5. /\ \A it \in all : /\ it \in ItemRec /\ ItemOf(it)
                         /\ it.kind = "changed" => LeavesKnown(disk.text, base, it)
      /\ IsFiniteSet(all)
  BY <1>1, <1>4, ItemsAre
<1>6. UNCHANGED <<disk, base, tasks, nextId, syncing, reload>>
  BY DEF PlanWrite
<1>7. chosen \subseteq all
  OBVIOUS
<1> HIDE DEF all
<1>8. chosen \in SUBSET ItemRec /\ IsFiniteSet(chosen)
  BY <1>5, <1>7, FS_Subset
<1>9. /\ NoWrite \in WriteRec /\ NoWrite.read = {} /\ NoWrite.entries = {}
  BY NothingIs DEF WriteOf, NoWrite
<1>14. order \in Seq(ItemRec)
  BY <1>8, Listed
<1>10. /\ w \in WriteRec /\ w.pc = "planned" /\ w.items = chosen /\ w.order = order
       /\ w.read = {} /\ w.entries = {}
  BY <1>8, <1>9, <1>14 DEF WriteRec
<1> HIDE DEF w
<1>11. WriteOf(w)
  BY <1>5, <1>7, <1>8, <1>10 DEF WriteOf
<1>12. ASSUME NEW it \in chosen, it.kind = "changed" PROVE Said(said, it.spec, Fields \ it.fields)
  <2>1. LeavesKnown(disk.text, base, it)
    BY <1>5, <1>7, <1>12
  <2>2. ASSUME NEW f \in Fields \ it.fields PROVE \E o \in Keys : <<o, f, it.spec[f]>> \in said
    <3>1. CASE \E o \in In(disk.text) : it.spec[f] = disk.text[o][f]
      BY <1>1, <3>1 DEF SaidAll, Said
    <3>2. CASE \E o \in In(base) : it.spec[f] = base[o][f]
      BY <1>1, <3>2 DEF SaidAll, Said
    <3> QED
      BY <2>1, <3>1, <3>2 DEF LeavesKnown
  <2> QED
    BY <2>2 DEF Said
<1>13. SaidWrite(said, w)
  BY <1>10, <1>12 DEF SaidWrite
<1> QED
  BY <1>3, <1>6, <1>11, <1>13 DEF CInv, Whole, WholeNext, w

\* What is read to be written is a file.
LEMMA ReadFileKeeps ==
  ASSUME CInv, ReadFile
  PROVE  WholeNext
<1> DEFINE w1 == [wb EXCEPT !.pc = "wrote", !.failed = wb.items]
<1>1. /\ wb \in WriteRec /\ WriteOf(wb) /\ SaidWrite(said, wb)
      /\ wb.items \in SUBSET ItemRec /\ IsFiniteSet(wb.items)
      /\ \A it \in wb.items : ItemOf(it)
  BY Ours
<1>2. disk \in Disk /\ disk.text \in Entries
  BY DEF CInv, Whole, Disk
<1>3. UNCHANGED <<disk, base, tasks, nextId, syncing, reload>>
  BY DEF ReadFile
<1>4. WriteOf(w1) /\ SaidWrite(said, w1)
  <2>1. /\ w1 \in WriteRec /\ w1.pc = "wrote" /\ w1.items = wb.items /\ w1.order = wb.order
        /\ w1.read = wb.read /\ w1.entries = wb.entries
    BY <1>1 DEF WriteRec
  <2> HIDE DEF w1
  <2> QED
    BY <1>1, <2>1, WriteOn
<1> DEFINE N == Len(wb.order)
           done == EditAll(disk.text, wb.order)
           w2 == [wb EXCEPT !.pc = "read", !.failed = done.failed, !.old = disk, !.new = done.text]
<1>5. WriteOf(w2) /\ SaidWrite(said, w2)
  <2>1. N \in Nat /\ wb.order \in [1 .. N -> wb.items]
    BY <1>1, Listed DEF WriteOf
  <2>2. wb.order \in [1 .. N -> ItemRec] /\ \A n \in 1 .. N : ItemOf(wb.order[n])
    BY <1>1, <2>1
  <2>3. done.text \in Entries /\ done.failed \subseteq {wb.order[n] : n \in 1 .. N}
    BY <1>2, <2>1, <2>2, EditAllIs
  <2>4. done.failed \in SUBSET ItemRec
    BY <2>2, <2>3
  <2> HIDE DEF done
  <2>5. /\ w2 \in WriteRec /\ w2.pc = "read" /\ w2.items = wb.items /\ w2.order = wb.order
        /\ w2.read = wb.read /\ w2.entries = wb.entries /\ w2.old \in Disk /\ w2.new \in Entries
    BY <1>1, <1>2, <2>3, <2>4 DEF WriteRec
  <2> HIDE DEF w2
  <2> QED
    BY <1>1, <2>5, WriteOn
<1>6. wb' = w1 \/ wb' = w2
  BY DEF ReadFile
<1> HIDE DEF w1, w2
<1> QED
  BY <1>3, <1>4, <1>5, <1>6 DEF CInv, Whole, WholeNext

\* What is written is a file.
LEMMA WriteFileKeeps ==
  ASSUME CInv, WriteFile
  PROVE  WholeNext
<1> DEFINE w == [wb EXCEPT !.pc = "check"]
<1>1. /\ wb \in WriteRec /\ WriteOf(wb) /\ SaidWrite(said, wb) /\ ReloadsOf(said, Stirred(reload))
  BY Ours
<1>2. wb.old \in Disk /\ wb.new \in Entries
  BY <1>1 DEF WriteFile, WriteOf
<1>3. disk \in Disk /\ disk' = [disk EXCEPT !.text = wb.new]
  BY DEF CInv, Whole, WriteFile
<1>4. disk' \in Disk
  BY <1>2, <1>3 DEF Disk
<1>5. /\ w \in WriteRec /\ w.pc = "check" /\ w.items = wb.items /\ w.order = wb.order /\ w.read = wb.read
      /\ w.entries = wb.entries /\ w.old = wb.old
  BY <1>1 DEF WriteRec
<1>6. wb' = w /\ reload' = Stirred(reload) /\ UNCHANGED <<base, tasks, nextId, syncing>>
  BY DEF WriteFile
<1> HIDE DEF w
<1>7. WriteOf(w) /\ SaidWrite(said, w)
  BY <1>1, <1>2, <1>5, WriteOn
<1> QED
  BY <1>1, <1>4, <1>6, <1>7 DEF CInv, Whole, WholeNext

\* So is what is put back.
LEMMA CheckWriteKeeps ==
  ASSUME CInv, CheckWrite
  PROVE  WholeNext
<1> DEFINE w1 == [wb EXCEPT !.pc = "wrote", !.old = Gone, !.new = Gone]
           w2 == [wb EXCEPT !.pc = "wrote", !.failed = wb.items, !.old = Gone, !.new = Gone]
<1>1. /\ wb \in WriteRec /\ WriteOf(wb) /\ SaidWrite(said, wb) /\ ReloadsOf(said, Stirred(reload))
      /\ wb.items \in SUBSET ItemRec
  BY Ours
<1>2. wb.old \in Disk
  BY <1>1 DEF CheckWrite, WriteOf
<1>3. /\ w1 \in WriteRec /\ w1.pc = "wrote" /\ w1.items = wb.items /\ w1.order = wb.order /\ w1.read = wb.read
      /\ w1.entries = wb.entries
  BY <1>1 DEF WriteRec
<1>4. /\ w2 \in WriteRec /\ w2.pc = "wrote" /\ w2.items = wb.items /\ w2.order = wb.order /\ w2.read = wb.read
      /\ w2.entries = wb.entries
  BY <1>1 DEF WriteRec
<1>5. /\ \/ wb' = w1 /\ UNCHANGED <<disk, reload>>
         \/ disk' = wb.old /\ wb' = w2 /\ reload' = Stirred(reload)
      /\ UNCHANGED <<base, tasks, nextId, syncing>>
  BY DEF CheckWrite
<1> HIDE DEF w1, w2
<1>6. WriteOf(w1) /\ SaidWrite(said, w1) /\ WriteOf(w2) /\ SaidWrite(said, w2)
  BY <1>1, <1>3, <1>4, WriteOn
<1> QED
  BY <1>1, <1>2, <1>5, <1>6 DEF CInv, Whole, WholeNext

\* An agent is asked.
LEMMA AskAgentKeeps ==
  ASSUME CInv, AskAgent
  PROVE  WholeNext
<1> DEFINE w == [wb EXCEPT !.pc = "agent", !.agent = TRUE]
<1>1. wb \in WriteRec /\ WriteOf(wb) /\ SaidWrite(said, wb)
  BY Ours
<1>2. /\ w \in WriteRec /\ w.pc = "agent" /\ w.items = wb.items /\ w.order = wb.order
      /\ w.read = wb.read /\ w.entries = wb.entries
  BY <1>1 DEF WriteRec
<1>3. wb' = w /\ UNCHANGED <<disk, base, tasks, nextId, syncing, reload>>
  BY DEF AskAgent
<1> HIDE DEF w
<1>4. WriteOf(w) /\ SaidWrite(said, w)
  BY <1>1, <1>2, WriteOn
<1> QED
  BY <1>3, <1>4 DEF CInv, Whole, WholeNext

\* What it edits is a file.
LEMMA AgentTextIs ==
  ASSUME NEW text \in Entries, NEW items \in SUBSET ItemRec, \A it \in items : ItemOf(it)
  PROVE  AgentText(text, items) \in Entries
<1> SUFFICES ASSUME NEW k \in Keys PROVE AgentText(text, items)[k] \in Specs \cup {Gone}
  BY DEF AgentText, Entries
<1> DEFINE now == {it \in items : it.entry = k /\ it.kind # "removed"}
           it == CHOOSE w \in now : TRUE
<1>1. AgentText(text, items)[k] =
        IF now # {} THEN (IF it.kind = "added" \/ text[it.key] = Gone THEN it.spec ELSE Body(text, it))
        ELSE IF \E w \in items : w.key = k THEN Gone ELSE text[k]
  BY DEF AgentText
<1>2. ASSUME NEW w \in now PROVE w.spec \in Specs /\ (text[w.key] # Gone => Body(text, w) \in Specs)
  <2>1. w \in ItemRec /\ w.key \in Keys /\ w.spec \in Specs
    BY DEF ItemRec, ItemOf
  <2>2. text[w.key] # Gone => text[w.key] \in Specs
    BY <2>1 DEF Entries
  <2> QED
    BY <2>1, <2>2 DEF Body, Specs
<1>3. now # {} => it \in now
  OBVIOUS
<1>4. text[k] \in Specs \cup {Gone}
  BY DEF Entries
<1> HIDE DEF now, it
<1> QED
  BY <1>1, <1>2, <1>3, <1>4

LEMMA AgentEndsKeeps ==
  ASSUME CInv, AgentEnds
  PROVE  WholeNext
<1> DEFINE w == [wb EXCEPT !.pc = "wrote"]
<1>1. /\ wb \in WriteRec /\ WriteOf(wb) /\ SaidWrite(said, wb) /\ ReloadsOf(said, Stirred(reload))
      /\ wb.items \in SUBSET ItemRec /\ \A it \in wb.items : ItemOf(it)
  BY Ours
<1>2. PICK did \in SUBSET wb.items : disk' = [disk EXCEPT !.text = AgentText(@, did)]
  BY DEF AgentEnds
<1>3. disk' \in Disk
  <2>1. disk \in Disk /\ disk.text \in Entries
    BY DEF CInv, Whole, Disk
  <2>2. AgentText(disk.text, did) \in Entries
    BY <1>1, <2>1, AgentTextIs
  <2> QED
    BY <1>2, <2>1, <2>2 DEF Disk
<1>4. /\ w \in WriteRec /\ w.pc = "wrote" /\ w.items = wb.items /\ w.order = wb.order
      /\ w.read = wb.read /\ w.entries = wb.entries
  BY <1>1 DEF WriteRec
<1>5. wb' = w /\ reload' = Stirred(reload) /\ UNCHANGED <<base, tasks, nextId, syncing>>
  BY DEF AgentEnds
<1> HIDE DEF w
<1>6. WriteOf(w) /\ SaidWrite(said, w)
  BY <1>1, <1>4, WriteOn
<1> QED
  BY <1>1, <1>3, <1>5, <1>6 DEF CInv, Whole, WholeNext

\* An item that reads back is what the file says: in the fields it wrote now, in the
\* others it always did.
LEMMA ReadBackKeeps ==
  ASSUME CInv, ReadBack
  PROVE  WholeNext
<1> DEFINE rd == {it \in wb.items : it.entry \notin {f.entry : f \in wb.failed} /\ ReadsBack(disk.text, it)}
           w1 == [wb EXCEPT !.pc = "done", !.failed = wb.items]
           w2 == [wb EXCEPT !.pc = "record", !.failed = wb.items \ rd, !.read = rd]
<1>1. /\ wb \in WriteRec /\ WriteOf(wb) /\ SaidWrite(said, wb)
      /\ wb.items \in SUBSET ItemRec /\ \A it \in wb.items : ItemOf(it)
  BY Ours
<1>2. disk.text \in Entries /\ SaysOf(disk.text) \subseteq said
  BY DEF CInv, Whole, Disk
<1>3. rd \subseteq wb.items
  OBVIOUS
<1>4. ASSUME NEW it \in rd, it.kind # "removed" PROVE Said(said, it.spec, Fields)
  <2>1. it \in wb.items /\ it \in ItemRec /\ ReadsBack(disk.text, it)
    BY <1>1
  <2>2. disk.text[it.entry] # Gone /\ Changed(disk.text[it.entry], it.spec) \cap it.fields = {}
    BY <1>4, <2>1 DEF ReadsBack
  <2>3. it.entry \in In(disk.text) /\ it.entry \in Keys
    BY <2>1, <2>2 DEF In, ItemRec
  <2>4. ASSUME NEW f \in Fields PROVE \E o \in Keys : <<o, f, it.spec[f]>> \in said
    <3>1. CASE f \in it.fields
      <4>1. disk.text[it.entry][f] = it.spec[f]
        BY <2>2, <3>1 DEF Changed
      <4>2. <<it.entry, f, it.spec[f]>> \in SaysOf(disk.text)
        BY <2>3, <4>1 DEF SaysOf
      <4> QED
        BY <1>2, <2>3, <4>2
    <3>2. CASE f \notin it.fields
      <4>1. it.kind = "changed"
        <5>1. it.kind \in {"changed", "added", "removed"} /\ ItemOf(it)
          BY <1>1, <2>1 DEF ItemRec
        <5> QED
          BY <1>4, <3>2, <5>1 DEF ItemOf
      <4>2. Said(said, it.spec, Fields \ it.fields)
        BY <1>1, <2>1, <4>1 DEF SaidWrite
      <4> QED
        BY <3>2, <4>2 DEF Said
    <3> QED
      BY <3>1, <3>2
  <2> QED
    BY <2>4 DEF Said
<1>5. /\ \/ wb' = w1 /\ UNCHANGED syncing
         \/ wb' = w2 /\ syncing' = "write"
      /\ UNCHANGED <<disk, base, tasks, nextId, reload>>
  BY DEF ReadBack
<1> HIDE DEF rd
<1>6. /\ w1 \in WriteRec /\ w1.pc = "done" /\ w1.items = wb.items /\ w1.order = wb.order /\ w1.read = wb.read
      /\ w1.entries = wb.entries
  BY <1>1 DEF WriteRec
<1>7. /\ w2 \in WriteRec /\ w2.pc = "record" /\ w2.items = wb.items /\ w2.order = wb.order /\ w2.read = rd
      /\ w2.entries = wb.entries
  BY <1>1, <1>3 DEF WriteRec
<1> HIDE DEF w1, w2
<1>8. WriteOf(w1) /\ SaidWrite(said, w1)
  BY <1>1, <1>6, WriteOn
<1>9. WriteOf(w2)
  BY <1>1, <1>3, <1>7 DEF WriteOf
<1>10. SaidWrite(said, w2)
  BY <1>1, <1>4, <1>7 DEF SaidWrite
<1> QED
  BY <1>5, <1>8, <1>9, <1>10 DEF CInv, Whole, WholeNext

\* A task takes an entry as its own.
LEMMA TakeEntryKeeps ==
  ASSUME CInv, NEW it \in wb.read, TakeEntry(it)
  PROVE  WholeNext
<1> DEFINE w1 == [wb EXCEPT !.read = @ \ {it}]
           w2 == [wb EXCEPT !.read = @ \ {it}, !.entries = @ \cup {it}]
<1>1. /\ wb \in WriteRec /\ WriteOf(wb) /\ SaidWrite(said, wb) /\ ReloadsOf(said, Stirred(reload))
      /\ wb.items \in SUBSET ItemRec /\ wb.read \subseteq wb.items
  BY Ours
<1>2. it \in ItemRec /\ it.entry \in Keys /\ it.task \in Ids \cup {Gone} /\ wb.pc = "record"
  BY <1>1 DEF ItemRec, TakeEntry
<1>3. TasksOf(tasks, nextId)
  BY DEF CInv, Whole
<1>4. /\ \/ wb' = w1 /\ UNCHANGED <<tasks, reload>>
         \/ /\ ~(it.task # Gone /\ tasks[it.task] = Gone)
            /\ tasks' = IF it.task = Gone THEN tasks ELSE [tasks EXCEPT ![it.task].origin = it.entry]
            /\ wb' = w2 /\ reload' = Stirred(reload)
      /\ UNCHANGED <<disk, base, nextId, syncing>>
  BY DEF TakeEntry
<1>5. /\ w1 \in WriteRec /\ w1.pc = "record" /\ w1.items = wb.items /\ w1.order = wb.order /\ w1.read \subseteq wb.read
      /\ w1.entries = wb.entries
  BY <1>1, <1>2 DEF WriteRec
<1>6. /\ w2 \in WriteRec /\ w2.pc = "record" /\ w2.items = wb.items /\ w2.order = wb.order /\ w2.read \subseteq wb.read
      /\ w2.entries \subseteq wb.entries \cup wb.read
  BY <1>1, <1>2 DEF WriteRec
<1> HIDE DEF w1, w2
<1>7. WriteOf(w1) /\ SaidWrite(said, w1) /\ WriteOf(w2) /\ SaidWrite(said, w2)
  BY <1>1, <1>5, <1>6, WriteOn
<1>8. TasksOf(tasks', nextId)
  <2>1. CASE tasks' = tasks
    BY <1>3, <2>1
  <2>2. CASE /\ it.task # Gone /\ tasks[it.task] # Gone
             /\ tasks' = [tasks EXCEPT ![it.task].origin = it.entry]
    <3> DEFINE x == [tasks[it.task] EXCEPT !.origin = it.entry]
    <3>1. it.task \in Here(tasks) /\ tasks[it.task] \in TaskRec
      BY <1>2, <1>3, <2>2 DEF Here, TasksOf, TaskFns
    <3>2. x \in TaskRec /\ x.path = tasks[it.task].path
      BY <1>2, <3>1 DEF TaskRec
    <3>3. tasks' = [tasks EXCEPT ![it.task] = x]
      BY <2>2
    <3> HIDE DEF x
    <3>4. \A j \in Here(tasks) \ {it.task} : tasks[j].path # x.path
      BY <1>3, <3>1, <3>2 DEF TasksOf, Spread
    <3>5. TasksOf([tasks EXCEPT ![it.task] = x], nextId)
      BY <1>3, <3>1, <3>2, <3>4, TaskTo
    <3> QED
      BY <3>3, <3>5
  <2> QED
    BY <1>4, <2>1, <2>2
<1> QED
  BY <1>1, <1>4, <1>7, <1>8 DEF CInv, Whole, WholeNext

\* The items recorded that were at a key or are.
Saying(order, written, k) ==
  {n \in DOMAIN order : order[n] \in written /\ k \in {order[n].key, order[n].entry}}

\* What the base has of a key is for the last of them to say.
LEMMA LastSays ==
  ASSUME NEW bs, NEW items, IsFiniteSet(items), NEW order \in Listings(items), NEW written,
         NEW k \in Keys
  PROVE  IF Saying(order, written, k) = {} THEN Recorded(bs, order, written)[k] = bs[k]
         ELSE \E n \in Saying(order, written, k) :
                /\ \A m \in Saying(order, written, k) : m <= n
                /\ Recorded(bs, order, written)[k] = IF order[n].entry = k THEN order[n].spec ELSE Gone
<1> DEFINE saying == Saying(order, written, k)
           n == Max(saying)
           b == Recorded(bs, order, written)[k]
<1>1. b = IF saying = {} THEN bs[k] ELSE IF order[n].entry = k THEN order[n].spec ELSE Gone
  BY DEF Recorded, Saying
<1>2. saying \in SUBSET (1 .. Len(order)) /\ Len(order) \in Nat
  BY Listed DEF Saying
<1> HIDE DEF saying, b
<1>3. ASSUME saying # {} PROVE n \in saying /\ \A m \in saying : m <= n
  <2>1. \E i \in saying : \A j \in saying : j <= i
    BY <1>2, <1>3, Highest
  <2>2. \A i, j \in saying : j <= i <=> i >= j
    BY <1>2
  <2>3. \E i \in saying : \A j \in saying : i >= j
    BY <2>1, <2>2
  <2>4. n \in saying /\ \A j \in saying : n >= j
    BY <2>3 DEF Max
  <2> QED
    BY <2>2, <2>4
<1> HIDE DEF n
<1>4. IF saying = {} THEN b = bs[k]
      ELSE \E x \in saying : /\ \A m \in saying : m <= x
                             /\ b = IF order[x].entry = k THEN order[x].spec ELSE Gone
  BY <1>1, <1>3
<1> QED
  BY <1>4 DEF saying, b

\* What is recorded reads back, so it was said.
LEMMA RecordKeeps ==
  ASSUME CInv, Record
  PROVE  WholeNext
<1> DEFINE b == Recorded(base, wb.order, wb.entries)
           w == [wb EXCEPT !.pc = "done"]
<1>1. /\ wb \in WriteRec /\ WriteOf(wb) /\ SaidWrite(said, wb) /\ ReloadsOf(said, Stirred(reload))
      /\ wb.items \in SUBSET ItemRec /\ wb.entries \subseteq wb.items
      /\ \A it \in wb.items : ItemOf(it)
  BY Ours
<1>2. base \in Entries /\ SaidAll(said, base)
  BY DEF CInv, Whole, BaseOf
<1>3. ASSUME NEW k \in Keys
      PROVE  b[k] \in Specs \cup {Gone} /\ (b[k] # Gone => Said(said, b[k], Fields))
  <2>1. b[k] \in {it.spec : it \in wb.entries} \/ b[k] = Gone \/ b[k] = base[k]
    <3>1. wb.order \in Listings(wb.items) /\ IsFiniteSet(wb.items)
      BY <1>1 DEF WriteOf
    <3> QED
      BY <3>1, LastSays DEF Saying
  <2>2. ASSUME NEW it \in wb.entries
        PROVE  it.spec \in Specs \cup {Gone} /\ (it.spec # Gone => Said(said, it.spec, Fields))
    <3>1. it \in wb.items /\ it \in ItemRec /\ ItemOf(it)
      BY <1>1
    <3> QED
      BY <1>1, <3>1 DEF ItemRec, ItemOf, SaidWrite
  <2>3. base[k] \in Specs \cup {Gone} /\ (base[k] # Gone => Said(said, base[k], Fields))
    BY <1>2 DEF Entries, SaidAll, In
  <2> HIDE DEF b
  <2> QED
    BY <2>1, <2>2, <2>3
<1>4. BaseOf(said, b)
  <2>1. b = [k \in Keys |-> b[k]]
    BY DEF Recorded
  <2> HIDE DEF b
  <2>2. b \in Entries
    BY <1>3, <2>1 DEF Entries
  <2> QED
    BY <1>3, <2>2 DEF BaseOf, SaidAll, In
<1>5. /\ w \in WriteRec /\ w.pc = "done" /\ w.items = wb.items /\ w.order = wb.order /\ w.read = wb.read
      /\ w.entries = wb.entries
  BY <1>1 DEF WriteRec
<1>6. /\ base' = b /\ wb' = w /\ syncing' = Gone /\ reload' = Stirred(reload)
      /\ UNCHANGED <<disk, tasks, nextId>>
  BY DEF Record
<1> HIDE DEF b, w
<1>7. WriteOf(w) /\ SaidWrite(said, w)
  BY <1>1, <1>5, WriteOn
<1> QED
  BY <1>1, <1>4, <1>6, <1>7 DEF CInv, Whole, WholeNext

-----------------------------------------------------------------------------
(* Changes made by hand, and a restart *)

\* Whatever is changed by hand ends the calm of the others.
LEMMA StirKeeps ==
  ASSUME CInv, Stir
  PROVE  ReloadsOf(said, reload') /\ WriteOf(wb') /\ SaidWrite(said, wb')
<1>1. ReloadsOf(said, reload) /\ WriteOf(wb) /\ SaidWrite(said, wb)
  BY DEF CInv, Whole
<1>2. ReloadsOf(said, Stirred(reload)) /\ WriteOf(StirredWrite) /\ SaidWrite(said, StirredWrite)
  BY <1>1, StirredAre, StirredWriteIs
<1> QED
  BY <1>2 DEF Stir

\* The file edited.
LEMMA EditFileKeeps ==
  ASSUME CInv, EditFile
  PROVE  WholeNext
<1>1. Stir /\ UNCHANGED <<base, tasks, nextId, syncing>>
  BY DEF EditFile
<1>2. disk \in Disk
  BY DEF CInv, Whole
<1>3. disk' \in Disk
  <2>1. CASE \E k \in Keys, e \in Specs \cup {Gone} : disk' = [disk EXCEPT !.text[k] = e]
    BY <1>2, <2>1 DEF Disk, Entries
  <2>2. CASE disk' = [disk EXCEPT !.loads = ~@]
    BY <1>2, <2>2 DEF Disk
  <2> QED
    BY <2>1, <2>2 DEF EditFile
<1> QED
  BY <1>1, <1>3, StirKeeps DEF CInv, Whole, WholeNext

\* A task changed, with where it is or to a free path.
LEMMA LocalKeeps ==
  ASSUME CInv, LocalAdd \/ LocalUpdate \/ LocalMove \/ LocalRemove \/ LocalStart
  PROVE  WholeNext
<1>0. /\ TasksOf(tasks, nextId)
      /\ \A i \in Here(tasks) : i \in Ids /\ tasks[i] \in TaskRec
      /\ \A i \in Here(tasks) : \A j \in Here(tasks) \ {i} : tasks[j].path # tasks[i].path
  BY DEF CInv, Whole, TasksOf, TaskFns, Here, Spread
<1>1. Stir /\ UNCHANGED <<disk, base, syncing>>
  BY DEF LocalAdd, LocalUpdate, LocalMove, LocalRemove, LocalStart, Local
<1>2. TasksOf(tasks', nextId')
  <2>1. CASE LocalAdd
    <3>1. PICK k \in Keys, s \in Specs :
            /\ Free(k) /\ tasks' = [tasks EXCEPT ![nextId] = Task(k, Gone, s)]
            /\ nextId' = nextId + 1
      BY <2>1 DEF LocalAdd
    <3> DEFINE x == Task(k, Gone, s)
    <3>2. x \in TaskRec /\ x.path = k
      BY DEF Task, TaskRec
    <3> HIDE DEF x
    <3>3. \A j \in Here(tasks) : tasks[j].path # x.path
      BY <3>1, <3>2 DEF Free, At
    <3>4. TasksOf([tasks EXCEPT ![nextId] = x], nextId + 1)
      BY <1>0, <3>2, <3>3, TaskNew
    <3> QED
      BY <3>1, <3>4 DEF x
  <2>2. CASE LocalUpdate
    <3>1. PICK i \in Here(tasks), f \in Fields, v \in Values :
            tasks' = [tasks EXCEPT ![i].spec[f] = v] /\ nextId' = nextId
      BY <2>2 DEF LocalUpdate
    <3> DEFINE x == [tasks[i] EXCEPT !.spec[f] = v]
    <3>2. tasks[i] \in TaskRec /\ tasks[i].spec \in Specs
      BY <1>0 DEF TaskRec
    <3>3. x \in TaskRec /\ x.path = tasks[i].path
      BY <3>2 DEF TaskRec, Specs
    <3>4. tasks' = [tasks EXCEPT ![i] = x]
      BY <3>1
    <3> HIDE DEF x
    <3>5. TasksOf([tasks EXCEPT ![i] = x], nextId)
      BY <1>0, <3>3, TaskTo
    <3> QED
      BY <3>1, <3>4, <3>5
  <2>3. CASE LocalMove
    <3>1. PICK i \in Here(tasks), k \in Keys :
            Free(k) /\ tasks' = [tasks EXCEPT ![i].path = k] /\ nextId' = nextId
      BY <2>3 DEF LocalMove
    <3> DEFINE x == [tasks[i] EXCEPT !.path = k]
    <3>2. x \in TaskRec /\ x.path = k
      BY <1>0 DEF TaskRec
    <3>3. tasks' = [tasks EXCEPT ![i] = x]
      BY <3>1
    <3> HIDE DEF x
    <3>4. \A j \in Here(tasks) \ {i} : tasks[j].path # x.path
      BY <3>1, <3>2 DEF Free, At
    <3>5. TasksOf([tasks EXCEPT ![i] = x], nextId)
      BY <1>0, <3>2, <3>4, TaskTo
    <3> QED
      BY <3>1, <3>3, <3>5
  <2>4. CASE LocalRemove
    <3>1. PICK i \in Here(tasks) : tasks' = [tasks EXCEPT ![i] = Gone] /\ nextId' = nextId
      BY <2>4 DEF LocalRemove
    <3>2. TasksOf([tasks EXCEPT ![i] = Gone], nextId)
      BY <1>0, TaskTo
    <3> QED
      BY <3>1, <3>2
  <2>5. CASE LocalStart
    <3>1. PICK i \in Here(tasks) : tasks' = [tasks EXCEPT ![i].running = ~@] /\ nextId' = nextId
      BY <2>5 DEF LocalStart
    <3> DEFINE x == [tasks[i] EXCEPT !.running = ~@]
    <3>2. x \in TaskRec /\ x.path = tasks[i].path
      BY <1>0 DEF TaskRec
    <3>3. tasks' = [tasks EXCEPT ![i] = x]
      BY <3>1
    <3> HIDE DEF x
    <3>4. TasksOf([tasks EXCEPT ![i] = x], nextId)
      BY <1>0, <3>2, TaskTo
    <3> QED
      BY <3>1, <3>3, <3>4
  <2> QED
    BY <2>1, <2>2, <2>3, <2>4, <2>5
<1> QED
  BY <1>1, <1>2, StirKeeps DEF CInv, Whole, WholeNext

\* A restart loses tasks, and of the base what they were from.
LEMMA RestartKeeps ==
  ASSUME CInv, NEW lost \in SUBSET Here(tasks), Restart(lost)
  PROVE  WholeNext
<1>0. TasksOf(tasks, nextId) /\ base \in Entries /\ SaidAll(said, base)
  BY DEF CInv, Whole, BaseOf
<1> DEFINE x(i) == IF i \in lost \/ tasks[i] = Gone THEN Gone ELSE [tasks[i] EXCEPT !.running = FALSE]
           b == [k \in Keys |-> IF \E i \in lost : tasks[i].origin = k THEN Gone ELSE base[k]]
<1>1. /\ tasks' = [i \in Ids |-> x(i)] /\ base' = b /\ syncing' = Gone
      /\ reload' = [r \in Reloads |-> NoReload] /\ wb' = NoWrite /\ UNCHANGED <<disk, nextId>>
  BY DEF Restart
<1>2. ASSUME NEW i \in Ids
      PROVE  \/ x(i) = Gone
             \/ x(i) \in TaskRec /\ tasks[i] # Gone /\ x(i).path = tasks[i].path
  BY <1>0 DEF TasksOf, TaskFns, TaskRec
<1>3. \A i \in Ids : tasks[i] = Gone => x(i) = Gone
  OBVIOUS
<1> HIDE DEF x
<1>4. tasks' \in TaskFns
  BY <1>1, <1>2 DEF TaskFns
<1>5. Spread(tasks')
  BY <1>0, <1>1, <1>2 DEF TasksOf, Spread, Here
<1>6. Made(tasks', nextId)
  BY <1>0, <1>1, <1>3 DEF TasksOf, Made
<1>7. BaseOf(said, b)
  <2>1. b \in Entries
    BY <1>0 DEF Entries
  <2>2. \A k \in In(b) : k \in In(base) /\ b[k] = base[k]
    BY DEF In
  <2> HIDE DEF b
  <2> QED
    BY <1>0, <2>1, <2>2 DEF BaseOf, SaidAll
<1>8. ReloadsOf(said, reload')
  BY <1>1, NothingIs DEF ReloadsOf, ReloadOf
<1> HIDE DEF b
<1> QED
  BY <1>0, <1>1, <1>4, <1>5, <1>6, <1>7, <1>8, NothingIs DEF CInv, Whole, WholeNext, TasksOf

-----------------------------------------------------------------------------
(* What the base has was said *)

\* It holds at the start.
LEMMA InitCInv == PInit => CInv
<1> SUFFICES ASSUME PInit PROVE CInv
  OBVIOUS
<1>1. PICK text \in Entries : Fresh(text)
  BY DEF PInit, Init
<1>2. PICK order \in SetToSeqs(In(text)) :
        tasks = [i \in Ids |-> IF i \in DOMAIN order THEN Task(order[i], order[i], text[order[i]])
                               ELSE Gone]
  BY <1>1 DEF Fresh
<1> DEFINE N == Cardinality(In(text))
<1>3. N \in Nat
  <2>1. IsFiniteSet(In(text))
    BY ConfigAssumption, FS_Subset DEF In
  <2> QED
    BY <2>1, FS_CardinalityType
<1>4. /\ order \in [1 .. N -> In(text)]
      /\ \A i, j \in 1 .. N : i # j => order[i] # order[j]
  BY DEF SetToSeqs
<1>5. /\ disk = [text |-> text, loads |-> TRUE] /\ base = text /\ nextId = N + 1
      /\ syncing = Gone /\ reload = [r \in Reloads |-> NoReload] /\ wb = NoWrite
      /\ said = SaysOf(disk.text)
  BY <1>1 DEF Fresh, PInit
<1> HIDE DEF N
<1>6. ASSUME NEW i \in Ids, i \in 1 .. N
      PROVE  tasks[i] \in TaskRec /\ tasks[i].path = order[i]
  <2>1. order[i] \in In(text) /\ order[i] \in Keys /\ text[order[i]] \in Specs
    BY <1>4, <1>6 DEF In, Entries
  <2>2. tasks[i] = Task(order[i], order[i], text[order[i]])
    BY <1>2, <1>4, <1>6
  <2> QED
    BY <2>1, <2>2 DEF Task, TaskRec
<1>7. \A i \in Ids : i \notin 1 .. N => tasks[i] = Gone
  BY <1>2, <1>4
<1>8. tasks \in TaskFns
  BY <1>2, <1>6, <1>7 DEF TaskFns
<1>9. Spread(tasks)
  BY <1>4, <1>6, <1>7 DEF Spread, Here
<1>10. Made(tasks, nextId)
  BY <1>3, <1>5, <1>7 DEF Made, Ids
<1>11. disk \in Disk /\ disk.text = text
  BY <1>5 DEF Disk
<1>12. BaseOf(said, base)
  BY <1>5, <1>11, TextSaid DEF BaseOf
<1>13. ReloadsOf(said, reload)
  BY <1>5, NothingIs DEF ReloadsOf, ReloadOf
<1> QED
  BY <1>3, <1>5, <1>8, <1>9, <1>10, <1>11, <1>12, <1>13, NothingIs DEF CInv, Whole, TasksOf

\* What a step leaves is whole, with what the file said before.
LEMMA NextWhole ==
  ASSUME CInv, Next
  PROVE  WholeNext
<1>1. CASE \E r \in Reloads : \/ PlanReload(r) \/ BeginApply(r) \/ RunStep(r) \/ FinishApply(r)
                              \/ \E c \in reload[r].changes : Toggle(r, c)
  BY <1>1, PlanReloadKeeps, BeginApplyKeeps, RunStepKeeps, FinishApplyKeeps, ToggleKeeps
<1>2. CASE PlanWrite \/ ReadFile \/ WriteFile \/ CheckWrite \/ AskAgent \/ AgentEnds \/ ReadBack \/ Record
  BY <1>2, PlanWriteKeeps, ReadFileKeeps, WriteFileKeeps, CheckWriteKeeps, AskAgentKeeps, AgentEndsKeeps,
     ReadBackKeeps, RecordKeeps
<1>3. CASE \E it \in wb.read : TakeEntry(it)
  BY <1>3, TakeEntryKeeps
<1>4. CASE EditFile \/ LocalAdd \/ LocalUpdate \/ LocalMove \/ LocalRemove \/ LocalStart
  BY <1>4, EditFileKeeps, LocalKeeps
<1>5. CASE \E lost \in SUBSET Here(tasks) : Restart(lost)
  BY <1>5, RestartKeeps
<1> QED
  BY <1>1, <1>2, <1>3, <1>4, <1>5 DEF Next

\* Every step keeps the invariant.
LEMMA NextCInv == CInv /\ [PNext]_pvars => CInv'
<1> SUFFICES ASSUME CInv, [PNext]_pvars PROVE CInv'
  OBVIOUS
<1>1. CASE PNext
  <2>1. Next /\ said' = said \cup SaysOf(disk'.text)
    BY <1>1 DEF PNext
  <2>2. Whole(said, disk', base', tasks', nextId', syncing', reload', wb')
    BY <2>1, NextWhole DEF WholeNext
  <2>3. said \subseteq said' /\ SaysOf(disk'.text) \subseteq said'
    BY <2>1
  <2> DEFINE more == said'
  <2>4. said \subseteq more
    BY <2>3
  <2> HIDE DEF more
  <2>5. Whole(more, disk', base', tasks', nextId', syncing', reload', wb')
    BY <2>2, <2>4, StaysSaid DEF Whole, BaseOf, ReloadsOf
  <2> QED
    BY <2>3, <2>5 DEF CInv, more
<1>2. CASE UNCHANGED pvars
  BY <1>2 DEF CInv, pvars, vars
<1> QED
  BY <1>1, <1>2

\* It holds throughout.
LEMMA CInvariance == PSpec => []CInv
BY InitCInv, NextCInv, PTL DEF PSpec

\* Who carries a plan out or records a write holds the lock.
Held ==
  /\ \A r \in Reloads : reload[r].pc = "apply" <=> syncing = r
  /\ wb.pc = "record" <=> syncing = "write"

\* To stir what is not at it does not take the lock.
LEMMA StirredHeld ==
  ASSUME CInv
  PROVE  /\ \A r \in Reloads : Stirred(reload)[r].pc = "apply" <=> reload[r].pc = "apply"
         /\ \A r \in Reloads, rs \in [Reloads -> ReloadRec] :
              \A q \in Reloads : q # r => (StirredBut(rs, r)[q].pc = "apply" <=> rs[q].pc = "apply")
         /\ StirredWrite.pc = "record" <=> wb.pc = "record"
<1>1. \A rl \in ReloadRec : StirredReload(rl).pc = "apply" <=> rl.pc = "apply"
  BY DEF StirredReload, NoReload, ReloadRec
<1>2. reload \in [Reloads -> ReloadRec] /\ wb \in WriteRec
  BY Ours DEF CInv, Whole, ReloadsOf
<1>3. StirredWrite.pc = "record" <=> wb.pc = "record"
  BY <1>2 DEF StirredWrite, NoWrite, WriteRec
<1> QED
  BY <1>1, <1>2, <1>3 DEF Stirred, StirredBut

LEMMA NextHeld ==
  ASSUME CInv, Held, Next
  PROVE  Held'
<1>0. /\ reload \in [Reloads -> ReloadRec] /\ wb \in WriteRec
      /\ "write" \notin Reloads /\ Gone \notin Reloads /\ Gone # "write"
  BY Ours, ConfigAssumption DEF CInv, Whole, ReloadsOf
<1> USE <1>0
<1>1. CASE /\ syncing' = syncing
           /\ \A r \in Reloads : reload'[r].pc = "apply" <=> reload[r].pc = "apply"
           /\ wb'.pc = "record" <=> wb.pc = "record"
  BY <1>1 DEF Held
<1>2. ASSUME NEW r \in Reloads, PlanReload(r) PROVE Held'
  <2>1. reload[r].pc # "apply" /\ UNCHANGED <<syncing, wb>>
    BY <1>2 DEF PlanReload
  <2> DEFINE rl == [NoReload EXCEPT !.pc = "planned", !.config = disk.text, !.base = base, !.live = tasks,
                                    !.changes = Plan(disk.text, base, tasks), !.calm = TRUE]
             next == IF disk.loads THEN rl ELSE NoReload
  <2>2. reload' = [reload EXCEPT ![r] = next]
    BY <1>2 DEF PlanReload
  <2>3. next.pc \in {"planned", "idle"}
    BY DEF NoReload
  <2> HIDE DEF next
  <2>4. \A q \in Reloads : reload'[q].pc = "apply" <=> reload[q].pc = "apply"
    BY <2>1, <2>2, <2>3
  <2> QED
    BY <1>1, <2>1, <2>4
<1>3. ASSUME NEW r \in Reloads, NEW c \in reload[r].changes, Toggle(r, c) PROVE Held'
  BY <1>1, <1>3 DEF Toggle, ReloadRec
<1>4. ASSUME NEW r \in Reloads, BeginApply(r) PROVE Held'
  BY <1>4 DEF BeginApply, Held, ReloadRec
<1>5. ASSUME NEW r \in Reloads, RunStep(r) PROVE Held'
  <2> DEFINE left(st) == [reload EXCEPT ![r].steps = @ \ {st}]
  <2>1. \A st : /\ left(st) \in [Reloads -> ReloadRec] /\ \A q \in Reloads : left(st)[q].pc = reload[q].pc
    BY DEF ReloadRec
  <2>2. /\ reload[r].pc = "apply" /\ syncing' = syncing
        /\ \E st \in Ready(r) :
             \/ reload' = left(st) /\ wb' = wb
             \/ reload' = StirredBut(left(st), r) /\ wb' = StirredWrite
             \/ reload' = [left(st) EXCEPT ![r].changes = Fail(@, st.key)] /\ wb' = wb
    BY <1>5 DEF RunStep
  <2> HIDE DEF left
  <2>3. PICK st \in Ready(r) :
             \/ reload' = left(st) /\ wb' = wb
             \/ reload' = StirredBut(left(st), r) /\ wb' = StirredWrite
             \/ reload' = [left(st) EXCEPT ![r].changes = Fail(@, st.key)] /\ wb' = wb
    BY <2>2
  <2>4. CASE reload' = left(st) /\ wb' = wb
    BY <1>1, <2>1, <2>2, <2>4
  <2>5. CASE reload' = StirredBut(left(st), r) /\ wb' = StirredWrite
    <3>1. StirredBut(left(st), r)[r] = left(st)[r]
      BY DEF StirredBut
    <3> QED
      BY <1>1, <2>1, <2>2, <2>5, <3>1, StirredHeld
  <2>6. CASE reload' = [left(st) EXCEPT ![r].changes = Fail(@, st.key)] /\ wb' = wb
    <3>1. \A q \in Reloads : reload'[q].pc = left(st)[q].pc
      BY <2>1, <2>6 DEF ReloadRec
    <3> QED
      BY <1>1, <2>1, <2>2, <2>6, <3>1
  <2> QED
    BY <2>3, <2>4, <2>5, <2>6
<1>6. ASSUME NEW r \in Reloads, FinishApply(r) PROVE Held'
  <2> DEFINE rs == StirredBut(reload, r)
  <2>1. /\ syncing = r /\ syncing' = Gone /\ reload' = [rs EXCEPT ![r].pc = "done"]
        /\ wb' = StirredWrite
    BY <1>6 DEF FinishApply, Held
  <2>2. \A q \in Reloads \ {r} : reload'[q] = rs[q]
    BY <2>1
  <2>3. reload'[r].pc = "done"
    BY <2>1 DEF StirredBut, ReloadRec
  <2> HIDE DEF rs
  <2>4. \A q \in Reloads \ {r} : reload'[q].pc # "apply"
    BY <2>1, <2>2, StirredHeld DEF Held, rs
  <2>5. wb'.pc # "record"
    BY <2>1, StirredHeld DEF Held
  <2> QED
    BY <2>1, <2>3, <2>4, <2>5 DEF Held
<1>7. CASE PlanWrite \/ ReadFile \/ WriteFile \/ CheckWrite \/ AskAgent \/ AgentEnds
  <2>1. /\ wb.pc # "record" /\ wb'.pc # "record" /\ syncing' = syncing
        /\ reload' = reload \/ reload' = Stirred(reload)
    <3>1. CASE PlanWrite
      <4>1. \E items, order :
              wb' = [NoWrite EXCEPT !.pc = "planned", !.items = items, !.order = order, !.calm = TRUE]
        BY <3>1 DEF PlanWrite
      <4>2. wb'.pc = "planned"
        BY <4>1 DEF NoWrite
      <4> QED
        BY <3>1, <4>2 DEF PlanWrite
    <3>2. CASE ReadFile
      BY <3>2 DEF ReadFile, WriteRec
    <3>3. CASE WriteFile
      BY <3>3 DEF WriteFile, WriteRec
    <3>4. CASE CheckWrite
      <4>1. /\ wb.pc = "check" /\ syncing' = syncing
            /\ reload' = reload \/ reload' = Stirred(reload)
            /\ \/ wb' = [wb EXCEPT !.pc = "wrote", !.old = Gone, !.new = Gone]
               \/ wb' = [wb EXCEPT !.pc = "wrote", !.failed = wb.items, !.old = Gone, !.new = Gone]
        BY <3>4 DEF CheckWrite
      <4>2. wb'.pc = "wrote"
        BY <4>1 DEF WriteRec
      <4> QED
        BY <4>1, <4>2
    <3>5. CASE AskAgent \/ AgentEnds
      BY <3>5 DEF AskAgent, AgentEnds, WriteRec
    <3> QED
      BY <1>7, <3>1, <3>2, <3>3, <3>4, <3>5
  <2> QED
    BY <1>1, <2>1, StirredHeld
<1>8. CASE ReadBack
  <2>1. /\ syncing = Gone /\ reload' = reload /\ wb.pc = "wrote"
        /\ \/ wb'.pc = "done" /\ syncing' = syncing
           \/ wb'.pc = "record" /\ syncing' = "write"
    BY <1>8 DEF ReadBack, WriteRec
  <2> QED
    BY <2>1 DEF Held
<1>9. ASSUME NEW it \in wb.read, TakeEntry(it) PROVE Held'
  <2>1. /\ wb'.pc = wb.pc /\ syncing' = syncing
        /\ reload' = reload \/ reload' = Stirred(reload)
    BY <1>9 DEF TakeEntry, WriteRec
  <2> QED
    BY <1>1, <2>1, StirredHeld
<1>10. CASE Record
  <2>1. /\ syncing = "write" /\ syncing' = Gone /\ wb'.pc = "done" /\ reload' = Stirred(reload)
    BY <1>10 DEF Record, Held, WriteRec
  <2> QED
    BY <2>1, StirredHeld DEF Held
<1>11. CASE EditFile \/ LocalAdd \/ LocalUpdate \/ LocalMove \/ LocalRemove \/ LocalStart
  <2>1. Stir /\ syncing' = syncing
    BY <1>11 DEF EditFile, LocalAdd, LocalUpdate, LocalMove, LocalRemove, LocalStart, Local
  <2> QED
    BY <1>1, <2>1, StirredHeld DEF Stir
<1>12. CASE \E lost \in SUBSET Here(tasks) : Restart(lost)
  BY <1>12 DEF Restart, Held, NoReload, NoWrite
<1> QED
  BY <1>2, <1>3, <1>4, <1>5, <1>6, <1>7, <1>8, <1>9, <1>10, <1>11, <1>12 DEF Next

LEMMA HeldInvariance == PSpec => []Held
<1>1. PInit => Held
  <2> SUFFICES ASSUME PInit PROVE Held
    OBVIOUS
  <2>1. syncing = Gone /\ reload = [r \in Reloads |-> NoReload] /\ wb = NoWrite
    BY DEF PInit, Init, Fresh
  <2> QED
    BY <2>1, ConfigAssumption DEF Held, NoReload, NoWrite
<1>2. CInv /\ Held /\ [PNext]_pvars => Held'
  <2> SUFFICES ASSUME CInv, Held, [PNext]_pvars PROVE Held'
    OBVIOUS
  <2>1. CASE PNext
    BY <2>1, NextHeld DEF PNext
  <2>2. CASE UNCHANGED pvars
    BY <2>2 DEF Held, pvars, vars
  <2> QED
    BY <2>1, <2>2
<1> QED
  BY <1>1, <1>2, CInvariance, PTL DEF PSpec

\* It gives what the runs check.
LEMMA CInvSaid == CInv /\ Held => BaseWasSaid
<1> SUFFICES ASSUME CInv, Held PROVE BaseWasSaid
  OBVIOUS
<1>1. /\ disk \in Disk /\ base \in Entries /\ SaidAll(said, base)
      /\ tasks \in TaskFns /\ Spread(tasks) /\ Made(tasks, nextId)
      /\ syncing \in Reloads \cup {"write", Gone}
  BY DEF CInv, Whole, BaseOf, TasksOf
<1>2. \A i \in Here(tasks) : /\ tasks[i].path \in Keys /\ tasks[i].origin \in Keys \cup {Gone}
                             /\ tasks[i].spec \in Specs
  BY <1>1 DEF Here, TaskFns, TaskRec
<1>3. TypeOK
  BY <1>1, <1>2 DEF TypeOK, Disk, Spread, Made, Held
<1> QED
  BY <1>1, <1>3 DEF BaseWasSaid, SaidAll, Said

\* Whatever fails, is edited by hand or restarted between any two steps of reloads
\* and write-backs, what the base has of an entry the file has said.
THEOREM BaseSaid == PSpec => []BaseWasSaid
BY CInvariance, HeldInvariance, CInvSaid, PTL

-----------------------------------------------------------------------------
(* What a reload changes *)

\* A step changes of a task what the plan takes.
LEMMA StepTakes ==
  ASSUME CInv, NEW r \in Reloads, NEW i \in Ids, RunStep(r), tasks[i] # Gone, tasks'[i] # Gone
  PROVE  \A f \in Changed(tasks[i].spec, tasks'[i].spec) :
           \E c \in reload[r].changes, st \in reload[r].steps :
             /\ f \in c.take /\ tasks'[i].spec[f] = reload[r].config[c.key][f]
             /\ st.act = "update" /\ st.key = c.key /\ st.path = tasks[i].path
<1>0. TasksOf(tasks, nextId) /\ tasks[i] \in TaskRec /\ ReloadOf(reload[r])
  BY Mine DEF CInv, Whole, TasksOf, TaskFns
<1>1. PICK st \in reload[r].steps : Done(st) \/ UNCHANGED tasks
  BY DEF RunStep, Ready, Refused
<1>2. StepOf(st) /\ TakesOnly(reload[r], st) /\ st \in StepRec
  BY <1>0 DEF ReloadOf, ReloadRec
<1>3. CASE tasks'[i].spec = tasks[i].spec
  BY <1>3 DEF Changed
<1>4. CASE tasks'[i].spec # tasks[i].spec
  <2>1. Done(st)
    BY <1>1, <1>4
  <2>2. st.act = "update"
    <3>1. st.act # "origin"
      <4> SUFFICES ASSUME st.act = "origin" PROVE FALSE
        OBVIOUS
      <4>1. tasks' = [tasks EXCEPT ![st.task].origin = st.to]
        BY <1>4, <2>1 DEF Done
      <4>2. i = st.task
        BY <1>0, <1>4, <4>1 DEF TasksOf, TaskFns
      <4>3. tasks'[i] = [tasks[i] EXCEPT !.origin = st.to]
        BY <1>0, <4>1, <4>2 DEF TasksOf, TaskFns
      <4>4. [tasks[i] EXCEPT !.origin = st.to].spec = tasks[i].spec
        BY <1>0 DEF TaskRec
      <4> QED
        BY <1>4, <4>3, <4>4
    <3>2. st.act # "remove"
      <4>1. CASE i = st.task
        BY <1>0, <2>1, <4>1 DEF Done, TasksOf, TaskFns
      <4>2. CASE i # st.task
        BY <1>0, <1>4, <2>1, <4>2 DEF Done, TasksOf, TaskFns
      <4> QED
        BY <4>1, <4>2
    <3>3. st.act # "add"
      <4>1. i # nextId
        BY <1>0 DEF TasksOf, Made
      <4> QED
        BY <1>0, <1>4, <2>1, <4>1 DEF Done, TasksOf, TaskFns
    <3> QED
      BY <1>2, <3>1, <3>2, <3>3 DEF StepRec
  <2>3. PICK j \in Updatable(st) : tasks' = [tasks EXCEPT ![j].spec = st.to]
    BY <2>1, <2>2 DEF Done
  <2>4. /\ i = j /\ tasks[i].spec = st.was /\ tasks'[i].spec = st.to
        /\ st.path = tasks[i].path
    BY <1>0, <1>4, <2>3 DEF Updatable, At, TasksOf, TaskFns, TaskRec
  <2> QED
    BY <1>2, <2>2, <2>4 DEF TakesOnly
<1> QED
  BY <1>3, <1>4

\* Whatever else was changed since it was planned, a reload's step changes of a task
\* the fields taken, to what the config says, and no other.
THEOREM TakesOnlyTaken == PSpec => OnlyTaken
<1> DEFINE A == \A r \in Reloads, i \in Ids :
                  (RunStep(r) /\ tasks[i] # Gone /\ tasks'[i] # Gone)
                     => \A f \in Changed(tasks[i].spec, tasks'[i].spec) :
                          \E c \in reload[r].changes, st \in reload[r].steps :
                             /\ f \in c.take /\ tasks'[i].spec[f] = reload[r].config[c.key][f]
                             /\ st.act = "update" /\ st.key = c.key /\ st.path = tasks[i].path
<1>1. CInv => A
  BY StepTakes
<1>2. CInv /\ [PNext]_pvars => [A]_pvars
  BY <1>1
<1> QED
  BY <1>2, CInvariance, PTL DEF PSpec, OnlyTaken

-----------------------------------------------------------------------------
(* What a reload that nothing disturbs comes to *)

\* A plan as it was before any of it failed, with what it was made of.
Unfailed(changes) == {[c EXCEPT !.failed = FALSE] : c \in changes}
PlanOf(rl) == [config |-> rl.config, live |-> rl.live, changes |-> Unfailed(rl.changes)]

\* A plan of some config, base and tasks, whatever of it is taken; and one with
\* nothing picked by hand.
Of(P, bs) ==
  /\ P.config \in Entries /\ bs \in Entries /\ P.live \in TaskFns /\ Spread(P.live)
  /\ Shaped(P.config, bs, P.live, P.changes)
Plain(P, bs) == \A c \in P.changes : TakesThat(P.config, bs, P.live, c)

\* The steps a plan has, but for new tasks.
Due(P, st) == Adopting(P, st) \/ Removing(P, st) \/ Writing(P, st) \/ Updating(P, P.live, st)

\* Two entries are not one task.
LEMMA TaskOfOnce ==
  ASSUME NEW config \in Entries, NEW t \in TaskFns,
         NEW k \in In(config), NEW l \in In(config),
         TaskOf(config, t, k) # Gone, TaskOf(config, t, k) = TaskOf(config, t, l)
  PROVE  k = l
<1> DEFINE i == TaskOf(config, t, k)
<1>1. i \in From(t, k) \/ i \in Adopts(config, t, k)
  BY TaskOfIs
<1>2. i \in From(t, l) \/ i \in Adopts(config, t, l)
  BY TaskOfIs
<1> HIDE DEF i
<1> QED
  BY <1>1, <1>2 DEF From, Adopts, At

\* The changes of a plan are of its entries and its tasks, one of each entry.
LEMMA OfIs ==
  ASSUME NEW P, NEW bs, Of(P, bs)
  PROVE  /\ \A c \in P.changes : Fits(P.config, bs, P.live, c)
         /\ \A c, d \in P.changes : c.key = d.key /\ c.key \in In(P.config) => c = d
BY DEF Of, Shaped

\* An entry adopted is by a task that had another, which the config has no more.
LEMMA AdoptingIs ==
  ASSUME NEW P, NEW bs, Of(P, bs), NEW st, Adopting(P, st)
  PROVE  /\ st.act = "origin" /\ st.key = Gone /\ st.to \in In(P.config) /\ st.to # Gone
         /\ st.task = TaskOf(P.config, P.live, st.to)
         /\ st.task \in Here(P.live) /\ st.task \in Adopts(P.config, P.live, st.to)
         /\ P.live[st.task].origin \notin In(P.config) \cup {Gone}
<1>1. PICK i \in Ids, k \in In(P.config) :
        /\ i = TaskOf(P.config, P.live, k) /\ P.live[i].origin # k
        /\ st = Step(1, Gone, "origin", i, Gone, k, Gone)
  BY DEF Adopting
<1>2. st.act = "origin" /\ st.key = Gone /\ st.to = k /\ st.task = i /\ k # Gone
  BY <1>1, ConfigAssumption DEF Step, In
<1>3. i # Gone /\ i \notin From(P.live, k)
  BY <1>1, ConfigAssumption DEF From, Ids
<1>4. i \in Adopts(P.config, P.live, k)
  BY <1>1, <1>3, TaskOfIs
<1> QED
  BY <1>1, <1>2, <1>4 DEF Adopts, At

\* A task removed or kept is one whose entry the config has no more.
LEMMA RemovingIs ==
  ASSUME NEW P, NEW bs, Of(P, bs), NEW st, Removing(P, st)
  PROVE  /\ st.act = "remove" \/ (st.act = "origin" /\ st.to = Gone)
         /\ st.key \notin In(P.config)
         /\ st.task \in Here(P.live) \ Adopted(P.config, P.live)
         /\ P.live[st.task].origin \notin In(P.config) \cup {Gone}
<1>1. PICK c \in P.changes : c.kind = "removed" /\ st \in Removal(c)
  BY DEF Removing
<1>2. IsRemoved(P.config, P.live, c)
  BY <1>1, OfIs DEF Fits
<1>3. /\ st.task = c.task /\ st.key = c.key
      /\ st.act = "remove" \/ (st.act = "origin" /\ st.to = Gone)
  BY <1>1 DEF Removal, Step
<1> QED
  BY <1>2, <1>3 DEF IsRemoved

\* A task written into the config had no entry, and takes the one at its path, which
\* no task was.
LEMMA WritingIs ==
  ASSUME NEW P, NEW bs, Of(P, bs), NEW st, Writing(P, st)
  PROVE  /\ st.act = "origin" /\ st.task \in Here(P.live)
         /\ P.live[st.task].origin = Gone /\ st.to = P.live[st.task].path
         /\ st.to = st.key /\ st.key \in In(P.config) /\ TaskOf(P.config, P.live, st.key) = Gone
         /\ \E c \in P.changes : c.key = st.key /\ c.kind = "written"
<1>1. PICK c \in P.changes :
        c.kind = "written" /\ st = Step(3, c.key, "origin", c.task, Gone, c.key, Gone)
  BY DEF Writing
<1>2. IsWritten(P.config, P.live, c)
  BY <1>1, OfIs DEF Fits
<1>3. st.act = "origin" /\ st.task = c.task /\ st.to = c.key /\ st.key = c.key
  BY <1>1 DEF Step
<1> QED
  BY <1>1, <1>2, <1>3 DEF IsWritten, At

\* A new task is for an entry that no task was.
LEMMA AddingIs ==
  ASSUME NEW P, NEW bs, Of(P, bs), NEW st, Adding(P, st)
  PROVE  /\ st.act = "add" /\ st.key \in In(P.config) /\ TaskOf(P.config, P.live, st.key) = Gone
         /\ \E c \in P.changes :
              /\ c.key = st.key /\ c.kind \in {"added", "removed_here"}
              /\ st = Step(4, c.key, "add", Gone, c.path, P.config[c.key], Gone)
<1>1. PICK c \in P.changes :
        /\ c.kind \in {"added", "removed_here"} /\ c.apply
        /\ st = Step(4, c.key, "add", Gone, c.path, P.config[c.key], Gone)
  BY DEF Adding
<1>2. IsMissing(P.config, P.live, c)
  BY <1>1, OfIs DEF Fits
<1>3. st.act = "add" /\ st.key = c.key
  BY <1>1 DEF Step
<1> QED
  BY <1>1, <1>2, <1>3 DEF IsMissing

\* An update is of an entry's task, and has it as the plan takes it.
LEMMA UpdatingIs ==
  ASSUME NEW P, NEW bs, Of(P, bs), NEW st, Updating(P, P.live, st)
  PROVE  /\ st.act = "update" /\ st.key \in In(P.config)
         /\ st.task = TaskOf(P.config, P.live, st.key) /\ st.task \in Here(P.live)
         /\ st.path = P.live[st.task].path
         /\ \E c \in P.changes :
              /\ c.key = st.key /\ c.kind = "changed" /\ c.task = st.task
              /\ st.to = Merged(P, P.live, c)
              /\ st = Step(5, c.key, "update", c.task, P.live[c.task].path, Merged(P, P.live, c),
                           P.live[c.task].spec)
<1>1. PICK c \in P.changes :
        /\ c.kind = "changed"
        /\ st = Step(5, c.key, "update", c.task, P.live[c.task].path, Merged(P, P.live, c),
                     P.live[c.task].spec)
  BY DEF Updating
<1>2. IsChanged(P.config, bs, P.live, c)
  BY <1>1, OfIs DEF Fits
<1>3. /\ st.act = "update" /\ st.key = c.key /\ st.task = c.task /\ st.path = P.live[c.task].path
      /\ st.to = Merged(P, P.live, c)
  BY <1>1 DEF Step
<1>4. c.key \in In(P.config) /\ c.task = TaskOf(P.config, P.live, c.key) /\ c.task \in Here(P.live)
  BY <1>2 DEF IsChanged
<1> QED
  BY <1>1, <1>3, <1>4

\* An entry has one such step.
LEMMA OneStep ==
  ASSUME NEW P, NEW bs, Of(P, bs), NEW st, NEW o, st.key = o.key,
         Adding(P, st) \/ Updating(P, P.live, st), Adding(P, o) \/ Updating(P, P.live, o)
  PROVE  st = o
<1>1. PICK c \in P.changes :
        /\ c.key = st.key /\ c.key \in In(P.config)
        /\ \/ /\ c.kind \in {"added", "removed_here"}
              /\ st = Step(4, c.key, "add", Gone, c.path, P.config[c.key], Gone)
           \/ /\ c.kind = "changed"
              /\ st = Step(5, c.key, "update", c.task, P.live[c.task].path, Merged(P, P.live, c),
                           P.live[c.task].spec)
  BY AddingIs, UpdatingIs
<1>2. PICK d \in P.changes :
        /\ d.key = o.key /\ d.key \in In(P.config)
        /\ \/ /\ d.kind \in {"added", "removed_here"}
              /\ o = Step(4, d.key, "add", Gone, d.path, P.config[d.key], Gone)
           \/ /\ d.kind = "changed"
              /\ o = Step(5, d.key, "update", d.task, P.live[d.task].path, Merged(P, P.live, d),
                          P.live[d.task].spec)
  BY AddingIs, UpdatingIs
<1>3. c = d
  BY <1>1, <1>2, OfIs
<1> QED
  BY <1>1, <1>2, <1>3

\* A step that is due is of a task there was, and no other says otherwise.
LEMMA DueIs ==
  ASSUME NEW P, NEW bs, Of(P, bs), NEW st, Due(P, st)
  PROVE  /\ st.task \in Here(P.live)
         /\ st.act \in {"origin", "remove", "update"}
         /\ st.act = "update" => Updating(P, P.live, st)
         /\ \A o : Due(P, o) /\ o.task = st.task /\ o.act = st.act /\ st.act # "remove" => o.to = st.to
<1>1. st.task \in Here(P.live) /\ st.act \in {"origin", "remove", "update"}
  BY AdoptingIs, RemovingIs, WritingIs, UpdatingIs DEF Due
<1>2. \A o : Due(P, o) /\ o.act = "update" => Updating(P, P.live, o)
  BY AdoptingIs, RemovingIs, WritingIs DEF Due
<1>3. ASSUME NEW o, Due(P, o), o.task = st.task, o.act = st.act, st.act # "remove"
      PROVE  o.to = st.to
  <2>1. CASE st.act = "update"
    <3>1. Updating(P, P.live, st) /\ Updating(P, P.live, o)
      BY <1>2, <1>3, <2>1
    <3>2. st.key = o.key
      <4>1. /\ st.key \in In(P.config) /\ o.key \in In(P.config)
            /\ st.task = TaskOf(P.config, P.live, st.key) /\ o.task = TaskOf(P.config, P.live, o.key)
        BY <3>1, UpdatingIs
      <4>2. st.task # Gone
        BY <1>1, ConfigAssumption DEF Here, Ids
      <4> QED
        BY <1>3, <4>1, <4>2, TaskOfOnce DEF Of
    <3> QED
      BY <3>1, <3>2, OneStep
  <2>2. CASE st.act = "origin"
    <3> DEFINE was == P.live[st.task].origin
               gone == st.task \in Adopted(P.config, P.live)
    <3>1. ASSUME NEW s, Due(P, s), s.act = "origin", s.task = st.task
          PROVE  \/ Adopting(P, s) /\ gone /\ was # Gone
                 \/ s.to = Gone /\ ~gone /\ was # Gone
                 \/ was = Gone /\ s.to = P.live[st.task].path
      <4>1. CASE Adopting(P, s)
        BY <3>1, <4>1, AdoptingIs DEF Adopted
      <4>2. CASE Removing(P, s)
        BY <3>1, <4>2, RemovingIs
      <4>3. CASE Writing(P, s)
        BY <3>1, <4>3, WritingIs
      <4>4. CASE Updating(P, P.live, s)
        BY <3>1, <4>4, UpdatingIs
      <4> QED
        BY <3>1, <4>1, <4>2, <4>3, <4>4 DEF Due
    <3>2. CASE Adopting(P, st) /\ Adopting(P, o)
      <4>1. /\ st.to \in In(P.config) /\ o.to \in In(P.config)
            /\ st.task = TaskOf(P.config, P.live, st.to) /\ o.task = TaskOf(P.config, P.live, o.to)
        BY <3>2, AdoptingIs
      <4>2. st.task # Gone
        BY <1>1, ConfigAssumption DEF Here, Ids
      <4> QED
        BY <1>3, <4>1, <4>2, TaskOfOnce DEF Of
    <3> QED
      BY <1>3, <2>2, <3>1, <3>2
  <2> QED
    BY <1>1, <1>3, <2>1, <2>2
<1> QED
  BY <1>1, <1>2, <1>3

\* What a step that was due left.
Carried(t, st) ==
  t[st.task] # Gone => /\ st.act # "remove"
                       /\ st.act = "origin" => t[st.task].origin = st.to
                       /\ st.act = "update" => t[st.task].spec = st.to

\* The step was carried out: it is not in S, those to do, nor of F, the entries whose
\* change failed.
Over(S, F, st) == st \notin S /\ st.key \notin F

\* A task is as it was when the plan was made, but for steps that were due.
Follows(P, S, F, t, i) ==
  \/ t[i] = Gone /\ \E st : Due(P, st) /\ st.act = "remove" /\ st.task = i
  \/ /\ t[i] # Gone /\ t[i].path = P.live[i].path
     /\ \/ t[i].origin = P.live[i].origin
        \/ \E st : Due(P, st) /\ st.act = "origin" /\ st.task = i /\ t[i].origin = st.to
     /\ \/ t[i].spec = P.live[i].spec
        \/ \E st : /\ Due(P, st) /\ st.act = "update" /\ st.task = i /\ t[i].spec = st.to
                   /\ Over(S, F, st)

\* A task made since is for a new entry, and has it.
IsNew(P, S, F, t, i) == \E st : Adding(P, st) /\ Over(S, F, st) /\ t[i].origin = st.key
HasNew(P, t, st) == \E i \in From(t, st.key) : i \notin Here(P.live)

\* A plan carried out but for S, with the changes of F failed: its tasks are what it
\* says.
Under(P, S, F, t, n) ==
  /\ Made(P.live, n)
  /\ \A st \in S : Due(P, st) \/ Adding(P, st)
  /\ \A k \in F : \E st : st.key = k /\ (Adding(P, st) \/ Updating(P, P.live, st))
  /\ \A st : Due(P, st) /\ Over(S, F, st) => Carried(t, st)
  /\ \A st : Adding(P, st) /\ Over(S, F, st) => HasNew(P, t, st)
  /\ \A i \in Here(P.live) : Follows(P, S, F, t, i)
  /\ \A i \in Here(t) \ Here(P.live) : IsNew(P, S, F, t, i)

\* What u has of the tasks made since is what t has.
Keeps(P, t, u) ==
  \A i \in Ids \ Here(P.live) : /\ u[i] = Gone <=> t[i] = Gone
                                /\ t[i] # Gone => u[i].origin = t[i].origin

LEMMA KeepsNew ==
  ASSUME NEW P, NEW S, NEW F, NEW t, NEW u, Keeps(P, t, u)
  PROVE  /\ \A st : HasNew(P, t, st) => HasNew(P, u, st)
         /\ \A i \in Here(u) \ Here(P.live) : i \in Here(t) /\ (IsNew(P, S, F, t, i) => IsNew(P, S, F, u, i))
<1>1. ASSUME NEW st, HasNew(P, t, st) PROVE HasNew(P, u, st)
  <2>1. PICK i \in From(t, st.key) : i \notin Here(P.live)
    BY <1>1 DEF HasNew
  <2>2. i \in Ids /\ t[i] # Gone /\ t[i].origin = st.key
    BY <2>1 DEF From, Here
  <2>3. u[i] # Gone /\ u[i].origin = st.key
    BY <2>1, <2>2 DEF Keeps
  <2>4. i \in From(u, st.key)
    BY <2>2, <2>3 DEF From, Here
  <2> QED
    BY <2>1, <2>4 DEF HasNew
<1>2. ASSUME NEW i \in Here(u) \ Here(P.live)
      PROVE  i \in Here(t) /\ (IsNew(P, S, F, t, i) => IsNew(P, S, F, u, i))
  <2>1. i \in Ids /\ u[i] # Gone
    BY DEF Here
  <2>2. t[i] # Gone /\ u[i].origin = t[i].origin
    BY <2>1 DEF Keeps
  <2> QED
    BY <2>1, <2>2 DEF Here, IsNew
<1> QED
  BY <1>1, <1>2

\* Less to do leaves what was done.
LEMMA LessToDo ==
  ASSUME NEW P, NEW S, NEW F, NEW t, NEW st
  PROVE  /\ \A i : Follows(P, S, F, t, i) => Follows(P, S \ {st}, F, t, i)
         /\ \A i : IsNew(P, S, F, t, i) => IsNew(P, S \ {st}, F, t, i)
<1>1. \A o : Over(S, F, o) => Over(S \ {st}, F, o)
  BY DEF Over
<1>2. ASSUME NEW i, Follows(P, S, F, t, i) PROVE Follows(P, S \ {st}, F, t, i)
  BY <1>1, <1>2 DEF Follows
<1>3. ASSUME NEW i, IsNew(P, S, F, t, i) PROVE IsNew(P, S \ {st}, F, t, i)
  BY <1>1, <1>3 DEF IsNew
<1> QED
  BY <1>2, <1>3

\* A step skipped leaves the plan carried out but for the others.
LEMMA UnderSkipped ==
  ASSUME NEW P, NEW S, NEW F, NEW t, NEW n, Under(P, S, F, t, n), NEW st \in S, st.key \in F
  PROVE  Under(P, S \ {st}, F, t, n)
<1>1. \A o : Over(S \ {st}, F, o) => Over(S, F, o)
  BY DEF Over
<1>2. Made(P.live, n) /\ \A o \in S \ {st} : Due(P, o) \/ Adding(P, o)
  BY DEF Under
<1>3. \A k \in F : \E o : o.key = k /\ (Adding(P, o) \/ Updating(P, P.live, o))
  BY DEF Under
<1>4. /\ \A o : Due(P, o) /\ Over(S \ {st}, F, o) => Carried(t, o)
      /\ \A o : Adding(P, o) /\ Over(S \ {st}, F, o) => HasNew(P, t, o)
  BY <1>1 DEF Under
<1>5. \A i \in Here(P.live) : Follows(P, S \ {st}, F, t, i)
  BY LessToDo DEF Under
<1>6. \A i \in Here(t) \ Here(P.live) : IsNew(P, S \ {st}, F, t, i)
  BY LessToDo DEF Under
<1> QED
  BY <1>2, <1>3, <1>4, <1>5, <1>6 DEF Under

\* One refused does so with its entry among those that failed: nothing was done of it.
LEMMA UnderRefused ==
  ASSUME NEW P, NEW bs, Of(P, bs), NEW S, NEW F, NEW t, NEW n, Under(P, S, F, t, n),
         NEW st \in S, st.act \in {"add", "update"}
  PROVE  /\ Under(P, S \ {st}, F \cup {st.key}, t, n)
         /\ Adding(P, st) \/ Updating(P, P.live, st)
<1> DEFINE G == F \cup {st.key}
           T == S \ {st}
<1>1. Adding(P, st) \/ Updating(P, P.live, st)
  <2>1. Due(P, st) \/ Adding(P, st)
    BY DEF Under
  <2> QED
    BY <2>1, DueIs
<1>2. \A o : Over(T, G, o) => Over(S, F, o)
  BY DEF Over
<1>3. \A o : Over(S, F, o) /\ (Adding(P, o) \/ Updating(P, P.live, o)) => Over(T, G, o)
  <2> SUFFICES ASSUME NEW o, Over(S, F, o), Adding(P, o) \/ Updating(P, P.live, o)
               PROVE  o.key # st.key
    BY DEF Over
  <2>1. o # st
    BY DEF Over
  <2> QED
    BY <1>1, <2>1, OneStep
<1>4. Made(P.live, n) /\ \A o \in T : Due(P, o) \/ Adding(P, o)
  BY DEF Under
<1>5. \A k \in G : \E o : o.key = k /\ (Adding(P, o) \/ Updating(P, P.live, o))
  <2> SUFFICES ASSUME NEW k \in G
               PROVE  \E o : o.key = k /\ (Adding(P, o) \/ Updating(P, P.live, o))
    OBVIOUS
  <2>1. CASE k \in F
    BY <2>1 DEF Under
  <2>2. CASE k = st.key
    BY <1>1, <2>2
  <2> QED
    BY <2>1, <2>2
<1> HIDE DEF G, T
<1>6. /\ \A o : Due(P, o) /\ Over(T, G, o) => Carried(t, o)
      /\ \A o : Adding(P, o) /\ Over(T, G, o) => HasNew(P, t, o)
  BY <1>2 DEF Under
<1>7. ASSUME NEW i \in Here(P.live) PROVE Follows(P, T, G, t, i)
  <2>1. Follows(P, S, F, t, i)
    BY DEF Under
  <2>2. \A o : Due(P, o) /\ o.act = "update" /\ Over(S, F, o) => Over(T, G, o)
    BY <1>3, DueIs
  <2> QED
    BY <2>1, <2>2 DEF Follows
<1>8. ASSUME NEW i \in Here(t) \ Here(P.live) PROVE IsNew(P, T, G, t, i)
  <2>1. IsNew(P, S, F, t, i)
    BY DEF Under
  <2> QED
    BY <1>3, <2>1 DEF IsNew
<1>9. Under(P, T, G, t, n)
  BY <1>4, <1>5, <1>6, <1>7, <1>8 DEF Under
<1> QED
  BY <1>1, <1>9 DEF G, T

\* The next step of a plan leaves it carried out but for the others.
LEMMA UnderOn ==
  ASSUME NEW P, NEW bs, Of(P, bs), TasksOf(tasks, nextId), NEW S, NEW F,
         Under(P, S, F, tasks, nextId),
         NEW st \in S, st.key \notin F, st \in StepRec, StepOf(st), Done(st)
  PROVE  Under(P, S \ {st}, F, tasks', nextId')
<1> DEFINE T == S \ {st}
<1>0. /\ tasks \in TaskFns /\ nextId \in Nat /\ Spread(tasks) /\ Spread(P.live)
      /\ Made(P.live, nextId) /\ Made(tasks, nextId) /\ P.live \in TaskFns
      /\ \A i \in Here(tasks) : i \in Ids /\ tasks[i] \in TaskRec
      /\ \A i \in Here(P.live) : i \in Ids
  BY DEF TasksOf, TaskFns, Here, Of, Under
<1>1. \A o : Due(P, o) => /\ o.task \in Here(P.live) /\ o.act \in {"origin", "remove", "update"}
                          /\ Follows(P, T, F, tasks, o.task)
                          /\ Over(S, F, o) => Carried(tasks, o)
  BY DueIs, LessToDo DEF Under
<1>2. \A i \in Here(P.live) : Follows(P, T, F, tasks, i)
  BY LessToDo DEF Under
<1>3. Due(P, st) \/ (st.act = "add" /\ Adding(P, st))
  BY AddingIs DEF Under
<1>a. \A o : Over(T, F, o) => o = st \/ Over(S, F, o)
  BY DEF Over
<1>b. Over(T, F, st)
  BY DEF Over
<1>4. SUFFICES /\ nextId' \in Nat /\ nextId' >= nextId
               /\ \A o : Due(P, o) /\ Over(S, F, o) => Carried(tasks', o)
               /\ Due(P, st) => Carried(tasks', st)
               /\ \A i \in Here(P.live) : Follows(P, T, F, tasks', i)
               /\ \/ Due(P, st) /\ Keeps(P, tasks, tasks')
                  \/ /\ \A o : Adding(P, o) /\ Over(S, F, o) => HasNew(P, tasks', o)
                     /\ HasNew(P, tasks', st)
                     /\ \A i \in Here(tasks') \ Here(P.live) : IsNew(P, T, F, tasks', i)
  <2>1. Ids \subseteq Nat
    BY ConfigAssumption DEF Ids
  <2>2. Made(P.live, nextId')
    BY <1>0, <1>4, <2>1 DEF Made
  <2>3. \A o \in T : Due(P, o) \/ Adding(P, o)
    BY DEF Under
  <2>4. \A o : Due(P, o) /\ Over(T, F, o) => Carried(tasks', o)
    BY <1>4, <1>a
  <2>5. \A k \in F : \E o : o.key = k /\ (Adding(P, o) \/ Updating(P, P.live, o))
    BY DEF Under
  <2>6. /\ \A o : Adding(P, o) /\ Over(S, F, o) => HasNew(P, tasks, o)
        /\ \A i \in Here(tasks) \ Here(P.live) : IsNew(P, T, F, tasks, i)
    BY LessToDo DEF Under
  <2> HIDE DEF T
  <2>7. /\ \A o : Adding(P, o) /\ Over(T, F, o) => HasNew(P, tasks', o)
        /\ \A i \in Here(tasks') \ Here(P.live) : IsNew(P, T, F, tasks', i)
    <3>1. CASE Due(P, st) /\ Keeps(P, tasks, tasks')
      <4>1. \A o : Adding(P, o) => o # st
        BY <3>1, DueIs, AddingIs
      <4>2. \A o : HasNew(P, tasks, o) => HasNew(P, tasks', o)
        BY <3>1, KeepsNew
      <4>3. \A i \in Here(tasks') \ Here(P.live) :
              i \in Here(tasks) /\ (IsNew(P, T, F, tasks, i) => IsNew(P, T, F, tasks', i))
        BY <3>1, KeepsNew
      <4> QED
        BY <1>a, <2>6, <4>1, <4>2, <4>3
    <3> QED
      BY <1>4, <1>a, <3>1
  <2>8. Under(P, T, F, tasks', nextId')
    BY <1>4, <2>2, <2>3, <2>4, <2>5, <2>7 DEF Under
  <2> QED
    BY <2>8 DEF T
<1>5. CASE st.act = "add" /\ Adding(P, st)
  <2>1. /\ tasks' = [tasks EXCEPT ![nextId] = Task(st.path, st.key, st.to)] /\ nextId' = nextId + 1
        /\ nextId \in Ids
    BY <1>5 DEF Done
  <2> DEFINE x == Task(st.path, st.key, st.to)
  <2>x. x # Gone /\ x.origin = st.key
    <3>1. st.path \in Keys /\ st.key \in Keys /\ st.to \in Specs
      BY <1>5 DEF StepOf
    <3>2. x \in TaskRec /\ x.origin = st.key
      BY <3>1 DEF Task, TaskRec
    <3> QED
      BY <3>2, GoneIsNone
  <2> HIDE DEF x
  <2>2. /\ \A i \in Ids \ {nextId} : tasks'[i] = tasks[i]
        /\ tasks'[nextId] = x
    BY <1>0, <2>1 DEF TaskFns, x
  <2>3. nextId \notin Here(P.live) /\ tasks[nextId] = Gone
    BY <1>0, <2>1 DEF Made, Here
  <2>4. \A i \in Here(P.live) : i # nextId /\ tasks'[i] = tasks[i]
    BY <1>0, <2>2, <2>3
  <2>5. \A i \in Here(P.live) : Follows(P, T, F, tasks', i)
    BY <1>2, <2>4 DEF Follows
  <2>6. \A o : Due(P, o) /\ Over(S, F, o) => Carried(tasks', o)
    BY <1>1, <2>4 DEF Carried
  <2>7. ~Due(P, st)
    BY <1>1, <1>5
  <2>8. nextId' \in Nat /\ nextId' >= nextId
    BY <1>0, <2>1
  <2>9. HasNew(P, tasks', st)
    <3>1. nextId \in From(tasks', st.key)
      BY <2>1, <2>2, <2>x DEF From, Here
    <3> QED
      BY <2>3, <3>1 DEF HasNew
  <2>10. ASSUME NEW o, Adding(P, o), Over(S, F, o) PROVE HasNew(P, tasks', o)
    <3>1. PICK i \in From(tasks, o.key) : i \notin Here(P.live)
      BY <2>10 DEF Under, HasNew
    <3>2. i \in Ids /\ tasks[i] # Gone /\ tasks[i].origin = o.key /\ i # nextId
      BY <2>3, <3>1 DEF From, Here
    <3>3. i \in From(tasks', o.key)
      BY <2>2, <3>2 DEF From, Here
    <3> QED
      BY <3>1, <3>3 DEF HasNew
  <2>11. ASSUME NEW i \in Here(tasks') \ Here(P.live) PROVE IsNew(P, T, F, tasks', i)
    <3> HIDE DEF T
    <3>1. CASE i = nextId
      BY <1>5, <1>b, <2>2, <2>x, <3>1 DEF IsNew
    <3>2. CASE i # nextId
      <4>1. i \in Here(tasks) \ Here(P.live) /\ tasks'[i] = tasks[i]
        BY <2>2, <3>2 DEF Here
      <4>2. IsNew(P, S, F, tasks, i)
        BY <4>1 DEF Under
      <4>3. IsNew(P, T, F, tasks, i)
        BY <4>2, LessToDo DEF T
      <4> QED
        BY <4>1, <4>3 DEF IsNew
    <3> QED
      BY <3>1, <3>2
  <2> QED
    BY <2>5, <2>6, <2>7, <2>8, <2>9, <2>10, <2>11
<1>6. CASE Due(P, st)
  <2> DEFINE i == st.task
  <2>1. /\ i \in Here(P.live) /\ i \in Ids /\ st.act \in {"origin", "remove", "update"}
        /\ Follows(P, T, F, tasks, i)
    BY <1>0, <1>1, <1>6
  <2>2. nextId' = nextId
    BY <1>0, <2>1 DEF Done
  <2>3. CASE st.act = "origin"
    <3>1. \A j \in Ids \ {i} : tasks'[j] = tasks[j]
      BY <1>0, <2>3 DEF Done, TaskFns
    <3>k. Keeps(P, tasks, tasks')
      BY <2>1, <3>1 DEF Keeps
    <3>2. CASE tasks[i] = Gone
      <4>1. tasks' = tasks
        BY <2>3, <3>2 DEF Done
      <4> QED
        BY <1>0, <1>1, <1>2, <1>6, <2>2, <3>2, <3>k, <4>1 DEF Carried
    <3>3. CASE tasks[i] # Gone
      <4> DEFINE x == [tasks[i] EXCEPT !.origin = st.to]
      <4>1. tasks'[i] = x
        BY <1>0, <2>1, <2>3, <3>3 DEF Done, TaskFns
      <4>2. /\ x # Gone /\ x.origin = st.to /\ x.path = tasks[i].path /\ x.spec = tasks[i].spec
        <5>1. tasks[i] \in TaskRec /\ tasks[i] # Gone
          BY <1>0, <2>1, <3>3 DEF Here
        <5>2. st.to \in Keys \cup {Gone}
          BY <2>3 DEF StepOf
        <5>3. x \in TaskRec
          BY <5>1, <5>2 DEF TaskRec
        <5> QED
          BY <5>1, <5>3, GoneIsNone DEF TaskRec
      <4> HIDE DEF x, T
      <4>3. Follows(P, T, F, tasks', i)
        BY <1>6, <2>1, <2>3, <3>3, <4>1, <4>2 DEF Follows
      <4>4. \A j \in Here(P.live) : Follows(P, T, F, tasks', j)
        BY <1>0, <1>2, <3>1, <4>3 DEF Follows
      <4>5. ASSUME NEW o, Due(P, o), Over(S, F, o) PROVE Carried(tasks', o)
        <5>1. CASE o.task # i
          BY <1>0, <1>1, <3>1, <4>5, <5>1 DEF Carried
        <5>2. CASE o.task = i
          <6>1. o.act = "origin" => o.to = st.to
            BY <1>6, <2>3, <4>5, <5>2, DueIs
          <6> QED
            BY <1>1, <3>3, <4>1, <4>2, <4>5, <5>2, <6>1 DEF Carried
        <5> QED
          BY <5>1, <5>2
      <4>6. Carried(tasks', st)
        BY <2>3, <4>1, <4>2 DEF Carried
      <4> QED
        BY <1>0, <1>6, <2>2, <3>k, <4>4, <4>5, <4>6
    <3> QED
      BY <3>2, <3>3
  <2>4. CASE st.act = "remove"
    <3>1. tasks' = [tasks EXCEPT ![i] = Gone]
      BY <2>4 DEF Done
    <3>2. \A j \in Ids \ {i} : tasks'[j] = tasks[j]
      BY <1>0, <3>1 DEF TaskFns
    <3>k. Keeps(P, tasks, tasks')
      BY <2>1, <3>2 DEF Keeps
    <3>3. tasks'[i] = Gone
      BY <1>0, <2>1, <3>1 DEF TaskFns
    <3> HIDE DEF T
    <3>4. \A j \in Here(P.live) : Follows(P, T, F, tasks', j)
      BY <1>0, <1>2, <1>6, <2>4, <3>2, <3>3 DEF Follows
    <3>5. ASSUME NEW o, Due(P, o), Over(S, F, o) PROVE Carried(tasks', o)
      BY <1>0, <1>1, <3>2, <3>3, <3>5 DEF Carried
    <3>6. Carried(tasks', st)
      BY <3>3 DEF Carried
    <3> QED
      BY <1>0, <1>6, <2>2, <3>k, <3>4, <3>5, <3>6
  <2>5. CASE st.act = "update"
    <3>1. PICK j \in Updatable(st) : tasks' = [tasks EXCEPT ![j].spec = st.to]
      BY <2>5 DEF Done
    <3>2. j \in Here(tasks) /\ tasks[j].path = st.path
      BY DEF Updatable, At
    <3>3. st.path = P.live[i].path
      BY <1>6, <2>5, DueIs, UpdatingIs
    <3>4. \A l \in Here(P.live) : tasks[l] # Gone => tasks[l].path = P.live[l].path
      BY <1>2 DEF Follows
    <3>5. tasks[i] # Gone => i = j
      BY <1>0, <2>1, <3>2, <3>3, <3>4 DEF Spread, Here
    <3>6. \A l \in Here(P.live) \ {i} : l # j
      BY <1>0, <2>1, <3>2, <3>3, <3>4 DEF Spread, Here
    <3>7. \A l \in Here(P.live) \ {i} : tasks'[l] = tasks[l]
      BY <1>0, <3>1, <3>6 DEF TaskFns
    <3> DEFINE x == [tasks[j] EXCEPT !.spec = st.to]
    <3>x. /\ x # Gone /\ x.spec = st.to /\ x.path = tasks[j].path /\ x.origin = tasks[j].origin
      <4>1. tasks[j] \in TaskRec /\ st.to \in Specs
        BY <1>0, <2>5, <3>2 DEF StepOf
      <4>2. x \in TaskRec
        BY <4>1 DEF TaskRec
      <4>3. x.spec = st.to /\ x.path = tasks[j].path /\ x.origin = tasks[j].origin
        BY <4>1 DEF TaskRec
      <4> HIDE DEF x
      <4>4. x # Gone
        BY <4>2, GoneIsNone
      <4> QED
        BY <4>3, <4>4
    <3>y. tasks'[j] = x /\ \A l \in Ids \ {j} : tasks'[l] = tasks[l]
      BY <1>0, <3>1, <3>2 DEF TaskFns
    <3> HIDE DEF x, T
    <3>k. Keeps(P, tasks, tasks')
      BY <3>2, <3>x, <3>y DEF Keeps, Here
    <3>8. CASE tasks[i] = Gone
      <4>1. i # j
        BY <3>2, <3>8 DEF Here
      <4>2. tasks'[i] = tasks[i]
        BY <1>0, <2>1, <3>1, <4>1 DEF TaskFns
      <4>3. \A l \in Here(P.live) : tasks'[l] = tasks[l]
        BY <3>7, <4>2
      <4>4. \A l \in Here(P.live) : Follows(P, T, F, tasks', l)
        BY <1>2, <4>3 DEF Follows
      <4>5. \A o : Due(P, o) /\ Over(S, F, o) => Carried(tasks', o)
        BY <1>1, <4>3 DEF Carried
      <4>6. Carried(tasks', st)
        BY <3>8, <4>2 DEF Carried
      <4> QED
        BY <1>0, <1>6, <2>2, <3>k, <4>4, <4>5, <4>6
    <3>9. CASE tasks[i] # Gone
      <4>1. tasks'[i] = x /\ i = j
        BY <3>5, <3>9, <3>y
      <4>3. Follows(P, T, F, tasks', i)
        BY <1>6, <1>b, <2>1, <2>5, <3>9, <3>x, <4>1 DEF Follows
      <4>4. \A l \in Here(P.live) : Follows(P, T, F, tasks', l)
        BY <1>2, <3>7, <4>3 DEF Follows
      <4>5. ASSUME NEW o, Due(P, o), Over(S, F, o) PROVE Carried(tasks', o)
        <5>1. CASE o.task # i
          BY <1>1, <3>7, <4>5, <5>1 DEF Carried
        <5>2. CASE o.task = i
          <6>1. o.act = "update" => o.to = st.to
            BY <1>6, <2>5, <4>5, <5>2, DueIs
          <6> QED
            BY <1>1, <3>9, <3>x, <4>1, <4>5, <5>2, <6>1 DEF Carried
        <5> QED
          BY <5>1, <5>2
      <4>6. Carried(tasks', st)
        BY <2>5, <3>x, <4>1 DEF Carried
      <4> QED
        BY <1>0, <1>6, <2>2, <3>k, <4>4, <4>5, <4>6
    <3> QED
      BY <3>8, <3>9
  <2> QED
    BY <2>1, <2>3, <2>4, <2>5
<1> QED
  BY <1>3, <1>5, <1>6

\* The entry of a task that was there is the one it had, or the one that took it, or
\* none, or that it was written into.
LEMMA OriginWas ==
  ASSUME NEW P, NEW bs, Of(P, bs), NEW S, NEW F, NEW t, NEW n, Under(P, S, F, t, n),
         NEW i \in Here(t) \cap Here(P.live)
  PROVE  LET k == t[i].origin
         IN \/ k = P.live[i].origin
            \/ k \in In(P.config) /\ i = TaskOf(P.config, P.live, k)
            \/ k = Gone
            \/ /\ k \in In(P.config) /\ TaskOf(P.config, P.live, k) = Gone
               /\ P.live[i].origin = Gone
               /\ \E c \in P.changes : c.key = k /\ c.kind = "written"
<1>1. Follows(P, S, F, t, i) /\ t[i] # Gone
  BY DEF Under, Here
<1>2. CASE t[i].origin = P.live[i].origin
  BY <1>2
<1>3. CASE \E st : Due(P, st) /\ st.act = "origin" /\ st.task = i /\ t[i].origin = st.to
  <2>1. PICK st : Due(P, st) /\ st.act = "origin" /\ st.task = i /\ t[i].origin = st.to
    BY <1>3
  <2>2. CASE Adopting(P, st)
    BY <2>1, <2>2, AdoptingIs
  <2>3. CASE Removing(P, st)
    BY <2>1, <2>3, RemovingIs
  <2>4. CASE Writing(P, st)
    BY <2>1, <2>4, WritingIs
  <2>5. CASE Updating(P, P.live, st)
    BY <2>1, <2>5, UpdatingIs
  <2> QED
    BY <2>1, <2>2, <2>3, <2>4, <2>5 DEF Due
<1> QED
  BY <1>1, <1>2, <1>3 DEF Follows

\* What fails is an entry's new task or its task's update, and nothing else of it is
\* to do.
LEMMA FailedAre ==
  ASSUME NEW P, NEW bs, Of(P, bs), NEW S, NEW F, NEW t, NEW n, Under(P, S, F, t, n)
  PROVE  /\ \A k \in F : /\ k \in In(P.config)
                         /\ \E c \in P.changes :
                              c.key = k /\ c.kind \in {"changed", "added", "removed_here"}
         /\ \A st : Due(P, st) /\ st.act # "update" => st.key \notin F
<1>1. ASSUME NEW k \in F
      PROVE  /\ k \in In(P.config)
             /\ \E c \in P.changes : c.key = k /\ c.kind \in {"changed", "added", "removed_here"}
  <2>1. PICK st : st.key = k /\ (Adding(P, st) \/ Updating(P, P.live, st))
    BY DEF Under
  <2> QED
    BY <2>1, AddingIs, UpdatingIs
<1>2. ASSUME NEW st, Due(P, st), st.act # "update", st.key \in F PROVE FALSE
  <2>1. PICK c \in P.changes : c.key = st.key /\ c.kind \in {"changed", "added", "removed_here"}
    BY <1>1, <1>2
  <2>2. st.key \in In(P.config) /\ Gone \notin In(P.config)
    BY <1>1, <1>2, ConfigAssumption DEF In
  <2>3. ~Adopting(P, st) /\ ~Removing(P, st) /\ ~Updating(P, P.live, st)
    BY <1>2, <2>2, AdoptingIs, RemovingIs, UpdatingIs
  <2>4. Writing(P, st)
    BY <1>2, <2>3 DEF Due
  <2>5. PICK d \in P.changes : d.key = st.key /\ d.kind = "written"
    BY <2>4, WritingIs
  <2>6. c = d
    BY <2>1, <2>2, <2>5, OfIs
  <2> QED
    BY <2>1, <2>5, <2>6
<1> QED
  BY <1>1, <1>2

\* All that is due of the origins and the removals is done in the end.
LEMMA AllCarried ==
  ASSUME NEW P, NEW bs, Of(P, bs), NEW F, NEW t, NEW n, Under(P, {}, F, t, n),
         NEW st, Due(P, st), st.act # "update"
  PROVE  Carried(t, st)
<1>1. st.key \notin F
  BY FailedAre
<1>2. Over({}, F, st)
  BY <1>1 DEF Over
<1> QED
  BY <1>2 DEF Under

\* In the end every task is of an entry of the config, or the runner's own.
LEMMA NoneAstray ==
  ASSUME NEW P, NEW bs, Of(P, bs), NEW F, NEW t, NEW n, Under(P, {}, F, t, n), NEW i \in Here(t)
  PROVE  t[i].origin \in In(P.config) \cup {Gone}
<1>0. t[i] # Gone /\ i \in Ids /\ i # Gone
  BY ConfigAssumption DEF Here, Ids
<1>1. CASE i \notin Here(P.live)
  <2>1. IsNew(P, {}, F, t, i)
    BY <1>1 DEF Under
  <2> QED
    BY <2>1, AddingIs DEF IsNew
<1>2. CASE i \in Here(P.live) /\ t[i].origin = P.live[i].origin
  <2> SUFFICES ASSUME P.live[i].origin \notin In(P.config) \cup {Gone} PROVE FALSE
    BY <1>2
  <2>1. CASE i \in Adopted(P.config, P.live)
    <3>1. PICK l \in In(P.config) : i \in Adopts(P.config, P.live, l)
      BY <2>1 DEF Adopted
    <3>2. From(P.live, l) = {} /\ Adopts(P.config, P.live, l) = {i}
      BY <3>1 DEF Adopts, At, Of, Spread
    <3>3. i = TaskOf(P.config, P.live, l) /\ P.live[i].origin # l
      BY <3>2, TaskOfIs
    <3> DEFINE st == Step(1, Gone, "origin", i, Gone, l, Gone)
    <3>4. Adopting(P, st) /\ st.act = "origin" /\ st.task = i /\ st.to = l
      BY <1>0, <3>3 DEF Adopting, Step
    <3>5. Carried(t, st)
      BY <3>4, AllCarried DEF Due
    <3> QED
      BY <1>0, <1>2, <3>3, <3>4, <3>5 DEF Carried
  <2>2. CASE i \notin Adopted(P.config, P.live)
    <3>1. PICK c \in P.changes : c.kind = "removed" /\ c.task = i
      BY <1>2, <2>2 DEF Of, Shaped
    <3>2. PICK st \in Removal(c) :
            st.task = i /\ (st.act = "remove" \/ (st.act = "origin" /\ st.to = Gone))
      BY <3>1 DEF Removal, Step
    <3>3. Due(P, st)
      BY <3>1, <3>2 DEF Due, Removing
    <3>4. Carried(t, st)
      BY <3>2, <3>3, AllCarried
    <3> QED
      BY <1>0, <1>2, <3>2, <3>4 DEF Carried
  <2> QED
    BY <2>1, <2>2
<1>3. CASE i \in Here(P.live) /\ t[i].origin # P.live[i].origin
  BY <1>3, OriginWas
<1> QED
  BY <1>1, <1>2, <1>3

\* Of an entry's tasks the last is the one it is.
LEMMA LastIs ==
  ASSUME NEW config, NEW t, NEW k, NEW i \in From(t, k), \A j \in From(t, k) : j <= i
  PROVE  TaskOf(config, t, k) = i
<1>1. TaskOf(config, t, k) = CHOOSE x \in From(t, k) : \A j \in From(t, k) : j <= x
  BY DEF TaskOf
<1>2. \A x \in From(t, k) : (\A j \in From(t, k) : j <= x) => x = i
  <2>1. From(t, k) \subseteq 1 .. MaxId /\ MaxId \in Nat
    BY ConfigAssumption DEF From, Here, Ids
  <2> QED
    BY <2>1
<1> QED
  BY <1>1, <1>2

LEMMA LastOf ==
  ASSUME NEW config, NEW t, NEW k, From(t, k) # {}
  PROVE  TaskOf(config, t, k) \in From(t, k) /\ \A j \in From(t, k) : j <= TaskOf(config, t, k)
<1>1. TaskOf(config, t, k) = CHOOSE x \in From(t, k) : \A j \in From(t, k) : j <= x
  BY DEF TaskOf
<1>2. From(t, k) \in SUBSET Ids
  BY DEF From, Here
<1>3. \E x \in From(t, k) : \A j \in From(t, k) : j <= x
  BY <1>2, Latest
<1> QED
  BY <1>1, <1>3

\* An entry that was a task here is so in the end.
LEMMA TaskStays ==
  ASSUME NEW P, NEW bs, Of(P, bs), NEW F, NEW t, NEW n, Under(P, {}, F, t, n),
         NEW k \in In(P.config), TaskOf(P.config, P.live, k) # Gone
  PROVE  LET i == TaskOf(P.config, P.live, k)
         IN /\ i \in Here(t) \cap Here(P.live) /\ t[i].origin = k
            /\ TaskOf(P.config, t, k) = i
<1> DEFINE i == TaskOf(P.config, P.live, k)
<1>0. k # Gone /\ i \in Here(P.live) /\ i \in Ids /\ i # Gone
      /\ \/ i \in From(P.live, k)
         \/ i \in Adopts(P.config, P.live, k) /\ From(P.live, k) = {}
  <2>1. k # Gone
    BY ConfigAssumption DEF In
  <2> QED
    BY <2>1, TaskOfIs DEF From, Adopts, At, Here
<1>1. i \in Here(t)
  <2> SUFFICES ASSUME t[i] = Gone PROVE FALSE
    BY <1>0 DEF Here
  <2>1. PICK st : Due(P, st) /\ st.act = "remove" /\ st.task = i
    BY <1>0 DEF Under, Follows
  <2>2. Removing(P, st)
    BY <2>1, AdoptingIs, WritingIs, UpdatingIs DEF Due
  <2>3. i \notin Adopted(P.config, P.live) /\ P.live[i].origin \notin In(P.config) \cup {Gone}
    BY <2>1, <2>2, RemovingIs
  <2> QED
    BY <1>0, <2>3 DEF Adopted, From
<1>2. t[i].origin = k
  <2>1. CASE i \in From(P.live, k)
    <3>1. P.live[i].origin = k
      BY <2>1 DEF From
    <3>2. CASE Follows(P, {}, F, t, i) /\ t[i].origin # P.live[i].origin
      <4>1. PICK st : Due(P, st) /\ st.act = "origin" /\ st.task = i
        BY <1>1, <3>2 DEF Follows, Here
      <4>2. ~Adopting(P, st) /\ ~Removing(P, st) /\ ~Writing(P, st) /\ ~Updating(P, P.live, st)
        BY <1>0, <3>1, <4>1, AdoptingIs, RemovingIs, WritingIs, UpdatingIs
      <4> QED
        BY <4>1, <4>2 DEF Due
    <3> QED
      BY <1>0, <3>1, <3>2 DEF Under
  <2>2. CASE i \in Adopts(P.config, P.live, k) /\ From(P.live, k) = {}
    <3>1. P.live[i].origin # k
      BY <2>2 DEF Adopts
    <3> DEFINE st == Step(1, Gone, "origin", i, Gone, k, Gone)
    <3>2. Adopting(P, st) /\ st.act = "origin" /\ st.task = i /\ st.to = k
      BY <1>0, <3>1 DEF Adopting, Step
    <3>3. Carried(t, st)
      BY <3>2, AllCarried DEF Due
    <3> QED
      BY <1>1, <3>2, <3>3 DEF Carried, Here
  <2> QED
    BY <1>0, <2>1, <2>2
<1>3. i \in From(t, k)
  BY <1>1, <1>2 DEF From
<1>4. ASSUME NEW j \in From(t, k) PROVE j = i \/ j \in From(P.live, k)
  <2>1. j \in Here(t) /\ t[j].origin = k
    BY DEF From
  <2>2. CASE j \notin Here(P.live)
    <3>1. IsNew(P, {}, F, t, j)
      BY <2>1, <2>2 DEF Under
    <3> QED
      BY <2>1, <3>1, AddingIs DEF IsNew
  <2>3. CASE j \in Here(P.live)
    BY <1>0, <2>1, <2>3, OriginWas DEF From
  <2> QED
    BY <2>2, <2>3
<1>5. \A j \in From(t, k) : j <= i
  <2>1. i <= i
    BY <1>0, ConfigAssumption DEF Ids
  <2>2. CASE From(P.live, k) = {}
    BY <1>4, <2>1, <2>2
  <2>3. CASE From(P.live, k) # {}
    <3>1. \A j \in From(P.live, k) : j <= i
      BY <2>3, LastOf
    <3> QED
      BY <1>4, <2>1, <3>1
  <2> QED
    BY <2>2, <2>3
<1>6. TaskOf(P.config, t, k) = i
  <2> HIDE DEF i
  <2> QED
    BY <1>3, <1>5, LastIs
<1> QED
  BY <1>0, <1>1, <1>2, <1>6

\* An entry whose new task failed has none.
LEMMA FailedHasNone ==
  ASSUME NEW P, NEW bs, Of(P, bs), NEW F, NEW t, NEW n, Under(P, {}, F, t, n),
         NEW k \in In(P.config), TaskOf(P.config, P.live, k) = Gone, k \in F
  PROVE  From(t, k) = {}
<1> SUFFICES ASSUME NEW j \in From(t, k) PROVE FALSE
  OBVIOUS
<1>1. j \in Here(t) /\ t[j].origin = k /\ j # Gone /\ k # Gone
  BY ConfigAssumption DEF From, Here, Ids, In
<1>2. CASE j \notin Here(P.live)
  <2>1. IsNew(P, {}, F, t, j)
    BY <1>1, <1>2 DEF Under
  <2> QED
    BY <1>1, <2>1 DEF IsNew, Over
<1>3. CASE j \in Here(P.live)
  <2>1. From(P.live, k) = {}
    BY TaskOfIs
  <2>2. P.live[j].origin # k
    BY <1>3, <2>1 DEF From
  <2>3. PICK c \in P.changes : c.key = k /\ c.kind = "written"
    BY <1>1, <1>3, <2>2, OriginWas
  <2>4. PICK d \in P.changes : d.key = k /\ d.kind \in {"changed", "added", "removed_here"}
    BY FailedAre
  <2>5. c = d
    BY <2>3, <2>4, OfIs
  <2> QED
    BY <2>3, <2>4, <2>5
<1> QED
  BY <1>2, <1>3

\* What is offered and was not taken.
LeftOut(changes, k) ==
  \E d \in changes : d.key = k /\ d.kind \in {"added", "removed_here", "written"} /\ ~d.apply

\* An entry that has no task in the end, though nothing failed, was left out by choice.
LEMMA NoneByChoice ==
  ASSUME NEW P, NEW bs, Of(P, bs), NEW F, NEW t, NEW n, Under(P, {}, F, t, n),
         NEW k \in In(P.config), TaskOf(P.config, P.live, k) = Gone, k \notin F, From(t, k) = {}
  PROVE  LeftOut(P.changes, k)
<1>1. PICK d \in P.changes : d.key = k
  BY DEF Of, Shaped
<1>2. Fits(P.config, bs, P.live, d)
  BY OfIs
<1>3. d.kind \in {"added", "removed_here", "written"}
  <2>1. d.kind \in {"changed", "written", "added", "removed_here", "removed"}
    BY <1>2 DEF Fits, ChangeRec
  <2>2. d.kind # "changed"
    BY <1>1, <1>2, ConfigAssumption DEF Fits, IsChanged, Here, Ids
  <2>3. d.kind # "removed"
    BY <1>1, <1>2 DEF Fits, IsRemoved
  <2> QED
    BY <2>1, <2>2, <2>3
<1>4. ASSUME d.apply, d.kind = "written" PROVE FALSE
  <2> DEFINE i == d.task
             st == Step(3, d.key, "origin", d.task, Gone, d.key, Gone)
  <2>1. i \in Here(P.live) /\ P.live[i].origin = Gone
    BY <1>2, <1>4 DEF Fits, IsWritten, At
  <2>2. Writing(P, st) /\ st.act = "origin" /\ st.task = i /\ st.to = k
    BY <1>1, <1>4 DEF Writing, Step
  <2>3. Carried(t, st)
    BY <2>2, AllCarried DEF Due
  <2>4. t[i] # Gone
    <3> SUFFICES ASSUME t[i] = Gone PROVE FALSE
      OBVIOUS
    <3>1. PICK o : Due(P, o) /\ o.act = "remove" /\ o.task = i
      BY <2>1 DEF Under, Follows
    <3>2. Removing(P, o)
      BY <3>1, AdoptingIs, WritingIs, UpdatingIs DEF Due
    <3> QED
      BY <2>1, <3>1, <3>2, RemovingIs
  <2>5. i \in From(t, k)
    BY <2>1, <2>2, <2>3, <2>4 DEF Carried, From, Here
  <2> QED
    BY <2>5
<1>5. ASSUME d.apply, d.kind \in {"added", "removed_here"} PROVE FALSE
  <2> DEFINE st == Step(4, d.key, "add", Gone, d.path, P.config[d.key], Gone)
  <2>1. Adding(P, st) /\ st.key = k
    BY <1>1, <1>5 DEF Adding, Step
  <2>2. HasNew(P, t, st)
    BY <2>1 DEF Under, Over
  <2> QED
    BY <2>1, <2>2 DEF HasNew
<1> QED
  BY <1>1, <1>3, <1>4, <1>5 DEF LeftOut

\* A base that says of each entry what the config does, or nothing, and of one whose
\* change failed what that was.
BaseLeft(P, F, b) ==
  \A k \in In(P.config) :
    /\ k \notin F => b[k] \in {P.config[k], Gone}
    /\ k \in F => \E c \in P.changes : c.key = k /\ b[k] = c.was

\* A plan carried out leaves nothing for the next one but what was left by choice and
\* what failed.
LEMMA UnderLeaves ==
  ASSUME NEW P, NEW bs, Of(P, bs), NEW F, NEW t \in TaskFns, NEW n, Under(P, {}, F, t, n),
         NEW b \in Entries, BaseLeft(P, F, b), NEW c \in Plan(P.config, b, t), c.key \notin F
  PROVE  LeftOut(P.changes, c.key)
<1> DEFINE C == P.config
           k == c.key
<1>0. C \in Entries /\ Fits(C, b, t, c)
  BY PlanIs DEF Of, ChangeIs
<1>1. c.kind # "removed"
  BY <1>0, NoneAstray DEF Fits, IsRemoved
<1>2. c.kind # "changed"
  <2> SUFFICES ASSUME c.kind = "changed" PROVE FALSE
    OBVIOUS
  <2> DEFINE i == TaskOf(C, t, k)
  <2>1. /\ k \in In(C) /\ i \in Here(t) /\ c.fields # {}
        /\ c.fields = Offered(WasOf(C, b, t, i, k), t[i].spec, C[k])
    BY <1>0 DEF Fits, IsChanged
  <2>2. t[i].origin = k
    <3>1. i # Gone
      BY <2>1, ConfigAssumption DEF Here, Ids
    <3>2. i \in From(t, k) \/ i \in Adopts(C, t, k)
      BY <3>1, TaskOfIs
    <3>3. t[i].origin \in In(C) \cup {Gone}
      BY <2>1, NoneAstray
    <3> QED
      BY <3>2, <3>3 DEF From, Adopts
  <2> HIDE DEF i
  <2>3. WasOf(C, b, t, i, k) = C[k]
    BY <2>1, <2>2 DEF WasOf, BaseLeft
  <2> QED
    BY <2>1, <2>3 DEF Offered, Changed
<1>3. k \in In(C) /\ TaskOf(C, t, k) = Gone
  BY <1>0, <1>1, <1>2 DEF Fits, ChangeRec, IsWritten, IsMissing
<1>4. From(t, k) = {}
  BY <1>3, TaskOfIs
<1>5. TaskOf(C, P.live, k) = Gone
  <2> SUFFICES ASSUME TaskOf(C, P.live, k) # Gone PROVE FALSE
    OBVIOUS
  <2> QED
    BY <1>3, TaskStays
<1> QED
  BY <1>3, <1>4, <1>5, NoneByChoice

\* What failed it offers again.
LEMMA UnderOffers ==
  ASSUME NEW P, NEW bs, Of(P, bs), NEW F, NEW t \in TaskFns, NEW n, Under(P, {}, F, t, n),
         NEW b \in Entries, BaseLeft(P, F, b), NEW k \in F
  PROVE  \E d \in Plan(P.config, b, t) : d.key = k
<1> DEFINE C == P.config
           L == P.live
           i == TaskOf(C, L, k)
<1>0. /\ C \in Entries /\ k \in In(C)
      /\ Shaped(C, b, t, Plan(C, b, t))
  BY FailedAre, PlanIs DEF Of
<1>1. PICK c \in P.changes : c.key = k /\ c.kind \in {"changed", "added", "removed_here"}
  BY FailedAre
<1>2. Fits(C, bs, L, c) /\ b[k] = c.was
  BY <1>0, <1>1, OfIs DEF BaseLeft
<1>3. CASE c.kind = "changed"
  <2>1. /\ i \in Here(L) /\ c.task = i /\ c.was = WasOf(C, bs, L, i, k)
        /\ c.fields = Offered(c.was, L[i].spec, C[k]) /\ c.fields # {}
    BY <1>1, <1>2, <1>3 DEF Fits, IsChanged
  <2>2. i # Gone /\ i \in Ids
    BY <2>1, ConfigAssumption DEF Here, Ids
  <2>3. i \in Here(t) /\ t[i].origin = k /\ TaskOf(C, t, k) = i
    BY <1>0, <2>2, TaskStays
  <2>4. t[i].spec = L[i].spec
    <3> SUFFICES ASSUME t[i].spec # L[i].spec PROVE FALSE
      OBVIOUS
    <3>1. Follows(P, {}, F, t, i) /\ t[i] # Gone
      BY <2>1, <2>3 DEF Under, Here
    <3>2. PICK st : Due(P, st) /\ st.act = "update" /\ st.task = i /\ Over({}, F, st)
      BY <3>1 DEF Follows
    <3>3. st.key \in In(C) /\ i = TaskOf(C, L, st.key)
      BY <3>2, DueIs, UpdatingIs
    <3>4. st.key = k
      BY <1>0, <2>2, <3>3, TaskOfOnce DEF Of
    <3> QED
      BY <3>2, <3>4 DEF Over
  <2>5. WasOf(C, b, t, i, k) = c.was
    <3>1. WasOf(C, bs, L, i, k) \in Specs
      BY <1>0, <2>2, TaskOfHere DEF Of
    <3>2. c.was # Gone
      BY <2>1, <3>1, ConfigAssumption DEF Specs
    <3> QED
      BY <1>2, <2>3, <3>2 DEF WasOf
  <2> HIDE DEF i
  <2>6. Offers(C, b, t, i, k)
    BY <2>1, <2>4, <2>5 DEF Offers
  <2> QED
    BY <1>0, <2>2, <2>3, <2>6 DEF Shaped
<1>4. CASE c.kind \in {"added", "removed_here"}
  <2>1. TaskOf(C, L, k) = Gone
    BY <1>1, <1>2, <1>4 DEF Fits, IsMissing
  <2>2. From(t, k) = {}
    BY <1>0, <2>1, FailedHasNone
  <2>3. Adopts(C, t, k) = {}
    BY <2>2, NoneAstray DEF Adopts, At
  <2>4. TaskOf(C, t, k) = Gone
    BY <2>2, <2>3 DEF TaskOf
  <2> QED
    BY <1>0, <2>4 DEF Shaped
<1> QED
  BY <1>1, <1>3, <1>4

\* What a plan carried out leaves of each task that was there: the merge.
MergedWell(config, bs, live, t) ==
  \A i \in Here(t) \cap Here(live) :
    LET was == live[i]
        k == t[i].origin
        old == IF was.origin = Gone THEN Gone ELSE bs[was.origin]
    IN k = Gone \/ old = Gone \/ Cardinality(From(t, k)) > 1
         \/ \A f \in Fields :
              t[i].spec[f] = ThreeWay(old[f], was.spec[f], config[k][f])

\* Of two tasks with one entry the entry is of more than one.
LEMMA MoreThanOne ==
  ASSUME NEW t, NEW k, NEW i \in From(t, k), NEW j \in From(t, k), i # j
  PROVE  Cardinality(From(t, k)) > 1
<1>1. IsFiniteSet(Ids)
  BY ConfigAssumption, FS_Interval DEF Ids
<1>2. IsFiniteSet(From(t, k))
  BY <1>1, FS_Subset DEF From, Here
<1>3. IsFiniteSet({i, j}) /\ Cardinality({i, j}) = 2
  <2>1. IsFiniteSet({i}) /\ Cardinality({i}) = 1
    BY FS_Singleton
  <2>2. {i, j} = {i} \cup {j} /\ j \notin {i}
    OBVIOUS
  <2> QED
    BY <2>1, <2>2, FS_AddElement
<1>4. Cardinality({i, j}) <= Cardinality(From(t, k))
  BY <1>2, FS_Subset
<1>5. Cardinality(From(t, k)) \in Nat
  BY <1>2, FS_CardinalityType
<1> QED
  BY <1>3, <1>4, <1>5

\* What a task is to have when the config's part is taken.
Result(P, bs, i, k) ==
  [f \in Fields |-> IF f \in Taken(WasOf(P.config, bs, P.live, i, k), P.live[i].spec, P.config[k])
                    THEN P.config[k][f] ELSE P.live[i].spec[f]]

\* The task an entry is has it as the merge says.
LEMMA ResultMerges ==
  ASSUME NEW P, NEW bs, NEW i, NEW k, P.live[i].origin # Gone, bs[P.live[i].origin] # Gone
  PROVE  \A f \in Fields :
           Result(P, bs, i, k)[f]
             = ThreeWay(bs[P.live[i].origin][f], P.live[i].spec[f], P.config[k][f])
BY DEF Result, ThreeWay, Taken, Offered, Changed, WasOf

\* A change not picked by hand takes its task there.
LEMMA PlainIs ==
  ASSUME NEW P, NEW bs, Of(P, bs), Plain(P, bs), NEW c \in P.changes, c.kind = "changed"
  PROVE  /\ c.take = Taken(WasOf(P.config, bs, P.live, c.task, c.key), P.live[c.task].spec,
                           P.config[c.key])
         /\ Merged(P, P.live, c) = Result(P, bs, c.task, c.key)
<1>1. c.take = Taken(WasOf(P.config, bs, P.live, c.task, c.key), P.live[c.task].spec,
                     P.config[c.key])
  BY DEF Plain, TakesThat
<1> QED
  BY <1>1 DEF Merged, Result

\* The task that an entry of the config is has the result.
LEMMA HasResult ==
  ASSUME NEW P, NEW bs, Of(P, bs), Plain(P, bs), NEW t, NEW n, Under(P, {}, {}, t, n),
         NEW i \in Here(t) \cap Here(P.live), NEW k \in In(P.config), i = TaskOf(P.config, P.live, k)
  PROVE  t[i].spec = Result(P, bs, i, k)
<1>0. /\ i \in Ids /\ i # Gone /\ P.live[i] \in TaskRec /\ P.live[i].spec \in Specs
  BY ConfigAssumption DEF Here, Ids, Of, TaskFns, TaskRec
<1>1. ASSUME NEW st, Updating(P, P.live, st), st.task = i PROVE st.to = Result(P, bs, i, k)
  <2>1. st.key \in In(P.config) /\ st.task = TaskOf(P.config, P.live, st.key)
    BY <1>1, UpdatingIs
  <2>2. /\ TaskOf(P.config, P.live, k) # Gone
        /\ TaskOf(P.config, P.live, k) = TaskOf(P.config, P.live, st.key)
        /\ P.config \in Entries /\ P.live \in TaskFns
    BY <1>0, <1>1, <2>1 DEF Of
  <2>3. st.key = k
    BY <2>1, <2>2, TaskOfOnce
  <2> QED
    BY <1>1, <2>3, UpdatingIs, PlainIs
<1>2. CASE \E st : Due(P, st) /\ st.act = "update" /\ st.task = i
  <2>1. PICK st : Due(P, st) /\ st.act = "update" /\ st.task = i
    BY <1>2
  <2>2. t[i].spec = st.to
    BY <2>1 DEF Under, Over, Carried, Here
  <2> QED
    BY <1>1, <2>1, <2>2, DueIs
<1>3. CASE ~\E st : Due(P, st) /\ st.act = "update" /\ st.task = i
  <2>1. t[i].spec = P.live[i].spec
    BY <1>3 DEF Under, Follows, Here
  <2> DEFINE taken == Taken(WasOf(P.config, bs, P.live, i, k), P.live[i].spec, P.config[k])
  <2>2. taken = {}
    <3> SUFFICES ASSUME NEW f \in taken PROVE FALSE
      OBVIOUS
    <3>1. f \in Fields /\ P.live[i].spec[f] # P.config[k][f]
      BY DEF Taken, Offered, Changed
    <3>2. Offers(P.config, bs, P.live, i, k)
      BY DEF Taken, Offers
    <3>3. PICK c \in P.changes : c.kind = "changed" /\ c.key = k
      BY <1>0, <3>2 DEF Of, Shaped
    <3>4. c.task = i
      BY <3>3, OfIs DEF Fits, IsChanged
    <3>5. c.take = taken
      BY <3>3, <3>4, PlainIs
    <3>6. Merged(P, P.live, c)[f] = P.config[k][f]
      BY <3>1, <3>3, <3>5 DEF Merged
    <3> DEFINE st == Step(5, c.key, "update", c.task, P.live[c.task].path, Merged(P, P.live, c),
                          P.live[c.task].spec)
    <3>7. Updating(P, P.live, st)
      BY <3>1, <3>3, <3>4, <3>6 DEF Updating, Here
    <3>8. st.act = "update" /\ st.task = i
      BY <3>4 DEF Step
    <3> QED
      BY <1>3, <3>7, <3>8 DEF Due
  <2>3. Result(P, bs, i, k) = [f \in Fields |-> P.live[i].spec[f]]
    BY <2>2 DEF Result
  <2> QED
    BY <1>0, <2>1, <2>3 DEF Specs
<1> QED
  BY <1>2, <1>3

\* A plan carried out is the merge.
LEMMA UnderMerges ==
  ASSUME NEW P, NEW bs, Of(P, bs), Plain(P, bs), NEW t, NEW n, Under(P, {}, {}, t, n)
  PROVE  MergedWell(P.config, bs, P.live, t)
<1> SUFFICES ASSUME NEW i \in Here(t) \cap Here(P.live), t[i].origin # Gone,
                    P.live[i].origin # Gone, bs[P.live[i].origin] # Gone,
                    ~(Cardinality(From(t, t[i].origin)) > 1)
             PROVE  \A f \in Fields :
                      t[i].spec[f] = ThreeWay(bs[P.live[i].origin][f], P.live[i].spec[f],
                                              P.config[t[i].origin][f])
  BY DEF MergedWell
<1> DEFINE k == t[i].origin
           j == TaskOf(P.config, P.live, k)
<1>0. i \in From(t, k)
  BY DEF From
<1>1. k \in In(P.config)
  BY NoneAstray
<1>2. j # Gone
  <2> SUFFICES ASSUME j = Gone PROVE FALSE
    OBVIOUS
  <2>1. From(P.live, k) = {}
    BY TaskOfIs
  <2>2. k # P.live[i].origin /\ i # Gone
    BY <2>1, ConfigAssumption DEF From, Here, Ids
  <2> HIDE DEF j
  <2> QED
    BY <2>2, OriginWas DEF j
<1>3. j \in From(t, k)
  BY <1>1, <1>2, TaskStays DEF From
<1>4. i = j
  BY <1>0, <1>3, MoreThanOne
<1>5. t[i].spec = Result(P, bs, i, k)
  BY <1>1, <1>4, HasResult
<1> QED
  BY <1>5, ResultMerges

\* A plan has a step for each new task taken.
LEMMA AddingDue ==
  ASSUME NEW P, NEW bs, Of(P, bs), NEW st, Adding(P, st)
  PROVE  st \in Steps(P, P.live)
<1> DEFINE OfKind(kind) == {c \in P.changes : c.kind = kind}
           adopts == Adoptions(P)
           OriginOf(i) == IF \E p \in adopts : p[1] = i THEN (CHOOSE p \in adopts : p[1] = i)[2]
                          ELSE P.live[i].origin
           written == {c \in OfKind("written") : c.apply}
           at == ({OriginOf(i) : i \in Here(P.live)}
                    \ {c.key : c \in {d \in OfKind("removed") : d.apply}})
                 \cup {c.key : c \in written}
           N == {Step(4, c.key, "add", Gone, c.path, P.config[c.key], Gone) :
                   c \in {d \in OfKind("added") \cup OfKind("removed_here") : d.apply /\ d.key \notin at}}
<1>1. N \subseteq Steps(P, P.live)
  BY DEF Steps
<1>2. PICK c \in P.changes :
        /\ c.kind \in {"added", "removed_here"} /\ c.apply
        /\ st = Step(4, c.key, "add", Gone, c.path, P.config[c.key], Gone)
  BY DEF Adding
<1>3. c.key \in In(P.config) /\ TaskOf(P.config, P.live, c.key) = Gone
  BY <1>2, OfIs DEF Fits, IsMissing
<1>4. ASSUME NEW d \in written, c.key = d.key PROVE FALSE
  <2>1. d \in P.changes /\ d.kind = "written"
    OBVIOUS
  <2>2. c = d
    BY <1>3, <1>4, <2>1, OfIs
  <2> QED
    BY <1>2, <2>1, <2>2
<1>5. ASSUME NEW i \in Here(P.live), c.key = OriginOf(i) PROVE FALSE
  <2>0. i # Gone
    BY ConfigAssumption DEF Here, Ids
  <2>1. CASE \E p \in adopts : p[1] = i
    <3> DEFINE p == CHOOSE q \in adopts : q[1] = i
    <3>1. p \in adopts /\ p[1] = i
      BY <2>1
    <3>2. c.key = p[2]
      BY <1>5, <2>1
    <3>3. p[1] = TaskOf(P.config, P.live, p[2])
      BY <3>1 DEF Adoptions
    <3> QED
      BY <1>3, <2>0, <3>1, <3>2, <3>3
  <2>2. CASE ~\E p \in adopts : p[1] = i
    <3>1. c.key = P.live[i].origin
      BY <1>5, <2>2
    <3>2. From(P.live, c.key) = {}
      BY <1>3, TaskOfIs
    <3> QED
      BY <3>1, <3>2 DEF From
  <2> QED
    BY <2>1, <2>2
<1> HIDE DEF OriginOf, written
<1>6. c.key \notin at
  BY <1>4, <1>5
<1> HIDE DEF at
<1>7. st \in N
  BY <1>2, <1>6
<1> HIDE DEF N
<1> QED
  BY <1>1, <1>7

\* What failed of a change is of it alone.
LEMMA UnfailedIs ==
  ASSUME NEW c \in ChangeRec
  PROVE  LET d == [c EXCEPT !.failed = FALSE]
         IN /\ Same(c, d) /\ d.take = c.take /\ d.apply = c.apply
            /\ ~c.failed => d = c
            /\ [[c EXCEPT !.failed = TRUE] EXCEPT !.failed = FALSE] = d
BY DEF ChangeRec, Same

\* A plan none of which failed is itself; one of which more fails was the same plan.
LEMMA UnfailedAre ==
  ASSUME NEW changes \in SUBSET ChangeRec
  PROVE  /\ (\A c \in changes : ~c.failed) => Unfailed(changes) = changes
         /\ \A k : Unfailed(Fail(changes, k)) = Unfailed(changes)
         /\ \A d \in Unfailed(changes) : \E c \in changes :
              Same(c, d) /\ d.take = c.take /\ d.apply = c.apply
         /\ \A c \in changes : \E d \in Unfailed(changes) :
              Same(c, d) /\ d.take = c.take /\ d.apply = c.apply
<1> DEFINE u(c) == [c EXCEPT !.failed = FALSE]
           f(c) == [c EXCEPT !.failed = TRUE]
<1>1. Unfailed(changes) = {u(c) : c \in changes}
  BY DEF Unfailed
<1>2. \A c \in changes : /\ Same(c, u(c)) /\ u(c).take = c.take /\ u(c).apply = c.apply
                         /\ ~c.failed => u(c) = c
                         /\ u(f(c)) = u(c)
  BY UnfailedIs
<1>3. ASSUME NEW k PROVE Unfailed(Fail(changes, k)) = Unfailed(changes)
  <2> DEFINE w(c) == IF c.key = k THEN f(c) ELSE c
  <2>1. Fail(changes, k) = {w(c) : c \in changes}
    BY DEF Fail
  <2>2. Unfailed(Fail(changes, k)) = {u(c) : c \in Fail(changes, k)}
    BY DEF Unfailed
  <2>3. \A c \in changes : u(w(c)) = u(c)
    BY <1>2
  <2> HIDE DEF u, f, w
  <2> QED
    BY <1>1, <2>1, <2>2, <2>3
<1> HIDE DEF u, f
<1>4. (\A c \in changes : ~c.failed) => Unfailed(changes) = changes
  BY <1>1, <1>2
<1> QED
  BY <1>1, <1>2, <1>3, <1>4

\* Its shape is that of the plan.
LEMMA UnfailedShaped ==
  ASSUME NEW config, NEW bs, NEW t, NEW changes \in SUBSET ChangeRec,
         Shaped(config, bs, t, changes)
  PROVE  Shaped(config, bs, t, Unfailed(changes))
<1> DEFINE g == [c \in changes |-> [c EXCEPT !.failed = FALSE]]
<1>1. Alters(changes, g)
  BY UnfailedIs DEF Alters
<1>2. Unfailed(changes) = {g[c] : c \in changes}
  BY DEF Unfailed
<1> HIDE DEF g
<1> QED
  BY <1>1, <1>2, AlteredShaped

\* Of a plan that failed in part: its entries.
LEMMA FailedKeysIs ==
  ASSUME NEW rl, NEW q, NEW k, rl.changes \in SUBSET ChangeRec, q.changes = Fail(rl.changes, k),
         \E c \in rl.changes : c.key = k
  PROVE  FailedKeys(q) = FailedKeys(rl) \cup {k}
<1> DEFINE f(c) == [c EXCEPT !.failed = TRUE]
           w(c) == IF c.key = k THEN f(c) ELSE c
<1>1. q.changes = {w(c) : c \in rl.changes}
  BY DEF Fail
<1>2. \A c \in rl.changes : f(c).failed /\ f(c).key = c.key
  BY DEF ChangeRec
<1> HIDE DEF f
<1>3. \A c \in rl.changes : w(c).key = c.key /\ (w(c).failed <=> c.failed \/ c.key = k)
  BY <1>2 DEF ChangeRec
<1> HIDE DEF w
<1>4. FailedKeys(rl) = {c.key : c \in {d \in rl.changes : d.failed}}
  BY DEF FailedKeys
<1>5. FailedKeys(q) = {c.key : c \in {d \in q.changes : d.failed}}
  BY DEF FailedKeys
<1>6. ASSUME NEW x \in FailedKeys(q) PROVE x \in FailedKeys(rl) \cup {k}
  BY <1>1, <1>3, <1>4, <1>5
<1>7. ASSUME NEW x \in FailedKeys(rl) \cup {k} PROVE x \in FailedKeys(q)
  <2>1. PICK c \in rl.changes : c.key = x /\ (c.failed \/ c.key = k)
    BY <1>4
  <2>2. w(c) \in q.changes /\ w(c).failed /\ w(c).key = x
    BY <1>1, <1>3, <2>1
  <2> QED
    BY <1>5, <2>2
<1> QED
  BY <1>6, <1>7

\* The base that a plan carried out leaves.
LEMMA CarriedOutIs ==
  ASSUME NEW rl, rl.changes \in SUBSET ChangeRec, rl.config \in Entries
  PROVE  BaseLeft(PlanOf(rl), FailedKeys(rl), CarriedOut(rl))
<1> SUFFICES ASSUME NEW k \in In(rl.config)
             PROVE  /\ k \notin FailedKeys(rl) => CarriedOut(rl)[k] \in {rl.config[k], Gone}
                    /\ k \in FailedKeys(rl) =>
                         \E c \in Unfailed(rl.changes) : c.key = k /\ CarriedOut(rl)[k] = c.was
  BY DEF BaseLeft, PlanOf
<1> DEFINE of == {c \in rl.changes : c.key = k}
           failed == {c \in of : c.failed}
           left == {c \in of : c.kind \in {"added", "written"} /\ ~c.apply}
<1>1. CarriedOut(rl)[k] = IF failed # {} THEN (CHOOSE c \in failed : TRUE).was
                          ELSE IF left # {} THEN Gone ELSE rl.config[k]
  BY DEF CarriedOut, In
<1>2. k \in FailedKeys(rl) <=> failed # {}
  BY DEF FailedKeys
<1>3. ASSUME failed # {}
      PROVE  \E c \in Unfailed(rl.changes) : c.key = k /\ CarriedOut(rl)[k] = c.was
  <2> DEFINE c == CHOOSE x \in failed : TRUE
  <2>1. c \in failed /\ CarriedOut(rl)[k] = c.was
    BY <1>1, <1>3
  <2> HIDE DEF c
  <2>2. c \in rl.changes /\ c.key = k
    BY <2>1
  <2>3. PICK d \in Unfailed(rl.changes) : Same(c, d)
    BY <2>2, UnfailedAre
  <2> QED
    BY <2>1, <2>2, <2>3 DEF Same
<1> HIDE DEF failed, left
<1> QED
  BY <1>1, <1>2, <1>3

\* What an undisturbed reload leaves: the merge, when nothing was picked by hand and
\* nothing failed; and of a plan made again what was left by choice and what failed.
DoneWell(rl, text, b, t) ==
  /\ ~rl.picked /\ FailedKeys(rl) = {} => MergedWell(rl.config, rl.base, rl.live, t)
  /\ \A c \in Plan(text, b, t) : c.key \in FailedKeys(rl) \/ LeftOut(rl.changes, c.key)
  /\ \A k \in FailedKeys(rl) : \E d \in Plan(text, b, t) : d.key = k

\* A reload that nothing disturbed: its plan is of what is here, and its steps leave
\* what it says.
CalmOf(rl, text, b, t, n) ==
  rl.calm =>
    /\ rl.config = text
    /\ rl.pc \in {"planned", "apply"} => /\ Of(PlanOf(rl), rl.base)
                                         /\ ~rl.picked => Plain(PlanOf(rl), rl.base)
    /\ rl.pc = "planned" => rl.live = t /\ \A c \in rl.changes : ~c.failed
    /\ rl.pc = "apply" => Under(PlanOf(rl), rl.steps, FailedKeys(rl), t, n)
    /\ rl.pc = "done" => DoneWell(rl, text, b, t)

CalmInv == CInv /\ \A r \in Reloads : CalmOf(reload[r], disk.text, base, tasks, nextId)

\* That after a step.
CalmNext == \A s \in Reloads : CalmOf(reload'[s], disk'.text, base', tasks', nextId')

\* What is disturbed is not calm.
LEMMA NotCalm ==
  ASSUME NEW rl, NEW text, NEW b, NEW t, NEW n
  PROVE  /\ CalmOf(NoReload, text, b, t, n)
         /\ rl \in ReloadRec => CalmOf(StirredReload(rl), text, b, t, n)
<1>1. CalmOf(NoReload, text, b, t, n)
  BY DEF CalmOf, NoReload
<1>2. ASSUME rl \in ReloadRec, rl.pc # "done" PROVE ~[rl EXCEPT !.calm = FALSE].calm
  BY <1>2 DEF ReloadRec
<1>3. rl \in ReloadRec => CalmOf(StirredReload(rl), text, b, t, n)
  BY <1>1, <1>2 DEF CalmOf, StirredReload
<1> QED
  BY <1>1, <1>3

\* A plan is of a config, a base and tasks as they are.
LEMMA PlanOfIs ==
  ASSUME NEW rl, ReloadOf(rl), rl \in ReloadRec, Shaped(rl.config, rl.base, rl.live, rl.changes)
  PROVE  Of(PlanOf(rl), rl.base)
<1>1. /\ PlanOf(rl).config = rl.config /\ PlanOf(rl).live = rl.live
      /\ PlanOf(rl).changes = Unfailed(rl.changes)
  BY DEF PlanOf
<1>2. /\ rl.config \in Entries /\ rl.base \in Entries /\ rl.live \in TaskFns /\ Spread(rl.live)
      /\ rl.changes \in SUBSET ChangeRec
  BY DEF ReloadOf, ReloadRec
<1>3. Shaped(rl.config, rl.base, rl.live, Unfailed(rl.changes))
  BY <1>2, UnfailedShaped
<1> QED
  BY <1>1, <1>2, <1>3 DEF Of

\* A plan fresh made is calm.
LEMMA PlanReloadCalm ==
  ASSUME CalmInv, NEW r \in Reloads, PlanReload(r)
  PROVE  CalmNext
<1> DEFINE cs == Plan(disk.text, base, tasks)
           rl == [NoReload EXCEPT !.pc = "planned", !.config = disk.text, !.base = base,
                                  !.live = tasks, !.changes = cs,
                                  !.calm = TRUE]
<1>1. /\ reload' = [reload EXCEPT ![r] = IF disk.loads THEN rl ELSE NoReload]
      /\ UNCHANGED <<disk, base, tasks, nextId>> /\ reload \in [Reloads -> ReloadRec]
      /\ disk.text \in Entries /\ base \in Entries /\ tasks \in TaskFns /\ Spread(tasks)
  BY TextSaid DEF PlanReload, CalmInv, CInv, Whole, ReloadsOf, Disk, BaseOf, TasksOf
<1>2. /\ rl.pc = "planned" /\ rl.config = disk.text /\ rl.base = base /\ rl.live = tasks
      /\ rl.changes = cs
  BY DEF NoReload
<1>3. /\ \A c \in cs : ChangeIs(disk.text, base, tasks, c)
      /\ Shaped(disk.text, base, tasks, cs)
  BY <1>1, PlanIs
<1> HIDE DEF rl, cs
<1>4. cs \in SUBSET ChangeRec /\ \A c \in cs : ~c.failed
  BY <1>3 DEF ChangeIs, Fits
<1>5. Unfailed(cs) = cs
  BY <1>4, UnfailedAre
<1>6. /\ PlanOf(rl).config = disk.text /\ PlanOf(rl).live = tasks /\ PlanOf(rl).changes = cs
  BY <1>2, <1>5 DEF PlanOf
<1>7. Of(PlanOf(rl), base) /\ Plain(PlanOf(rl), base)
  BY <1>1, <1>3, <1>6 DEF Of, Plain, ChangeIs
<1>8. CalmOf(rl, disk.text, base, tasks, nextId)
  BY <1>2, <1>4, <1>7 DEF CalmOf
<1>9. \A s \in Reloads : reload'[s] \in {rl, NoReload, reload[s]}
  BY <1>1
<1> QED
  BY <1>1, <1>8, <1>9, NotCalm DEF CalmInv, CalmNext

\* What is picked from it is of the same plan.
LEMMA ToggleCalm ==
  ASSUME CalmInv, NEW r \in Reloads, NEW c \in reload[r].changes, Toggle(r, c)
  PROVE  CalmNext
<1> DEFINE ap == ~c.apply \/ (c.take # {} /\ c.take # c.fields)
           S == IF ap THEN c.fields ELSE {}
           toggled == [c EXCEPT !.apply = ap, !.take = S]
           set == (reload[r].changes \ {c}) \cup {toggled}
           cs == CheckTheWay(reload[r].live, set)
           rl == [reload[r] EXCEPT !.changes = cs, !.picked = TRUE]
           g == [d \in reload[r].changes |-> IF d = c THEN toggled ELSE d]
<1>1. /\ reload[r] \in ReloadRec /\ reload[r].changes \in SUBSET ChangeRec
      /\ CalmOf(reload[r], disk.text, base, tasks, nextId)
      /\ reload \in [Reloads -> ReloadRec] /\ CInv
  BY Mine DEF CalmInv, CInv, Whole, ReloadsOf
<1>2. c \in ChangeRec /\ ap \in BOOLEAN /\ S \in SUBSET Fields
  BY <1>1 DEF ChangeRec
<1>3. reload[r].pc = "planned"
  BY DEF Toggle
<1>4. reload' = [reload EXCEPT ![r] = rl] /\ UNCHANGED <<disk, base, tasks, nextId>>
  BY DEF Toggle
<1> HIDE DEF ap, S
<1>5. Same(c, toggled) /\ toggled.failed = c.failed
  BY <1>2 DEF Same, ChangeRec
<1> HIDE DEF toggled
<1>6. \A d \in reload[r].changes : Same(d, g[d]) /\ g[d].failed = d.failed
  BY <1>1, <1>5 DEF Same
<1>7. set = {g[d] : d \in reload[r].changes}
  OBVIOUS
<1>8. set \in SUBSET ChangeRec /\ \A e \in set : \E d \in reload[r].changes : e.failed = d.failed
  BY <1>6, <1>7 DEF Same
<1> HIDE DEF set, g
<1>9. \A d \in cs : \E e \in set : Like(e, d)
  <2>1. PICK w : CheckTheWay(reload[r].live, set) = {w[e] : e \in set} /\ \A e \in set : Like(e, w[e])
    BY <1>8, WayIs
  <2> QED
    BY <2>1
<1>10. ReloadOf(rl) /\ rl \in ReloadRec
  <2>1. WholeNext
    BY <1>1, ToggleKeeps
  <2>2. reload'[r] = rl
    BY <1>1, <1>4
  <2> HIDE DEF rl
  <2> QED
    BY <2>1, <2>2 DEF WholeNext, Whole, ReloadsOf
<1>11. cs = CheckTheWay(reload[r].live, set)
  BY DEF cs
<1> HIDE DEF cs
<1>12. /\ rl.pc = "planned" /\ rl.config = reload[r].config /\ rl.calm = reload[r].calm
       /\ rl.base = reload[r].base /\ rl.live = reload[r].live /\ rl.changes = cs /\ rl.picked
  BY <1>1, <1>3 DEF ReloadRec
<1> HIDE DEF rl
<1>13. CalmOf(rl, disk.text, base, tasks, nextId)
  <2> SUFFICES ASSUME reload[r].calm
               PROVE  /\ rl.config = disk.text /\ rl.live = tasks
                      /\ Of(PlanOf(rl), rl.base)
                      /\ \A d \in cs : ~d.failed
    BY <1>12 DEF CalmOf
  <2>1. /\ reload[r].config = disk.text /\ reload[r].live = tasks
        /\ Of(PlanOf(reload[r]), reload[r].base) /\ \A d \in reload[r].changes : ~d.failed
    BY <1>1, <1>3 DEF CalmOf
  <2>2. \A d \in cs : ~d.failed
    BY <1>8, <1>9, <2>1 DEF Like
  <2>3. Unfailed(reload[r].changes) = reload[r].changes
    BY <1>1, <2>1, UnfailedAre
  <2>4. Shaped(reload[r].config, reload[r].base, reload[r].live, reload[r].changes)
    BY <2>1, <2>3 DEF Of, PlanOf
  <2>5. Shaped(reload[r].config, reload[r].base, reload[r].live, set)
    <3>1. Alters(reload[r].changes, g)
      BY <1>6 DEF Alters
    <3> QED
      BY <1>7, <2>4, <3>1, AlteredShaped
  <2>6. Shaped(reload[r].config, reload[r].base, reload[r].live, cs)
    BY <1>8, <1>11, <2>5, WayShaped
  <2> QED
    BY <1>10, <1>12, <2>1, <2>2, <2>6, PlanOfIs
<1>14. \A s \in Reloads : reload'[s] = IF s = r THEN rl ELSE reload[s]
  BY <1>1, <1>4
<1> QED
  BY <1>4, <1>13, <1>14 DEF CalmInv, CalmNext

\* A plan undisturbed until it is carried out has the steps that are due.
LEMMA BeginApplyCalm ==
  ASSUME CalmInv, NEW r \in Reloads, BeginApply(r)
  PROVE  CalmNext
<1> DEFINE rl == reload[r]
           S == Steps(rl, tasks)
           q == [rl EXCEPT !.pc = "apply", !.steps = S]
<1>1. /\ reload \in [Reloads -> ReloadRec] /\ UNCHANGED <<disk, base, tasks, nextId>>
      /\ reload' = [reload EXCEPT ![r] = q] /\ rl \in ReloadRec /\ rl.pc = "planned"
      /\ CalmOf(rl, disk.text, base, tasks, nextId) /\ TasksOf(tasks, nextId)
  BY DEF BeginApply, CalmInv, CInv, Whole, ReloadsOf
<1> HIDE DEF S
<1>2. /\ q.pc = "apply" /\ q.steps = S /\ q.config = rl.config /\ q.base = rl.base
      /\ q.live = rl.live /\ q.changes = rl.changes /\ q.calm = rl.calm /\ q.picked = rl.picked
  BY <1>1 DEF ReloadRec
<1> HIDE DEF q
<1>3. CalmOf(q, disk.text, base, tasks, nextId)
  <2> SUFFICES ASSUME rl.calm
               PROVE  /\ rl.config = disk.text
                      /\ Of(PlanOf(q), q.base) /\ (~q.picked => Plain(PlanOf(q), q.base))
                      /\ Under(PlanOf(q), S, FailedKeys(q), tasks, nextId)
    BY <1>2 DEF CalmOf
  <2>1. /\ rl.config = disk.text /\ rl.live = tasks /\ \A c \in rl.changes : ~c.failed
        /\ Of(PlanOf(rl), rl.base) /\ (~rl.picked => Plain(PlanOf(rl), rl.base))
    BY <1>1 DEF CalmOf
  <2>2. PlanOf(q) = PlanOf(rl)
    BY <1>2 DEF PlanOf
  <2>3. FailedKeys(q) = {}
    BY <1>2, <2>1 DEF FailedKeys
  <2>4. rl.changes \in SUBSET ChangeRec
    BY <1>1 DEF ReloadRec
  <2>5. Unfailed(rl.changes) = rl.changes
    BY <2>1, <2>4, UnfailedAre
  <2> DEFINE P == PlanOf(rl)
  <2>6. P.config = rl.config /\ P.live = rl.live /\ P.changes = rl.changes
    BY <2>5 DEF PlanOf
  <2> HIDE DEF P
  <2>7. /\ \A st \in S : \/ Adopting(rl, st) \/ Removing(rl, st) \/ Writing(rl, st)
                         \/ Adding(rl, st) \/ Updating(rl, rl.live, st)
        /\ \A st : \/ Adopting(rl, st) \/ Removing(rl, st) \/ Writing(rl, st)
                   \/ Updating(rl, rl.live, st)
                   => st \in S
    BY <2>1, StepsAre DEF S
  <2>8. Of(rl, rl.base)
    BY <2>1, <2>6 DEF Of, P
  <2>9. \A st : Adding(rl, st) => st \in S
    BY <2>1, <2>8, AddingDue DEF S
  <2>10. ASSUME NEW st
         PROVE  /\ Adopting(P, st) <=> Adopting(rl, st)
                /\ Removing(P, st) <=> Removing(rl, st)
                /\ Writing(P, st) <=> Writing(rl, st)
                /\ Adding(P, st) <=> Adding(rl, st)
                /\ Updating(P, P.live, st) <=> Updating(rl, rl.live, st)
    <3>1. \A c : Merged(P, P.live, c) = Merged(rl, rl.live, c)
      BY <2>6 DEF Merged
    <3>2. Adopting(P, st) <=> Adopting(rl, st)
      BY <2>6 DEF Adopting
    <3>3. Removing(P, st) <=> Removing(rl, st)
      BY <2>6 DEF Removing
    <3>4. Writing(P, st) <=> Writing(rl, st)
      BY <2>6 DEF Writing
    <3>5. Adding(P, st) <=> Adding(rl, st)
      BY <2>6 DEF Adding
    <3>6. Updating(P, P.live, st) <=> Updating(rl, rl.live, st)
      BY <2>6, <3>1 DEF Updating
    <3> QED
      BY <3>2, <3>3, <3>4, <3>5, <3>6
  <2>11. \A st : (Due(P, st) \/ Adding(P, st)) <=> st \in S
    BY <2>7, <2>9, <2>10 DEF Due
  <2>12. Made(P.live, nextId) /\ \A i \in Here(P.live) : Follows(P, S, {}, tasks, i)
    BY <1>1, <2>1, <2>6 DEF TasksOf, Follows, Here
  <2>13. Under(P, S, {}, tasks, nextId)
    BY <2>1, <2>6, <2>11, <2>12 DEF Under, Over
  <2> QED
    BY <1>2, <2>1, <2>2, <2>3, <2>13 DEF P
<1>4. \A s \in Reloads : reload'[s] = IF s = r THEN q ELSE reload[s]
  BY <1>1
<1> QED
  BY <1>1, <1>3, <1>4 DEF CalmInv, CalmNext

\* A step carried out is one less to do; one that is refused fails its entry.
LEMMA RunStepCalm ==
  ASSUME CalmInv, NEW r \in Reloads, RunStep(r)
  PROVE  CalmNext
<1> DEFINE rl == reload[r]
           F == FailedKeys(rl)
           P == PlanOf(rl)
<1>1. /\ reload \in [Reloads -> ReloadRec] /\ rl \in ReloadRec /\ rl.pc = "apply" /\ ReloadOf(rl)
      /\ CalmOf(rl, disk.text, base, tasks, nextId) /\ TasksOf(tasks, nextId)
      /\ rl.steps \in SUBSET StepRec /\ rl.changes \in SUBSET ChangeRec
      /\ UNCHANGED <<disk, base>>
  BY Mine DEF RunStep, CalmInv, CInv, Whole, ReloadsOf
<1>2. PICK st \in rl.steps :
         LET left == [reload EXCEPT ![r].steps = @ \ {st}]
         IN \/ /\ st.key \in F /\ reload' = left /\ UNCHANGED <<tasks, nextId>>
            \/ st.key \notin F /\ Done(st) /\ reload' = StirredBut(left, r)
            \/ /\ Refused(st)
               /\ reload' = [left EXCEPT ![r].changes = Fail(@, st.key)]
  BY DEF RunStep, Ready
<1> DEFINE q == [rl EXCEPT !.steps = @ \ {st}]
           left == [reload EXCEPT ![r] = q]
           fl == [q EXCEPT !.changes = Fail(q.changes, st.key)]
<1>3. st \in StepRec /\ StepOf(st)
  BY <1>1 DEF ReloadOf
<1>4. /\ q \in ReloadRec /\ q.pc = "apply" /\ q.config = rl.config /\ q.base = rl.base
      /\ q.live = rl.live /\ q.changes = rl.changes /\ q.steps = rl.steps \ {st}
      /\ q.calm = rl.calm /\ q.picked = rl.picked
  BY <1>1 DEF ReloadRec
<1>5. [reload EXCEPT ![r].steps = @ \ {st}] = left
  OBVIOUS
<1> HIDE DEF q
<1>6. /\ left \in [Reloads -> ReloadRec] /\ left[r] = q
      /\ \A s \in Reloads \ {r} : left[s] = reload[s]
  BY <1>1, <1>4
<1>7. FailedKeys(q) = F /\ PlanOf(q) = P
  BY <1>4 DEF FailedKeys, PlanOf
<1>8. rl.calm => /\ rl.config = disk.text /\ Of(P, rl.base)
                 /\ ~rl.picked => Plain(P, rl.base)
                 /\ Under(P, rl.steps, F, tasks, nextId)
  BY <1>1 DEF CalmOf
<1> HIDE DEF F, P
<1>9. CASE st.key \in F /\ reload' = left /\ UNCHANGED <<tasks, nextId>>
  <2>1. rl.calm => Under(P, rl.steps \ {st}, F, tasks, nextId)
    BY <1>8, <1>9, UnderSkipped
  <2>2. CalmOf(q, disk.text, base, tasks, nextId)
    BY <1>4, <1>7, <1>8, <2>1 DEF CalmOf
  <2> QED
    BY <1>1, <1>6, <1>9, <2>2 DEF CalmInv, CalmNext
<1>10. CASE st.key \notin F /\ Done(st) /\ reload' = StirredBut(left, r)
  <2>1. reload'[r] = q /\ \A s \in Reloads \ {r} : reload'[s] = StirredReload(reload[s])
    BY <1>6, <1>10 DEF StirredBut
  <2>2. rl.calm => Under(P, rl.steps \ {st}, F, tasks', nextId')
    BY <1>1, <1>3, <1>8, <1>10, UnderOn
  <2>3. CalmOf(q, disk.text, base, tasks', nextId')
    BY <1>4, <1>7, <1>8, <2>2 DEF CalmOf
  <2>4. \A s \in Reloads \ {r} : CalmOf(StirredReload(reload[s]), disk.text, base, tasks', nextId')
    BY <1>1, NotCalm
  <2> QED
    BY <1>1, <2>1, <2>3, <2>4 DEF CalmNext
<1>11. CASE Refused(st) /\ reload' = [left EXCEPT ![r].changes = Fail(@, st.key)]
  <2>1. reload'[r] = fl /\ \A s \in Reloads \ {r} : reload'[s] = reload[s]
    BY <1>6, <1>11
  <2>2. UNCHANGED <<tasks, nextId>> /\ st.act \in {"add", "update"}
    BY <1>11 DEF Refused
  <2>3. /\ fl.pc = "apply" /\ fl.config = rl.config /\ fl.base = rl.base /\ fl.live = rl.live
        /\ fl.changes = Fail(rl.changes, st.key) /\ fl.steps = rl.steps \ {st}
        /\ fl.calm = rl.calm /\ fl.picked = rl.picked
    BY <1>4 DEF ReloadRec
  <2> HIDE DEF fl
  <2>4. CalmOf(fl, disk.text, base, tasks, nextId)
    <3> SUFFICES ASSUME rl.calm
                 PROVE  /\ PlanOf(fl) = P
                        /\ Under(P, rl.steps \ {st}, FailedKeys(fl), tasks, nextId)
      BY <1>8, <2>3 DEF CalmOf
    <3>1. PlanOf(fl) = P
      BY <1>1, <2>3, UnfailedAre DEF PlanOf, P
    <3>2. /\ Under(P, rl.steps \ {st}, F \cup {st.key}, tasks, nextId)
          /\ Adding(P, st) \/ Updating(P, P.live, st)
      BY <1>8, <2>2, UnderRefused
    <3>3. \E c \in P.changes : c.key = st.key
      BY <1>8, <3>2, AddingIs, UpdatingIs
    <3>4. \E c \in rl.changes : c.key = st.key
      <4>1. PICK d \in Unfailed(rl.changes) : d.key = st.key
        BY <3>3 DEF P, PlanOf
      <4>2. PICK c \in rl.changes : Same(c, d)
        BY <1>1, UnfailedAre
      <4> QED
        BY <4>1, <4>2 DEF Same
    <3>5. FailedKeys(fl) = F \cup {st.key}
      BY <1>1, <2>3, <3>4, FailedKeysIs DEF F
    <3> QED
      BY <3>1, <3>2, <3>5
  <2> QED
    BY <1>1, <2>1, <2>2, <2>4 DEF CalmInv, CalmNext
<1> QED
  BY <1>2, <1>5, <1>9, <1>10, <1>11

\* A plan with no steps left is done well.
LEMMA FinishApplyCalm ==
  ASSUME CalmInv, NEW r \in Reloads, FinishApply(r)
  PROVE  CalmNext
<1> DEFINE rl == reload[r]
           q == [rl EXCEPT !.pc = "done"]
           F == FailedKeys(rl)
           P == PlanOf(rl)
           b == CarriedOut(rl)
<1>1. /\ reload \in [Reloads -> ReloadRec] /\ rl \in ReloadRec /\ rl.pc = "apply" /\ rl.steps = {}
      /\ CalmOf(rl, disk.text, base, tasks, nextId) /\ ReloadOf(rl)
      /\ UNCHANGED <<disk, tasks, nextId>> /\ base' = b
      /\ rl.changes \in SUBSET ChangeRec /\ tasks \in TaskFns
  BY Mine DEF FinishApply, CalmInv, CInv, Whole, ReloadsOf, TasksOf
<1>2. b \in Entries
  <2>1. WholeNext
    BY FinishApplyKeeps DEF CalmInv
  <2> QED
    BY <1>1, <2>1 DEF WholeNext, Whole, BaseOf
<1>3. /\ q.pc = "done" /\ q.config = rl.config /\ q.base = rl.base /\ q.live = rl.live
      /\ q.changes = rl.changes /\ q.calm = rl.calm /\ q.picked = rl.picked
  BY <1>1 DEF ReloadRec
<1>4. reload'[r] = q /\ \A s \in Reloads \ {r} : reload'[s] = StirredReload(reload[s])
  BY <1>1 DEF FinishApply, StirredBut
<1> HIDE DEF q
<1>5. CalmOf(q, disk.text, b, tasks, nextId)
  <2> SUFFICES ASSUME rl.calm
               PROVE  rl.config = disk.text /\ DoneWell(q, disk.text, b, tasks)
    BY <1>3 DEF CalmOf
  <2>1. /\ rl.config = disk.text /\ Of(P, rl.base) /\ (~rl.picked => Plain(P, rl.base))
        /\ Under(P, {}, F, tasks, nextId)
    BY <1>1 DEF CalmOf
  <2>2. BaseLeft(P, F, b)
    <3>1. rl.config \in Entries
      BY <1>1 DEF ReloadRec
    <3> QED
      BY <1>1, <3>1, CarriedOutIs
  <2>3. /\ P.config = rl.config /\ P.live = rl.live /\ P.changes = Unfailed(rl.changes)
        /\ FailedKeys(q) = F
    BY <1>3 DEF PlanOf, FailedKeys
  <2> HIDE DEF P, F, b
  <2>4. ~q.picked /\ F = {} => MergedWell(q.config, q.base, q.live, tasks)
    <3> SUFFICES ASSUME ~q.picked, F = {} PROVE MergedWell(P.config, rl.base, P.live, tasks)
      BY <1>3, <2>3
    <3>1. Under(P, {}, {}, tasks, nextId) /\ Plain(P, rl.base)
      BY <1>3, <2>1
    <3> QED
      BY <2>1, <3>1, UnderMerges
  <2>5. ASSUME NEW c \in Plan(disk.text, b, tasks), c.key \notin F PROVE LeftOut(q.changes, c.key)
    <3>1. c \in Plan(P.config, b, tasks)
      BY <2>1, <2>3
    <3>2. LeftOut(P.changes, c.key)
      BY <1>1, <1>2, <2>1, <2>2, <2>5, <3>1, UnderLeaves
    <3>3. PICK d \in Unfailed(rl.changes) :
            d.key = c.key /\ d.kind \in {"added", "removed_here", "written"} /\ ~d.apply
      BY <2>3, <3>2 DEF LeftOut
    <3>4. PICK e \in rl.changes : Same(e, d) /\ d.apply = e.apply
      BY <1>1, UnfailedAre
    <3> QED
      BY <1>3, <3>3, <3>4 DEF LeftOut, Same
  <2>6. ASSUME NEW k \in F PROVE \E d \in Plan(disk.text, b, tasks) : d.key = k
    <3>1. \E d \in Plan(P.config, b, tasks) : d.key = k
      BY <1>1, <1>2, <2>1, <2>2, UnderOffers
    <3> QED
      BY <2>1, <2>3, <3>1
  <2> QED
    BY <2>1, <2>3, <2>4, <2>5, <2>6 DEF DoneWell
<1>6. \A s \in Reloads \ {r} : CalmOf(StirredReload(reload[s]), disk.text, b, tasks, nextId)
  BY <1>1, NotCalm
<1> HIDE DEF b
<1> QED
  BY <1>1, <1>4, <1>5, <1>6 DEF CalmNext

\* Whatever else is done leaves the file, the base, the tasks and the reloads as they
\* are, or disturbs them.
LEMMA NextCalm ==
  ASSUME CalmInv, Next
  PROVE  CalmNext
<1>0. reload \in [Reloads -> ReloadRec]
  BY DEF CalmInv, CInv, Whole, ReloadsOf
<1>1. CASE \E r \in Reloads : \/ PlanReload(r) \/ BeginApply(r) \/ RunStep(r) \/ FinishApply(r)
                              \/ \E c \in reload[r].changes : Toggle(r, c)
  BY <1>1, PlanReloadCalm, BeginApplyCalm, RunStepCalm, FinishApplyCalm, ToggleCalm
<1>2. CASE UNCHANGED <<disk, base, tasks, nextId, reload>>
  BY <1>2 DEF CalmInv, CalmNext
<1>3. CASE reload' = Stirred(reload)
  BY <1>0, <1>3, NotCalm DEF Stirred, CalmNext
<1>4. CASE reload' = [r \in Reloads |-> NoReload]
  BY <1>4, NotCalm DEF CalmNext
<1>5. CASE PlanWrite \/ ReadFile \/ WriteFile \/ CheckWrite \/ AskAgent \/ AgentEnds \/ ReadBack \/ Record
  BY <1>2, <1>3, <1>5
     DEF PlanWrite, ReadFile, WriteFile, CheckWrite, AskAgent, AgentEnds, ReadBack, Record
<1>6. CASE \E it \in wb.read : TakeEntry(it)
  BY <1>2, <1>3, <1>6 DEF TakeEntry
<1>7. CASE EditFile \/ LocalAdd \/ LocalUpdate \/ LocalMove \/ LocalRemove \/ LocalStart
  BY <1>3, <1>7
     DEF EditFile, LocalAdd, LocalUpdate, LocalMove, LocalRemove, LocalStart, Local, Stir
<1>8. CASE \E lost \in SUBSET Here(tasks) : Restart(lost)
  BY <1>4, <1>8 DEF Restart
<1> QED
  BY <1>1, <1>5, <1>6, <1>7, <1>8 DEF Next

\* It holds throughout.
LEMMA CalmInvariance == PSpec => []CalmInv
<1>1. PInit => CalmInv
  <2> SUFFICES ASSUME PInit PROVE CalmInv
    OBVIOUS
  <2>1. reload = [r \in Reloads |-> NoReload]
    BY DEF PInit, Init, Fresh
  <2> QED
    BY <2>1, InitCInv, NotCalm DEF CalmInv
<1>2. CalmInv /\ [PNext]_pvars => CalmInv'
  <2> SUFFICES ASSUME CalmInv, [PNext]_pvars PROVE CalmInv'
    OBVIOUS
  <2>1. CInv'
    BY NextCInv DEF CalmInv
  <2>2. CASE PNext
    <3>1. CalmNext
      BY <2>2, NextCalm DEF PNext
    <3> QED
      BY <2>1, <3>1 DEF CalmInv, CalmNext
  <2>3. CASE UNCHANGED pvars
    BY <2>1, <2>3 DEF CalmInv, pvars, vars
  <2> QED
    BY <2>2, <2>3
<1> QED
  BY <1>1, <1>2, PTL DEF PSpec

\* A reload that nothing disturbs, with nothing picked by hand and no failure, is the
\* three-way merge, for any config, base and tasks.
THEOREM ReloadMerges == PSpec => []Merges
<1>1. CalmInv => Merges
  <2> SUFFICES ASSUME CalmInv, NEW r \in Reloads,
                      reload[r].pc = "done", reload[r].calm, ~reload[r].picked,
                      FailedKeys(reload[r]) = {}
               PROVE  MergedWell(reload[r].config, reload[r].base, reload[r].live, tasks)
    BY DEF Merges, MergedWell
  <2> QED
    BY DEF CalmInv, CalmOf, DoneWell
<1> QED
  BY <1>1, CalmInvariance, PTL

\* A reload that nothing disturbs has said the last word on each entry, or leaves it to
\* the next: whatever of its plan is taken, and whatever of it fails.
THEOREM ReloadSettles == PSpec => []Settles
<1>1. CalmInv => Settles
  <2> SUFFICES ASSUME CalmInv, NEW r \in Reloads, reload[r].pc = "done", reload[r].calm
               PROVE  /\ \A c \in Plan(disk.text, base, tasks) :
                           \/ c.key \in FailedKeys(reload[r])
                           \/ \E d \in reload[r].changes :
                                /\ d.key = c.key /\ d.kind \in {"added", "removed_here", "written"}
                                /\ ~d.apply
                      /\ FailedKeys(reload[r]) \subseteq {d.key : d \in Plan(disk.text, base, tasks)}
    BY DEF Settles, NothingLeft, FailedOffered
  <2>1. DoneWell(reload[r], disk.text, base, tasks)
    BY DEF CalmInv, CalmOf
  <2> QED
    BY <2>1 DEF DoneWell, LeftOut
<1> QED
  BY <1>1, CalmInvariance, PTL

-----------------------------------------------------------------------------
(* What was written *)

\* What an item is, by its kind.
IsItem(config, bs, t, include, w) ==
  \/ /\ w.kind = "changed" /\ w.task \in Here(t) /\ t[w.task].origin \in In(config)
     /\ w = Item("changed", t[w.task].origin, w.task, t[w.task].path,
                 ChangedHere(config, bs, t[w.task]), t[w.task].spec)
     /\ w.fields # {} \/ w.entry # w.key
  \/ /\ w.kind = "added" /\ w.task \in Here(t) \cap include /\ t[w.task].origin = Gone
     /\ w = Item("added", t[w.task].path, w.task, t[w.task].path, Fields, t[w.task].spec)
  \/ /\ w.kind = "removed" /\ w.key \in In(config) /\ From(t, w.key) = {} /\ bs[w.key] # Gone
     /\ w = Item("removed", w.key, Gone, w.key, {}, Gone)

LEMMA ItemIs ==
  ASSUME NEW config, NEW bs, NEW t, NEW include, NEW w \in WriteItems(config, bs, t, include)
  PROVE  IsItem(config, bs, t, include, w)
<1> DEFINE ch(i) == Item("changed", t[i].origin, i, t[i].path, ChangedHere(config, bs, t[i]), t[i].spec)
           ad(i) == Item("added", t[i].path, i, t[i].path, Fields, t[i].spec)
           re(k) == Item("removed", k, Gone, k, {}, Gone)
<1>1. \/ /\ \E i \in {j \in Here(t) : t[j].origin \in In(config)} : w = ch(i)
         /\ w.fields # {} \/ w.entry # w.key
      \/ \E i \in {j \in Here(t) \cap include : t[j].origin = Gone} : w = ad(i)
      \/ \E k \in {e \in In(config) : From(t, e) = {} /\ bs[e] # Gone} : w = re(k)
  BY DEF WriteItems
<1>2. \A i : ch(i).kind = "changed" /\ ch(i).task = i
  BY DEF Item
<1>3. \A i : ad(i).kind = "added" /\ ad(i).task = i
  BY DEF Item
<1>4. \A k : re(k).kind = "removed" /\ re(k).key = k
  BY DEF Item
<1>5. CASE /\ \E i \in {j \in Here(t) : t[j].origin \in In(config)} : w = ch(i)
           /\ w.fields # {} \/ w.entry # w.key
  <2>1. PICK i \in {j \in Here(t) : t[j].origin \in In(config)} : w = ch(i)
    BY <1>5
  <2>2. w.kind = "changed" /\ w.task = i
    BY <1>2, <2>1
  <2> QED
    BY <1>5, <2>1, <2>2 DEF IsItem
<1>6. CASE \E i \in {j \in Here(t) \cap include : t[j].origin = Gone} : w = ad(i)
  <2>1. PICK i \in {j \in Here(t) \cap include : t[j].origin = Gone} : w = ad(i)
    BY <1>6
  <2>2. w.kind = "added" /\ w.task = i
    BY <1>3, <2>1
  <2> QED
    BY <2>1, <2>2 DEF IsItem
<1>7. CASE \E k \in {e \in In(config) : From(t, e) = {} /\ bs[e] # Gone} : w = re(k)
  <2>1. PICK k \in {e \in In(config) : From(t, e) = {} /\ bs[e] # Gone} : w = re(k)
    BY <1>7
  <2>2. w.kind = "removed" /\ w.key = k
    BY <1>4, <2>1
  <2> QED
    BY <2>1, <2>2 DEF IsItem
<1> QED
  BY <1>1, <1>5, <1>6, <1>7

\* An item is its task as it is here, or an entry that goes.
OfTask(t, it) ==
  IF it.kind = "removed" THEN it = Item("removed", it.key, Gone, it.key, {}, Gone)
  ELSE it.task \in Here(t) /\ it.entry = t[it.task].path /\ it.spec = t[it.task].spec

\* No task has two.
OneEach(items) == \A it, o \in items : it.task = o.task => it.task = Gone \/ it = o

\* They are that when they are planned.
LEMMA PlannedItems ==
  ASSUME NEW config, NEW bs, NEW t, NEW include
  PROVE  /\ \A it \in WriteItems(config, bs, t, include) : OfTask(t, it)
         /\ OneEach(WriteItems(config, bs, t, include))
<1> DEFINE W == WriteItems(config, bs, t, include)
<1>1. \A it \in W : IsItem(config, bs, t, include, it)
  BY ItemIs
<1> HIDE DEF W
<1>2. ASSUME NEW it \in W PROVE OfTask(t, it)
  BY <1>1 DEF IsItem, OfTask, Item
<1>3. ASSUME NEW it \in W, NEW o \in W, it.task = o.task, it.task # Gone PROVE it = o
  <2>1. IsItem(config, bs, t, include, it) /\ IsItem(config, bs, t, include, o)
    BY <1>1
  <2>2. it.kind # "removed" /\ o.kind # "removed"
    BY <1>3, <2>1 DEF IsItem, Item
  <2>3. Gone \notin In(config)
    BY ConfigAssumption DEF In
  <2> QED
    BY <1>3, <2>1, <2>2, <2>3 DEF IsItem
<1> QED
  BY <1>2, <1>3 DEF OneEach, W

\* Of items that read back no two have one entry: tasks have paths of their own, and
\* an entry is there or gone.
LEMMA EntriesApart ==
  ASSUME NEW text, NEW t, Spread(t), NEW items, OneEach(items),
         NEW it \in items, NEW o \in items, it.entry = o.entry,
         OfTask(t, it), OfTask(t, o), ReadsBack(text, it), ReadsBack(text, o)
  PROVE  it = o
<1>1. CASE it.kind = "removed" /\ o.kind = "removed"
  <2> DEFINE re(k) == Item("removed", k, Gone, k, {}, Gone)
  <2>1. \A k : re(k).entry = k
    BY DEF Item
  <2>2. it = re(it.key) /\ o = re(o.key)
    BY <1>1 DEF OfTask
  <2> HIDE DEF re
  <2>3. it.key = it.entry /\ o.key = o.entry
    BY <2>1, <2>2
  <2> QED
    BY <2>2, <2>3
<1>2. CASE it.kind # "removed" /\ o.kind # "removed"
  <2>1. it.task \in Here(t) /\ o.task \in Here(t) /\ t[it.task].path = t[o.task].path
    BY <1>2 DEF OfTask
  <2>2. it.task = o.task
    BY <2>1 DEF Spread
  <2>3. it.task # Gone
    BY <2>1, ConfigAssumption DEF Here, Ids
  <2> QED
    BY <2>2, <2>3 DEF OneEach
<1>3. CASE it.kind = "removed" /\ o.kind # "removed"
  BY <1>3 DEF ReadsBack
<1>4. CASE it.kind # "removed" /\ o.kind = "removed"
  BY <1>4 DEF ReadsBack
<1> QED
  BY <1>1, <1>2, <1>3, <1>4

\* A key that an item took is left by a later one.
LeftIn(w, it) ==
  \E m, n \in DOMAIN w.order :
    /\ m < n /\ w.order[m] = it /\ w.order[n] \in w.entries
    /\ w.order[n].key = it.entry /\ w.order[n].entry # it.entry

\* The base has what was written, but for what an agent's later item left, and of a
\* key left nothing but what was written there.
Behind(bs, w) ==
  \A it \in w.entries :
    /\ bs[it.entry] = it.spec \/ (w.agent /\ LeftIn(w, it))
    /\ bs[it.key] = Gone \/ \E o \in w.entries : o.entry = it.key /\ bs[it.key] = o.spec

\* What the writer edited left the keys its items were under.
Vacated(text, w) ==
  /\ w.pc = "agent" => w.agent
  /\ w.pc = "record" => \A it \in w.read \cup w.entries : it \notin w.failed
  /\ ~w.agent =>
       /\ w.pc = "read" => LeavesDone(w.new, w.order, w.failed)
       /\ w.pc \in {"check", "wrote", "record"} => LeavesDone(text, w.order, w.failed)

\* A write-back that nothing disturbs.
WrittenOf(text, bs, t, w) ==
  w.calm =>
    /\ \A it \in w.items : OfTask(t, it)
    /\ OneEach(w.items)
    /\ w.pc \notin {"record", "done"} => w.read = {} /\ w.entries = {}
    /\ \A it \in w.read \cup w.entries : ReadsBack(text, it)
    /\ \A it \in w.entries : it.task # Gone => t[it.task].origin = it.entry
    /\ Vacated(text, w)
    /\ w.pc = "done" => Behind(bs, w)

WrittenInv == CInv /\ WrittenOf(disk.text, base, tasks, wb)

\* Nothing is known of a write-back that was disturbed.
LEMMA WriteNotCalm ==
  ASSUME NEW text, NEW bs, NEW t
  PROVE  /\ WrittenOf(text, bs, t, NoWrite)
         /\ wb \in WriteRec => WrittenOf(text, bs, t, StirredWrite)
<1>1. ~NoWrite.calm
  BY DEF NoWrite
<1>2. ASSUME wb \in WriteRec, wb.pc # "done" PROVE ~[wb EXCEPT !.calm = FALSE].calm
  BY <1>2 DEF WriteRec
<1> QED
  BY <1>1, <1>2 DEF WrittenOf, StirredWrite

\* A write-back planned is of the tasks here.
LEMMA PlanWriteWritten ==
  ASSUME WrittenInv, PlanWrite
  PROVE  WrittenOf(disk'.text, base', tasks', wb')
<1>1. PICK include \in SUBSET {i \in Here(tasks) : tasks[i].origin = Gone} :
        \E chosen \in (SUBSET WriteItems(disk.text, base, tasks, include)) \ {{}} :
        \E order \in Listings(chosen) :
          wb' = [NoWrite EXCEPT !.pc = "planned", !.items = chosen, !.order = order, !.calm = TRUE]
  BY DEF PlanWrite
<1>7. PICK chosen \in (SUBSET WriteItems(disk.text, base, tasks, include)) \ {{}} :
        \E order \in Listings(chosen) :
          wb' = [NoWrite EXCEPT !.pc = "planned", !.items = chosen, !.order = order, !.calm = TRUE]
  BY <1>1
<1>2. PICK order \in Listings(chosen) :
        wb' = [NoWrite EXCEPT !.pc = "planned", !.items = chosen, !.order = order, !.calm = TRUE]
  BY <1>7
<1>3. \A it \in chosen : OfTask(tasks, it)
  BY PlannedItems
<1>4. OneEach(chosen)
  BY PlannedItems DEF OneEach
<1>5. wb'.pc = "planned" /\ wb'.items = chosen /\ wb'.read = {} /\ wb'.entries = {}
  BY <1>2 DEF NoWrite
<1>6. tasks' = tasks
  BY DEF PlanWrite
<1> QED
  BY <1>3, <1>4, <1>5, <1>6 DEF WrittenOf, Vacated

\* Until what was written is read back nothing of it is known.
LEMMA NotYetRead ==
  ASSUME NEW w, NEW q, NEW text, NEW bs, NEW t, NEW text2, NEW bs2,
         WrittenOf(text, bs, t, w), w.pc \notin {"record", "done"}, q.pc \notin {"record", "done"},
         q.calm = w.calm, q.items = w.items, q.read = w.read, q.entries = w.entries,
         w.calm => Vacated(text2, q)
  PROVE  WrittenOf(text2, bs2, t, q)
BY DEF WrittenOf

\* The file is edited, written and checked, or an agent asked, with the items planned.
LEMMA WritingVacates ==
  ASSUME WrittenInv, wb.calm, ReadFile \/ WriteFile \/ CheckWrite \/ AskAgent \/ AgentEnds
  PROVE  Vacated(disk'.text, wb')
<1>1. /\ wb \in WriteRec /\ WriteOf(wb) /\ wb.items \in SUBSET ItemRec
      /\ \A it \in wb.items : ItemOf(it)
      /\ disk.text \in Entries /\ disk \in Disk
  BY Ours DEF WrittenInv, CInv, Whole, Disk
<1>2. Vacated(disk.text, wb)
  BY DEF WrittenInv, WrittenOf
<1>3. CASE ReadFile
  <2> DEFINE N == Len(wb.order)
             done == EditAll(disk.text, wb.order)
             w1 == [wb EXCEPT !.pc = "wrote", !.failed = wb.items]
             w2 == [wb EXCEPT !.pc = "read", !.failed = done.failed, !.old = disk, !.new = done.text]
  <2>1. wb' = w1 \/ wb' = w2
    BY <1>3 DEF ReadFile
  <2>2. N \in Nat /\ wb.order \in [1 .. N -> wb.items] /\ wb.order \in Listings(wb.items)
    BY <1>1, Listed DEF WriteOf
  <2>3. wb.order \in [1 .. N -> ItemRec] /\ \A n \in 1 .. N : ItemOf(wb.order[n])
    BY <1>1, <2>2
  <2>4. LeavesDone(done.text, wb.order, done.failed)
    BY <1>1, <2>2, <2>3, EditAllLeaves
  <2> HIDE DEF done
  <2>5. /\ w1.pc = "wrote" /\ w1.order = wb.order /\ w1.failed = wb.items
        /\ w2.pc = "read" /\ w2.order = wb.order /\ w2.failed = done.failed /\ w2.new = done.text
    BY <1>1 DEF WriteRec
  <2>6. LeavesDone(disk'.text, wb.order, wb.items)
    BY <2>2 DEF LeavesDone
  <2> HIDE DEF w1, w2
  <2>7. Vacated(disk'.text, w1) /\ Vacated(disk'.text, w2)
    BY <2>4, <2>5, <2>6 DEF Vacated
  <2> QED
    BY <2>1, <2>7
<1>4. CASE WriteFile
  <2> DEFINE w == [wb EXCEPT !.pc = "check"]
  <2>1. wb' = w /\ wb.pc = "read" /\ disk' = [disk EXCEPT !.text = wb.new]
    BY <1>4 DEF WriteFile
  <2>2. disk'.text = wb.new
    BY <1>1, <2>1 DEF Disk
  <2>3. w.pc = "check" /\ w.order = wb.order /\ w.failed = wb.failed /\ w.agent = wb.agent
    BY <1>1 DEF WriteRec
  <2> HIDE DEF w
  <2>4. Vacated(wb.new, w)
    BY <1>2, <2>1, <2>3 DEF Vacated
  <2> QED
    BY <2>1, <2>2, <2>4
<1>5. CASE CheckWrite
  <2> DEFINE w1 == [wb EXCEPT !.pc = "wrote", !.old = Gone, !.new = Gone]
             w2 == [wb EXCEPT !.pc = "wrote", !.failed = wb.items, !.old = Gone, !.new = Gone]
  <2>1. wb.pc = "check" /\ ((wb' = w1 /\ disk' = disk) \/ wb' = w2)
    BY <1>5 DEF CheckWrite
  <2>2. /\ w1.pc = "wrote" /\ w1.order = wb.order /\ w1.failed = wb.failed /\ w1.agent = wb.agent
        /\ w2.pc = "wrote" /\ w2.order = wb.order /\ w2.failed = wb.items
    BY <1>1 DEF WriteRec
  <2>3. LeavesDone(disk'.text, wb.order, wb.items)
    BY <1>1, Listed DEF WriteOf, LeavesDone
  <2> HIDE DEF w1, w2
  <2>4. Vacated(disk.text, w1) /\ Vacated(disk'.text, w2)
    BY <1>2, <2>1, <2>2, <2>3 DEF Vacated
  <2> QED
    BY <2>1, <2>4
<1>6. CASE AskAgent
  <2> DEFINE w == [wb EXCEPT !.pc = "agent", !.agent = TRUE]
  <2>1. wb' = w
    BY <1>6 DEF AskAgent
  <2>2. w.pc = "agent" /\ w.agent
    BY <1>1 DEF WriteRec
  <2> HIDE DEF w
  <2>3. Vacated(disk'.text, w)
    BY <2>2 DEF Vacated
  <2> QED
    BY <2>1, <2>3
<1>7. CASE AgentEnds
  <2> DEFINE w == [wb EXCEPT !.pc = "wrote"]
  <2>1. wb' = w /\ wb.pc = "agent"
    BY <1>7 DEF AgentEnds
  <2>2. w.pc = "wrote" /\ w.agent = wb.agent
    BY <1>1 DEF WriteRec
  <2> HIDE DEF w
  <2>3. Vacated(disk'.text, w)
    BY <1>2, <2>1, <2>2 DEF Vacated
  <2> QED
    BY <2>1, <2>3
<1> QED
  BY <1>3, <1>4, <1>5, <1>6, <1>7

LEMMA WritingWritten ==
  ASSUME WrittenInv, ReadFile \/ WriteFile \/ CheckWrite \/ AskAgent \/ AgentEnds
  PROVE  WrittenOf(disk'.text, base', tasks', wb')
<1>1. wb \in WriteRec /\ wb.items \in SUBSET ItemRec
  BY Ours DEF WrittenInv
<1>2. /\ tasks' = tasks /\ wb.pc \in {"planned", "read", "check", "agent"}
      /\ wb'.pc \in {"read", "check", "wrote", "agent"} /\ wb'.calm = wb.calm /\ wb'.items = wb.items
      /\ wb'.read = wb.read /\ wb'.entries = wb.entries
  <2>1. CASE ReadFile
    <3> DEFINE done == EditAll(disk.text, wb.order)
    <3>1. \/ wb' = [wb EXCEPT !.pc = "read", !.failed = done.failed, !.old = disk, !.new = done.text]
          \/ wb' = [wb EXCEPT !.pc = "wrote", !.failed = wb.items]
      BY <2>1 DEF ReadFile
    <3>2. tasks' = tasks /\ wb.pc = "planned"
      BY <2>1 DEF ReadFile
    <3> HIDE DEF done
    <3> QED
      BY <1>1, <3>1, <3>2 DEF WriteRec
  <2>2. CASE WriteFile
    BY <1>1, <2>2 DEF WriteFile, WriteRec
  <2>3. CASE CheckWrite
    BY <1>1, <2>3 DEF CheckWrite, WriteRec
  <2>4. CASE AskAgent
    BY <1>1, <2>4 DEF AskAgent, WriteRec
  <2>5. CASE AgentEnds
    BY <1>1, <2>5 DEF AgentEnds, WriteRec
  <2> QED
    BY <2>1, <2>2, <2>3, <2>4, <2>5
<1> DEFINE q == wb'
<1>3. WrittenOf(disk.text, base, tasks, wb)
  BY DEF WrittenInv
<1>4. /\ wb.pc \notin {"record", "done"} /\ q.pc \notin {"record", "done"}
      /\ q.calm = wb.calm /\ q.items = wb.items /\ q.read = wb.read /\ q.entries = wb.entries
  BY <1>2
<1>5. wb.calm => Vacated(disk'.text, q)
  BY WritingVacates
<1> HIDE DEF q
<1>6. WrittenOf(disk'.text, base', tasks, q)
  BY <1>3, <1>4, <1>5, NotYetRead
<1> QED
  BY <1>2, <1>6 DEF q

\* What is left to be recorded reads back.
LEMMA ReadBackWritten ==
  ASSUME WrittenInv, ReadBack
  PROVE  WrittenOf(disk'.text, base', tasks', wb')
<1> DEFINE rd == {it \in wb.items : it.entry \notin {f.entry : f \in wb.failed} /\ ReadsBack(disk.text, it)}
           w1 == [wb EXCEPT !.pc = "done", !.failed = wb.items]
           w2 == [wb EXCEPT !.pc = "record", !.failed = wb.items \ rd, !.read = rd]
<1>1. wb \in WriteRec /\ wb.pc = "wrote" /\ WrittenOf(disk.text, base, tasks, wb)
  BY Ours DEF WrittenInv, ReadBack
<1>2. (wb' = w1 \/ wb' = w2) /\ UNCHANGED <<disk, base, tasks>>
  BY DEF ReadBack
<1>3. rd \subseteq wb.items /\ \A it \in rd : ReadsBack(disk.text, it) /\ it \notin wb.failed
  OBVIOUS
<1>6. ASSUME wb.calm, ~wb.agent PROVE LeavesDone(disk.text, wb.order, wb.items \ rd)
  <2>1. LeavesDone(disk.text, wb.order, wb.failed)
    BY <1>1, <1>6 DEF WrittenOf, Vacated
  <2>2. wb.order \in Listings(wb.items) /\ IsFiniteSet(wb.items)
    BY Ours DEF WrittenInv, WriteOf
  <2>3. \A n \in DOMAIN wb.order : wb.order[n] \in wb.items
    BY <2>2, Listed
  <2> HIDE DEF rd
  <2> QED
    BY <1>3, <2>1, <2>3 DEF LeavesDone
<1> HIDE DEF rd
<1>4. /\ w1.pc = "done" /\ w1.calm = wb.calm /\ w1.items = wb.items /\ w1.order = wb.order
      /\ w1.read = wb.read /\ w1.entries = wb.entries
      /\ w2.pc = "record" /\ w2.calm = wb.calm /\ w2.items = wb.items /\ w2.order = wb.order
      /\ w2.read = rd /\ w2.entries = wb.entries /\ w2.failed = wb.items \ rd /\ w2.agent = wb.agent
  BY <1>1 DEF WriteRec
<1> HIDE DEF w1, w2
<1>5. WrittenOf(disk.text, base, tasks, w1) /\ WrittenOf(disk.text, base, tasks, w2)
  BY <1>1, <1>3, <1>4, <1>6 DEF WrittenOf, Behind, Vacated
<1> QED
  BY <1>2, <1>5

\* What an item is of its task does not hang on the entry the task has.
LEMMA TakeEntryWritten ==
  ASSUME WrittenInv, NEW it \in wb.read, TakeEntry(it)
  PROVE  WrittenOf(disk'.text, base', tasks', wb')
<1> DEFINE w1 == [wb EXCEPT !.read = @ \ {it}]
           w2 == [wb EXCEPT !.read = @ \ {it}, !.entries = @ \cup {it}]
<1>1. /\ wb \in WriteRec /\ wb.pc = "record" /\ WrittenOf(disk.text, base, tasks, wb)
      /\ it \in wb.items /\ it \in ItemRec /\ tasks \in TaskFns
      /\ wb.items \in SUBSET ItemRec /\ wb.entries \subseteq wb.items
  BY Ours DEF WrittenInv, TakeEntry, CInv, Whole, TasksOf
<1>2. /\ \/ wb' = w1 /\ UNCHANGED tasks
         \/ /\ ~(it.task # Gone /\ tasks[it.task] = Gone)
            /\ tasks' = IF it.task = Gone THEN tasks ELSE [tasks EXCEPT ![it.task].origin = it.entry]
            /\ wb' = w2
      /\ UNCHANGED <<disk, base>>
  BY DEF TakeEntry
<1>3. /\ w1.pc = "record" /\ w1.calm = wb.calm /\ w1.items = wb.items /\ w1.order = wb.order
      /\ w1.read = wb.read \ {it} /\ w1.entries = wb.entries
      /\ w1.failed = wb.failed /\ w1.agent = wb.agent
      /\ w2.failed = wb.failed /\ w2.agent = wb.agent
      /\ w2.pc = "record" /\ w2.calm = wb.calm /\ w2.items = wb.items /\ w2.order = wb.order
      /\ w2.read = wb.read \ {it} /\ w2.entries = wb.entries \cup {it}
  BY <1>1 DEF WriteRec
<1> HIDE DEF w1, w2
<1>4. CASE wb' = w1 /\ UNCHANGED tasks
  BY <1>1, <1>2, <1>3, <1>4 DEF WrittenOf, Vacated
<1>5. CASE it.task = Gone /\ UNCHANGED tasks /\ wb' = w2
  BY <1>1, <1>2, <1>3, <1>5 DEF WrittenOf, Vacated
<1>6. CASE /\ it.task # Gone /\ tasks[it.task] # Gone /\ wb' = w2
           /\ tasks' = [tasks EXCEPT ![it.task].origin = it.entry]
  <2> DEFINE t == tasks'
             i == it.task
             x == [tasks[i] EXCEPT !.origin = it.entry]
  <2>1. i \in Ids /\ tasks[i] \in TaskRec /\ it.entry \in Keys
    BY <1>1, <1>6 DEF ItemRec, TaskFns
  <2>2. x \in TaskRec /\ x.path = tasks[i].path /\ x.spec = tasks[i].spec /\ x.origin = it.entry
    BY <2>1 DEF TaskRec
  <2>3. t = [tasks EXCEPT ![i] = x]
    BY <1>6
  <2>4. x # Gone
    BY <2>2, GoneIsNone
  <2> HIDE DEF t, x
  <2>5. t[i] = x /\ \A j \in Ids \ {i} : t[j] = tasks[j]
    BY <1>1, <2>1, <2>3 DEF TaskFns
  <2>6. \A j \in Here(tasks) : j \in Here(t) /\ t[j].path = tasks[j].path /\ t[j].spec = tasks[j].spec
    BY <2>2, <2>4, <2>5 DEF Here
  <2>7. \A o : OfTask(tasks, o) => OfTask(t, o)
    BY <2>6 DEF OfTask
  <2>8. ASSUME wb.calm, NEW o \in wb.entries \cup {it}, o.task # Gone PROVE t[o.task].origin = o.entry
    <3>1. CASE o.task = i
      <4>1. o = it
        BY <1>1, <2>8, <3>1 DEF WrittenOf, OneEach
      <4> QED
        BY <2>2, <2>5, <4>1
    <3>2. CASE o.task # i
      <4>1. o \in wb.entries /\ o.task \in Ids
        BY <1>1, <2>8, <3>2 DEF ItemRec
      <4>2. tasks[o.task].origin = o.entry
        BY <1>1, <2>8, <4>1 DEF WrittenOf
      <4> QED
        BY <2>5, <3>2, <4>1, <4>2
    <3> QED
      BY <3>1, <3>2
  <2>9. WrittenOf(disk.text, base, t, w2)
    BY <1>1, <1>3, <2>7, <2>8 DEF WrittenOf, Vacated
  <2> QED
    BY <1>2, <1>6, <2>9 DEF t
<1> QED
  BY <1>2, <1>4, <1>5, <1>6

\* No later item of the writer's leaves what one that reads back took.
LEMMA NoneLeft ==
  ASSUME NEW text, NEW t, Spread(t), NEW w, WriteOf(w), w.items \in SUBSET ItemRec,
         OneEach(w.items), \A o \in w.items : OfTask(t, o),
         \A o \in w.entries : ReadsBack(text, o) /\ o \notin w.failed,
         LeavesDone(text, w.order, w.failed), NEW it \in w.entries
  PROVE  ~LeftIn(w, it)
<1> SUFFICES ASSUME LeftIn(w, it) PROVE FALSE
  OBVIOUS
<1>1. /\ w.order \in Listings(w.items) /\ IsFiniteSet(w.items) /\ w.entries \subseteq w.items
      /\ \A o \in w.items : ItemOf(o)
  BY DEF WriteOf
<1>2. /\ DOMAIN w.order = 1 .. Len(w.order) /\ \A n \in DOMAIN w.order : w.order[n] \in w.items
      /\ \A m, n \in DOMAIN w.order : w.order[m] = w.order[n] => m = n
      /\ \A i, j \in DOMAIN w.order : i < j /\ w.order[i].kind = "removed" => w.order[j].kind = "removed"
  BY <1>1, Listed DEF Listings
<1>3. PICK p, n \in DOMAIN w.order :
        /\ p < n /\ w.order[p] = it /\ w.order[n] \in w.entries
        /\ w.order[n].key = it.entry /\ w.order[n].entry # it.entry
  BY DEF LeftIn
<1> DEFINE o == w.order[n]
<1>4. o \in w.items /\ o \in ItemRec /\ ItemOf(o) /\ OfTask(t, o) /\ o \notin w.failed
  BY <1>1, <1>3
<1>5. o.kind \in {"changed", "added", "removed"}
  BY <1>4 DEF ItemRec
<1>6. o.kind = "changed"
  BY <1>3, <1>4, <1>5 DEF ItemOf, OfTask, Item
<1>7. it.kind # "removed"
  BY <1>2, <1>3, <1>6
<1>8. text[it.entry] # Gone
  BY <1>7 DEF ReadsBack
<1>9. PICK m \in DOMAIN w.order : m > n /\ w.order[m].kind # "removed" /\ w.order[m].entry = it.entry
  BY <1>3, <1>4, <1>6, <1>8 DEF LeavesDone, Leaves
<1>10. /\ w.order[m] \in w.items /\ it \in w.items
       /\ OfTask(t, w.order[m]) /\ OfTask(t, it)
  BY <1>1, <1>2, <1>9
<1>11. /\ w.order[m].task \in Here(t) /\ it.task \in Here(t)
       /\ t[w.order[m].task].path = t[it.task].path
  BY <1>7, <1>9, <1>10 DEF OfTask
<1>12. w.order[m].task = it.task
  BY <1>11 DEF Spread
<1>13. it.task # Gone
  BY <1>11, ConfigAssumption DEF Here, Ids
<1>14. w.order[m] = it
  BY <1>10, <1>12, <1>13 DEF OneEach
<1>15. m = p
  BY <1>2, <1>3, <1>14
<1>16. m \in Nat /\ n \in Nat /\ p \in Nat
  BY <1>2
<1> QED
  BY <1>3, <1>9, <1>15, <1>16

\* What is recorded is what was written.
LEMMA RecordWritten ==
  ASSUME WrittenInv, Record
  PROVE  WrittenOf(disk'.text, base', tasks', wb')
<1> DEFINE b == Recorded(base, wb.order, wb.entries)
           w == [wb EXCEPT !.pc = "done"]
<1>1. /\ wb \in WriteRec /\ WrittenOf(disk.text, base, tasks, wb) /\ WriteOf(wb)
      /\ wb.items \in SUBSET ItemRec /\ wb.entries \subseteq wb.items
      /\ wb.order \in Listings(wb.items) /\ IsFiniteSet(wb.items)
      /\ tasks \in TaskFns /\ Spread(tasks)
  BY Ours DEF WrittenInv, CInv, Whole, TasksOf, WriteOf
<1>2. /\ w.pc = "done" /\ w.calm = wb.calm /\ w.items = wb.items /\ w.order = wb.order
      /\ w.read = wb.read /\ w.entries = wb.entries /\ w.agent = wb.agent
  BY <1>1 DEF WriteRec
<1>3. base' = b /\ wb' = w /\ wb.pc = "record" /\ UNCHANGED <<disk, tasks>>
  BY DEF Record
<1>5. /\ DOMAIN wb.order = 1 .. Len(wb.order)
      /\ \A m, n \in DOMAIN wb.order : wb.order[m] = wb.order[n] => m = n
      /\ \A it \in wb.items : \E n \in DOMAIN wb.order : wb.order[n] = it
  BY <1>1, Listed
<1>4. ASSUME wb.calm PROVE Behind(b, wb)
  <2>1. /\ OneEach(wb.items) /\ \A it \in wb.items : OfTask(tasks, it)
        /\ \A it \in wb.entries : ReadsBack(disk.text, it) /\ it \notin wb.failed
        /\ ~wb.agent => LeavesDone(disk.text, wb.order, wb.failed)
    BY <1>1, <1>3, <1>4 DEF WrittenOf, Vacated
  <2>2. ASSUME NEW it \in wb.entries
        PROVE  /\ b[it.entry] = it.spec \/ (wb.agent /\ LeftIn(wb, it))
               /\ b[it.key] = Gone \/ \E o \in wb.entries : o.entry = it.key /\ b[it.key] = o.spec
    <3>1. it.entry \in Keys /\ it.key \in Keys
      BY <1>1 DEF ItemRec
    <3>2. PICK p \in DOMAIN wb.order : wb.order[p] = it
      BY <1>1, <1>5
    <3>3. ~wb.agent => ~LeftIn(wb, it)
      BY <1>1, <2>1, NoneLeft
    <3> DEFINE saying(k) == Saying(wb.order, wb.entries, k)
               says(k, n) == /\ \A m \in saying(k) : m <= n
                             /\ b[k] = IF wb.order[n].entry = k THEN wb.order[n].spec ELSE Gone
    <3>4. /\ p \in saying(it.entry) /\ p \in saying(it.key)
      BY <3>2 DEF Saying
    <3>5. ASSUME NEW k \in Keys, saying(k) # {} PROVE \E n \in saying(k) : says(k, n)
      <4>1. wb.order \in Listings(wb.items) /\ IsFiniteSet(wb.items)
        BY <1>1
      <4>2. IF Saying(wb.order, wb.entries, k) = {} THEN Recorded(base, wb.order, wb.entries)[k] = base[k]
            ELSE \E n \in Saying(wb.order, wb.entries, k) :
                   /\ \A m \in Saying(wb.order, wb.entries, k) : m <= n
                   /\ Recorded(base, wb.order, wb.entries)[k] =
                        IF wb.order[n].entry = k THEN wb.order[n].spec ELSE Gone
        <5> HIDE DEF saying, says, b
        <5> QED
          BY <4>1, LastSays
      <4>3. \E n \in Saying(wb.order, wb.entries, k) : says(k, n)
        BY <3>5, <4>2
      <4> QED
        BY <4>3
    <3>6. PICK n \in saying(it.entry) : says(it.entry, n)
      BY <3>1, <3>4, <3>5
    <3>7. PICK l \in saying(it.key) : says(it.key, l)
      BY <3>1, <3>4, <3>5
    <3>8. /\ n \in DOMAIN wb.order /\ wb.order[n] \in wb.entries
          /\ it.entry \in {wb.order[n].key, wb.order[n].entry}
      BY <3>6 DEF Saying
    <3>9. p <= n /\ b[it.entry] = IF wb.order[n].entry = it.entry THEN wb.order[n].spec ELSE Gone
      BY <3>4, <3>6
    <3>10. /\ wb.order[l] \in wb.entries
           /\ b[it.key] = IF wb.order[l].entry = it.key THEN wb.order[l].spec ELSE Gone
      BY <3>7 DEF Saying
    <3> HIDE DEF saying, says, b
    <3>11. CASE wb.order[n].entry = it.entry
      <4> DEFINE o == wb.order[n]
      <4>1. /\ OfTask(tasks, it) /\ OfTask(tasks, o) /\ o \in wb.items /\ it \in wb.items
            /\ ReadsBack(disk.text, it) /\ ReadsBack(disk.text, o)
        BY <1>1, <2>1, <3>8
      <4> HIDE DEF o
      <4>2. it.entry = o.entry
        BY <3>11 DEF o
      <4>3. it = o
        BY <1>1, <2>1, <4>1, <4>2, EntriesApart
      <4> QED
        BY <3>9, <3>10, <3>11, <4>3 DEF o
    <3>12. CASE wb.order[n].entry # it.entry
      <4>1. wb.order[n].key = it.entry
        BY <3>8, <3>12
      <4>2. p # n
        BY <3>2, <3>12
      <4>3. p < n
        BY <1>5, <3>8, <3>9, <4>2
      <4>4. LeftIn(wb, it)
        BY <3>2, <3>8, <3>12, <4>1, <4>3 DEF LeftIn
      <4> QED
        BY <3>3, <3>10, <4>4
    <3> QED
      BY <3>11, <3>12
  <2> QED
    BY <2>2 DEF Behind
<1> HIDE DEF b, w
<1>6. wb.calm => Behind(b, w)
  BY <1>2, <1>4 DEF Behind, LeftIn
<1> QED
  BY <1>1, <1>2, <1>3, <1>6 DEF WrittenOf, Vacated

\* Whatever else is done leaves the file, the base and the tasks as they are, or
\* disturbs it.
LEMMA NextWritten ==
  ASSUME WrittenInv, Next
  PROVE  WrittenOf(disk'.text, base', tasks', wb')
<1>0. wb \in WriteRec
  BY Ours DEF WrittenInv
<1>1. CASE UNCHANGED <<disk, base, tasks, wb>>
  BY <1>1 DEF WrittenInv
<1>2. CASE wb' = StirredWrite \/ wb' = NoWrite
  BY <1>0, <1>2, WriteNotCalm
<1>3. ASSUME NEW r \in Reloads,
             \/ PlanReload(r) \/ BeginApply(r) \/ RunStep(r) \/ FinishApply(r)
             \/ \E c \in reload[r].changes : Toggle(r, c)
      PROVE  UNCHANGED <<disk, base, tasks, wb>> \/ wb' = StirredWrite
  BY <1>3 DEF PlanReload, BeginApply, RunStep, FinishApply, Toggle, Refused
<1>4. CASE PlanWrite \/ ReadFile \/ WriteFile \/ CheckWrite \/ AskAgent \/ AgentEnds \/ ReadBack \/ Record
  BY <1>4, PlanWriteWritten, WritingWritten, ReadBackWritten, RecordWritten
<1>5. CASE \E it \in wb.read : TakeEntry(it)
  BY <1>5, TakeEntryWritten
<1>6. CASE EditFile \/ LocalAdd \/ LocalUpdate \/ LocalMove \/ LocalRemove \/ LocalStart
  BY <1>2, <1>6
     DEF EditFile, LocalAdd, LocalUpdate, LocalMove, LocalRemove, LocalStart, Local, Stir
<1>7. CASE \E lost \in SUBSET Here(tasks) : Restart(lost)
  BY <1>2, <1>7 DEF Restart
<1> QED
  BY <1>1, <1>2, <1>3, <1>4, <1>5, <1>6, <1>7 DEF Next

\* It holds throughout.
LEMMA WrittenInvariance == PSpec => []WrittenInv
<1>1. PInit => WrittenInv
  <2> SUFFICES ASSUME PInit PROVE WrittenInv
    OBVIOUS
  <2>1. wb = NoWrite
    BY DEF PInit, Init, Fresh
  <2> QED
    BY <2>1, InitCInv, WriteNotCalm DEF WrittenInv
<1>2. WrittenInv /\ [PNext]_pvars => WrittenInv'
  <2> SUFFICES ASSUME WrittenInv, [PNext]_pvars PROVE WrittenInv'
    OBVIOUS
  <2>1. CInv'
    BY NextCInv DEF WrittenInv
  <2>2. CASE PNext
    BY <2>1, <2>2, NextWritten DEF PNext, WrittenInv
  <2>3. CASE UNCHANGED pvars
    BY <2>1, <2>3 DEF WrittenInv, pvars, vars
  <2> QED
    BY <2>2, <2>3
<1> QED
  BY <1>1, <1>2, PTL DEF PSpec

\* Undisturbed, what a write-back wrote is behind both, whatever was written with it:
\* a reload has nothing to change there and the next write-back nothing to write
\* (write_back.rs written, read_back, record).
THEOREM WritesAreIn == PSpec => []WrittenIsIn
<1>1. WrittenInv => WrittenIsIn
  <2> SUFFICES ASSUME WrittenInv, wb.pc = "done", wb.calm,
                      NEW it \in wb.entries, Cardinality(From(tasks, it.entry)) <= 1
               PROVE  /\ it.task # Gone => tasks[it.task].origin = it.entry
                      /\ \A c \in Plan(disk.text, base, tasks) :
                           c.key = it.entry => c.fields \cap it.fields = {}
                      /\ ~(wb.agent /\ Left(it)) =>
                           /\ base[it.entry] = it.spec
                           /\ \A w \in WriteItems(disk.text, base, tasks, {}) :
                                w.key # it.entry /\ (w.key = it.key => w.task \notin {it.task, Gone})
    BY DEF WrittenIsIn
  <2> DEFINE text == disk.text
             e == it.entry
             i == it.task
  <2>1. /\ disk.text \in Entries /\ base \in Entries /\ tasks \in TaskFns
        /\ wb.entries \subseteq wb.items /\ it \in wb.items /\ it \in ItemRec /\ ItemOf(it)
        /\ wb.items \in SUBSET ItemRec
    BY Ours DEF WrittenInv, CInv, Whole, Disk, BaseOf, TasksOf
  <2>2. /\ \A o \in wb.entries : OfTask(tasks, o)
        /\ \A o \in wb.entries : ReadsBack(text, o)
        /\ \A o \in wb.entries : o.task # Gone => tasks[o.task].origin = o.entry
        /\ Behind(base, wb)
    <3>1. WrittenOf(disk.text, base, tasks, wb)
      BY DEF WrittenInv
    <3> QED
      BY <2>1, <3>1 DEF WrittenOf
  <2>3. /\ ~(wb.agent /\ Left(it)) => base[e] = it.spec
        /\ base[it.key] = Gone \/ \E o \in wb.entries : o.entry = it.key /\ base[it.key] = o.spec
    BY <2>2 DEF Behind, LeftIn, Left
  <2>4. CASE it.kind = "removed"
    <3>1. i = Gone /\ it.key = e /\ it.fields = {} /\ it.spec = Gone
      BY <2>2, <2>4 DEF OfTask, Item
    <3>2. text[e] = Gone
      BY <2>2, <2>4 DEF ReadsBack
    <3>4. \A f \in it.fields : FALSE
      BY <3>1
    <3>3. ASSUME ~(wb.agent /\ Left(it)), NEW w \in WriteItems(disk.text, base, tasks, {})
          PROVE  w.key # e
      <4>1. IsItem(disk.text, base, tasks, {}, w)
        BY ItemIs
      <4> QED
        BY <3>2, <4>1 DEF IsItem, Item, In
    <3> QED
      BY <2>3, <3>1, <3>3, <3>4
  <2>5. CASE it.kind # "removed"
    <3>1. /\ i \in Here(tasks) /\ e = tasks[i].path /\ it.spec = tasks[i].spec
          /\ text[e] # Gone /\ Changed(text[e], it.spec) \cap it.fields = {}
      BY <2>2, <2>5 DEF OfTask, ReadsBack
    <3>2. i # Gone /\ tasks[i].origin = e /\ i \in Ids /\ e \in Keys
      BY <2>1, <2>2, <3>1, ConfigAssumption DEF Here, Ids, ItemRec
    <3>3. From(tasks, e) = {i}
      <4>1. i \in From(tasks, e)
        BY <3>1, <3>2 DEF From
      <4>2. ASSUME NEW j \in From(tasks, e), j # i PROVE FALSE
        <5>1. Cardinality(From(tasks, e)) > 1
          BY <4>1, <4>2, MoreThanOne
        <5>2. Cardinality(From(tasks, e)) \in Nat
          <6>1. IsFiniteSet(Ids)
            BY ConfigAssumption, FS_Interval DEF Ids
          <6>2. IsFiniteSet(From(tasks, e))
            BY <6>1, FS_Subset DEF From, Here
          <6> QED
            BY <6>2, FS_CardinalityType
        <5> QED
          BY <5>1, <5>2
      <4> QED
        BY <4>1, <4>2
    <3>4. ASSUME NEW c \in Plan(disk.text, base, tasks), c.key = e PROVE c.fields \cap it.fields = {}
      <4>1. ChangeIs(disk.text, base, tasks, c)
        BY <2>1, PlanIs
      <4>2. CASE c.kind = "changed"
        <5>1. TaskOf(disk.text, tasks, e) = i
          <6>1. LET j == TaskOf(disk.text, tasks, e)
                IN j \in From(tasks, e) \/ From(tasks, e) = {}
            BY TaskOfIs
          <6> QED
            BY <3>3, <6>1
        <5>2. c.fields = Offered(WasOf(disk.text, base, tasks, i, e), tasks[i].spec, disk.text[e])
          BY <3>4, <4>1, <4>2, <5>1 DEF ChangeIs, Fits, IsChanged
        <5>3. c.fields \subseteq Changed(text[e], it.spec)
          BY <3>1, <5>2 DEF Offered, Changed
        <5> QED
          BY <3>1, <5>3
      <4>3. CASE c.kind # "changed"
        BY <4>1, <4>3 DEF ChangeIs, Fits
      <4> QED
        BY <4>2, <4>3
    <3>5. ASSUME ~(wb.agent /\ Left(it)), NEW w \in WriteItems(disk.text, base, tasks, {})
          PROVE  w.key # e /\ (w.key = it.key => w.task # i /\ w.task # Gone)
      <4>1. IsItem(disk.text, base, tasks, {}, w)
        BY ItemIs
      <4>2. CASE w.kind = "changed"
        <5>1. /\ w.task \in Here(tasks) /\ w.key = tasks[w.task].origin /\ w.entry = tasks[w.task].path
              /\ w.fields = ChangedHere(disk.text, base, tasks[w.task])
              /\ w.fields # {} \/ w.entry # w.key
          BY <4>1, <4>2 DEF IsItem, Item
        <5>2. w.task # i
          <6>1. ASSUME w.task = i PROVE FALSE
            <7>1. w.key = e /\ w.entry = e
              BY <3>1, <3>2, <5>1, <6>1
            <7>2. it.spec # Gone
              BY <2>1, <2>5, ConfigAssumption DEF ItemOf, Specs
            <7>3. w.fields = {}
              BY <2>3, <3>1, <3>2, <3>5, <5>1, <6>1, <7>2 DEF ChangedHere
            <7> QED
              BY <5>1, <7>1, <7>3
          <6> QED
            BY <6>1
        <5>3. w.key # e
          <6>1. ASSUME w.key = e PROVE FALSE
            <7>1. w.task \in From(tasks, e)
              BY <5>1, <6>1 DEF From
            <7> QED
              BY <3>3, <5>2, <7>1
          <6> QED
            BY <6>1
        <5>4. w.task # Gone
          BY <5>1, ConfigAssumption DEF Here, Ids
        <5> QED
          BY <5>2, <5>3, <5>4
      <4>3. CASE w.kind = "removed"
        <5>1. w.key \in Keys /\ From(tasks, w.key) = {} /\ base[w.key] # Gone
          BY <4>1, <4>3 DEF IsItem, In
        <5>2. w.key # e
          BY <3>3, <5>1
        <5>3. ASSUME w.key = it.key PROVE FALSE
          <6>1. PICK o \in wb.entries : o.entry = it.key /\ base[it.key] = o.spec
            BY <2>3, <5>1, <5>3
          <6>2. base[o.entry] = o.spec
            BY <6>1
          <6>3. o.kind # "removed"
            BY <2>2, <5>1, <5>3, <6>1, <6>2 DEF OfTask, Item
          <6>4. o.task \in Here(tasks) /\ o.task # Gone
            BY <2>2, <6>3, ConfigAssumption DEF OfTask, Here, Ids
          <6>5. o.task \in From(tasks, it.key)
            BY <2>2, <6>1, <6>4 DEF From
          <6> QED
            BY <5>1, <5>3, <6>5
        <5> QED
          BY <5>2, <5>3
      <4>4. w.kind # "added"
        BY <4>1 DEF IsItem
      <4> QED
        BY <4>1, <4>2, <4>3, <4>4 DEF IsItem
    <3> QED
      BY <2>3, <3>2, <3>4, <3>5
  <2> QED
    BY <2>4, <2>5
<1> QED
  BY <1>1, WrittenInvariance, PTL
=============================================================================
