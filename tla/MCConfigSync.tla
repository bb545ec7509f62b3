--------------------------- MODULE MCConfigSync ---------------------------
EXTENDS ConfigSyncProperties
CONSTANTS r1, r2, web, db, job, cmd, env, a, b, c
Plain == [f \in Fields |-> a]

\* One entry at first.
OneEntry == PInit /\ In(disk.text) = {web} /\ disk.text[web] = Plain

\* Two, whose tasks were moved: the second to a path of its own, and the first to
\* where the second was.  The file may say something else of the first by now.
Chain(one, two) ==
    LET at == web :> one @@ one :> two @@ two :> Gone
        was == [k \in Keys |-> IF k = two THEN Gone ELSE Plain]
        entry == web :> 1 @@ one :> 2
    IN /\ \E e \in Specs : disk = [text |-> [was EXCEPT ![web] = e], loads |-> TRUE]
       /\ base = was /\ said = SaysOf(was) \cup SaysOf(disk.text)
       /\ tasks = [i \in Ids |->
            IF \E k \in DOMAIN entry : entry[k] = i
            THEN LET k == CHOOSE o \in DOMAIN entry : entry[o] = i IN Task(at[k], k, Plain)
            ELSE Gone]
       /\ nextId = 3
       /\ syncing = Gone
       /\ reload = [r \in Reloads |-> NoReload]
       /\ wb = NoWrite
       /\ spent = [plans |-> 0, edits |-> MaxEdits, locals |-> 2, restarts |-> MaxRestarts]

\* What begins with one entry has a second key, db, and no third, and two of an edit,
\* a change by hand and a restart come between.
Known == In(disk.text) \cup In(base)
           \cup (UNION {{tasks[i].path, tasks[i].origin} : i \in Here(tasks)} \ {Gone})
Small == spent.edits + spent.locals + spent.restarts <= 2 /\ job \notin Known
OneOrChain == spent.locals = 2 \/ Small

MCInit == OneEntry \/ Chain(db, job)
Same == Permutations(Reloads) \cup Permutations({b, c})
MCSpec == MCInit /\ [][PNext]_pvars
===========================================================================
