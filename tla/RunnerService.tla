---------------------------- MODULE RunnerService ----------------------------
(***************************************************************************)
(* What the files of a runtime directory are for, with none of them in it: *)
(* at most one runner has the directory at a time, and the tasks of its    *)
(* user are always in one place, the runner that has it or the saved file, *)
(* unless a runner dies with them or a save of theirs comes to nothing.    *)
(* Once the file by which a runner is known to be alive was taken from it, *)
(* nothing is promised any more.                                           *)
(***************************************************************************)
EXTENDS Naturals

CONSTANTS Runners, None, Disk, Lost

VARIABLES
  holder,   \* the runner that has the directory, or None
  tasks,    \* where the tasks are: a runner, Disk or Lost
  losses,   \* how many saves came to nothing
  swept     \* the liveness file was taken away

Init ==
  /\ holder \in Runners \cup {None}
  /\ tasks \in {holder, Disk, Lost} \ {None}
  /\ losses = 0
  /\ swept = FALSE

Take(r) == holder = None /\ holder' = r /\ UNCHANGED <<tasks, losses>>

Load(r) == holder = r /\ tasks = Disk /\ tasks' = r /\ UNCHANGED <<holder, losses>>

Save(r) == holder = r /\ tasks = r /\ tasks' = Disk /\ UNCHANGED <<holder, losses>>

\* The runner that has the directory cannot save the tasks, or cannot read what was saved.
Lose(r) ==
  /\ holder = r
  /\ tasks \in {r, Disk}
  /\ tasks' = Lost
  /\ losses' = losses + 1
  /\ UNCHANGED holder

Leave(r) == holder = r /\ tasks # r /\ holder' = None /\ UNCHANGED <<tasks, losses>>

Die(r) ==
  /\ holder = r
  /\ holder' = None
  /\ tasks' = (IF tasks = r THEN Lost ELSE tasks)
  /\ UNCHANGED losses

Next ==
  \/ swept'
  \/ /\ UNCHANGED swept
     /\ \E r \in Runners : Take(r) \/ Load(r) \/ Save(r) \/ Lose(r) \/ Leave(r) \/ Die(r)

Spec == Init /\ [][Next]_<<holder, tasks, losses, swept>>
=============================================================================
