-------------------------- MODULE FreezeProperties --------------------------
(***************************************************************************)
(* What the freeze promises: to an upgrade, to a quit, and to the messages *)
(* that arrive meanwhile.                                                  *)
(***************************************************************************)
EXTENDS Freeze

MsgOK(msg) ==
  \/ msg \in {<<"Quit", TRUE>>, <<"Quit", FALSE>>, <<"Thaw">>}
  \/ msg[1] \in {"Intent", "Freeze", "FreezeTimeout"} /\ msg[2] \in Nat
  \/ msg[1] = "Stopped" /\ msg[2] \in Task
  \/ msg[1] = "Frozen" /\ msg[2] \in Task /\ msg[3] \in 1 .. k.freezes

\* Types: each piece of state is of its kind.
TypeOK ==
  /\ \A i \in 1 .. Len(queue) : MsgOK(queue[i])
  /\ \A i \in 1 .. Len(k.replay) : k.replay[i][1] \in {"Quit", "Intent"}
  /\ k.frozen.number \in 0 .. k.freezes
  /\ k.active \subseteq Task /\ k.effects \subseteq dead
  /\ mode \in [Task -> 0 .. k.freezes]
  /\ alive \subseteq Task /\ dead \subseteq Mortal
  /\ upgrade \in {"none", "asked", "execed"}

\* What the loop handled, and after it what it will, in the order of both.
Pipeline ==
  [i \in 1 .. Len(k.applied) |-> <<"Intent", k.applied[i]>>]
    \o k.frozen.deferred \o k.replay \o queue

\* Until the runner quits, freezes and thaws lose no message, double none and
\* let none overtake another; during the quit they still lose and double none.
NothingLostOrOvertaken ==
  LET line == Pipeline
      intents == {i \in 1 .. Len(line) : line[i][1] = "Intent"}
  IN /\ \A n \in 1 .. sent.intents : \E i \in intents : line[i][2] = n
     /\ \A i \in intents : line[i][2] \in 1 .. sent.intents
     /\ \A i, j \in intents :
          i < j => IF k.quitting THEN line[i][2] # line[j][2] ELSE line[i][2] < line[j][2]

\* As long as an upgrade may exec, the kernel is frozen for it, every task
\* is frozen by that freeze (an answer to an earlier one does not count), and
\* the snapshot is what the tasks really are: every exit was reported first.
ExecFaithful ==
  (upgrade = "asked" /\ k.answers[sent.upgrades] = "ok") \/ upgrade = "execed" =>
    /\ IsFrozen(k)
    /\ \A t \in Task : mode[t] = k.frozen.number
    /\ k.snapshot = alive /\ k.active = alive

\* An upgrade that failed leaves no freeze behind.
Unfrozen == (upgrade = "none" /\ queue = <<>> /\ k.replay = <<>> /\ sent.quits = 0)
               => ~IsFrozen(k)

\* The kernel is frozen while an upgrade may exec, with every task, and no longer
\* (upgrade/mod.rs, freeze and thaw).
FrozenAsAsked == TypeOK /\ ExecFaithful /\ Unfrozen

\* A quit saves what the tasks are, all of them frozen by it, before it stops
\* any: each run it saves goes on or has its end in the queue, each it does
\* not save is over.
SaveFaithful ==
  [][k'.saved /\ ~k.saved =>
       /\ ~k.quitting
       /\ \A t \in Task : mode[t] = k.frozen.number
       /\ alive \subseteq k'.snapshot
       /\ \A t \in k'.snapshot \ alive : <<"Stopped", t>> \in Range(queue)]_vars

\* One request to quit never ends the loop with a task still active: only a
\* second one does.
GracefulUnlessRepeated == sent.quits = 1 /\ k.over => k.active = {}

\* A quit ends the runner, whatever the tasks, the save and the upgrades do.
QuitEnds == sent.quits > 0 ~> ~Running

\* The same, as long as no handler is dead and no upgrade comes in between:
\* neither a task that does not answer, nor a failing save, nor another quit
\* keeps a quit from its end.
QuitEndsUndisturbed ==
  sent.quits > 0 ~> (~Running \/ dead # {} \/ sent.upgrades > 0)

\* Every message is handled in the end, however many freezes come between.
IntentsHandled ==
  \A i \in 1 .. MaxIntents :
    sent.intents >= i ~> (i \in Range(k.applied) \/ ~Running)

\* Whatever a freeze held up goes on after it: what was deferred, and the quit
\* that froze the tasks for its save.
FreezesEnd == IntentsHandled /\ QuitEndsUndisturbed
=============================================================================
