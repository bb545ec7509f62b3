------------------------------- MODULE Freeze -------------------------------
(***************************************************************************)
(* The kernel's loop as the rest of the runner sees it (kernel/kernel.rs,  *)
(* impl Kernel): one queue of messages, a freeze during which intent is    *)
(* deferred, and the two users of a freeze: a live upgrade (upgrade/mod.rs)*)
(* and a quit that saves the graph first.                                  *)
(*                                                                         *)
(* The graph is kept to what a freeze can tell apart: which tasks are      *)
(* active, and whether the runner is quitting (Kernel and KernelGraph have *)
(* the rest).  Every message that is deferred while frozen, whatever it    *)
(* does, is an intent, numbered in the order in which it was sent.  Quit   *)
(* and QuitWithin differ in a reply only, and are one message.             *)
(***************************************************************************)
EXTENDS Integers, FiniteSets, Sequences, SequencesExt

CONSTANTS
  Task,         \* the registered tasks
  Mortal,       \* the tasks whose handler may end
  HasSave,      \* whether a save is set up (a runner's kernel has one)
  MaxIntents,   \* bounds the model: intents sent,
  MaxQuits,     \* quits sent,
  MaxUpgrades,  \* and upgrades tried,
  MaxEvents     \* and these and handlers that end, together

ASSUME FreezeAssumption ==
  /\ IsFiniteSet(Task)
  /\ Mortal \subseteq Task
  /\ HasSave \in BOOLEAN
  /\ MaxIntents \in Nat
  /\ MaxQuits \in Nat
  /\ MaxUpgrades \in Nat
  /\ MaxEvents \in Nat

VARIABLES
  queue,     \* the kernel's channel
  k,         \* the kernel
  mode,      \* what each task last did with its commands: 0 thawed, n frozen by n
  alive,     \* the tasks with a run
  dead,      \* the tasks whose handler is gone
  upgrade,   \* the one upgrade at a time: "none", "asked" to freeze, "execed"
  sent       \* how many messages of each bounded kind were sent

vars == <<queue, k, mode, alive, dead, upgrade, sent>>

\* `reply` is who is to be answered; `who`, which upgrade's freeze it is.
NoFreeze ==
  [number |-> 0, reply |-> "none", who |-> 0, waiting |-> {}, deferred |-> <<>>]

Init ==
  /\ queue = <<>>
  /\ k = [frozen |-> NoFreeze,  \* the freeze in progress
          freezes |-> 0,        \* freezes begun so far
          replay |-> <<>>,      \* what a thaw handed back
          quitting |-> FALSE,
          active |-> Task,      \* the tasks the graph has as active
          effects |-> {},       \* the tasks with a queued stop report
          inbox |-> [t \in Task |-> <<>>],
          timers |-> {},        \* freezes whose SAVE_TIMEOUT still runs
          snapshot |-> {},      \* what the last complete freeze captured: active
          saved |-> FALSE,
          applied |-> <<>>,     \* the intents handled, in order
          answers |-> [u \in 1 .. MaxUpgrades |-> "none"],  \* to each upgrade's freeze
          over |-> FALSE]       \* the loop has ended
  /\ mode = [t \in Task |-> 0]
  /\ alive = Task
  /\ dead = {}
  /\ upgrade = "none"
  /\ sent = [intents |-> 0, quits |-> 0, upgrades |-> 0]

\* The bound on what happens to a kernel from outside.
Room == sent.intents + sent.quits + sent.upgrades + Cardinality(dead) < MaxEvents

IsFrozen(kk) == kk.frozen # NoFreeze

-----------------------------------------------------------------------------
(* The kernel's operations *)

\* A command to every task; one whose handler is gone reports it stopped.
Broadcast(kk, cmd) ==
  [kk EXCEPT !.inbox = [t \in Task |-> IF t \in dead THEN @[t] ELSE Append(@[t], cmd)],
             !.effects = @ \cup dead]

\* freeze(reply): a freeze that a dead handler makes impossible has no reply
\* to give, but the tasks stay frozen.
BeginFreezeFor(kk, reply, u) ==
  LET number == kk.freezes + 1
      told == Broadcast([kk EXCEPT !.freezes = number], number)
  IN [told EXCEPT
        !.frozen = [number |-> number,
                    reply |-> IF dead = {} THEN reply ELSE "none", who |-> u,
                    waiting |-> Task, deferred |-> <<>>],
        !.answers = IF reply = "Rpc" /\ dead # {} THEN [@ EXCEPT ![u] = "err"] ELSE @]

\* Mutant: an upgrade joins a freeze in progress.
begin_freeze_joining(kk, u) ==
  IF kk.quitting THEN [kk EXCEPT !.answers[u] = "err"]
  ELSE IF IsFrozen(kk) THEN [kk EXCEPT !.answers[u] = "ok"]
  ELSE BeginFreezeFor(kk, "Rpc", u)

begin_freeze(kk, u) ==
  IF IsFrozen(kk) \/ kk.quitting THEN [kk EXCEPT !.answers[u] = "err"]
  ELSE BeginFreezeFor(kk, "Rpc", u)

\* Mutant: a thaw drops what was deferred.
thaw_drops(kk) ==
  IF ~IsFrozen(kk) THEN kk ELSE [Broadcast(kk, 0) EXCEPT !.frozen = NoFreeze]

thaw(kk) ==
  IF ~IsFrozen(kk) THEN kk
  ELSE [Broadcast(kk, 0) EXCEPT !.frozen = NoFreeze,
                                !.replay = @ \o kk.frozen.deferred]

freezing_for_quit(kk) == kk.frozen.reply = "Quit"

\* The first quit; a second one ends the loop at once.
begin_quit(kk) == IF kk.quitting THEN [kk EXCEPT !.over = TRUE]
                  ELSE [kk EXCEPT !.quitting = TRUE]

\* Mutant: the save waits for the tasks as long as they take.
quit_untimed(kk, save) ==
  IF save /\ HasSave /\ ~kk.quitting THEN BeginFreezeFor(kk, "Quit", 0)
  ELSE begin_quit(IF freezing_for_quit(kk) THEN thaw(kk) ELSE kk)

quit(kk, save) ==
  IF save /\ HasSave /\ ~kk.quitting
  THEN LET frozen == BeginFreezeFor(kk, "Quit", 0)
       IN [frozen EXCEPT !.timers = @ \cup {frozen.freezes}]
  ELSE begin_quit(IF freezing_for_quit(kk) THEN thaw(kk) ELSE kk)

\* Mutant: an answer to an earlier freeze counts.
on_task_frozen_any(kk, t, number) ==
  IF IsFrozen(kk) THEN [kk EXCEPT !.frozen.waiting = @ \ {t}] ELSE kk

on_task_frozen(kk, t, number) ==
  IF IsFrozen(kk) /\ kk.frozen.number = number
  THEN [kk EXCEPT !.frozen.waiting = @ \ {t}] ELSE kk

\* Mutant: the timeout of a save that is over counts.
on_freeze_timeout_late(kk, number) == begin_quit(thaw(kk))

\* The save gave up waiting.
on_freeze_timeout(kk, number) ==
  IF freezing_for_quit(kk) /\ kk.frozen.number = number
  THEN begin_quit(thaw(kk)) ELSE kk

\* A complete freeze is answered: to the upgrade, or by saving and quitting.
\* The save itself may fail; the quit goes on.
finish_freeze(kk, saveOk) ==
  LET done == [kk EXCEPT !.frozen.reply = "none", !.snapshot = kk.active]
  IN IF ~IsFrozen(kk) \/ kk.frozen.waiting # {} \/ kk.frozen.reply = "none" THEN kk
     ELSE IF kk.frozen.reply = "Quit"
     THEN begin_quit(thaw([done EXCEPT !.saved = saveOk]))
     ELSE [done EXCEPT !.answers[kk.frozen.who] = "ok"]

\* Handles one message.
dispatch_now(kk, msg, saveOk) ==
  LET handled ==
        CASE msg[1] = "Quit"          -> quit(kk, msg[2])
          [] msg[1] = "Intent"        -> [kk EXCEPT !.applied = Append(@, msg[2])]
          [] msg[1] = "Stopped"       -> [kk EXCEPT !.active = @ \ {msg[2]}]
          [] msg[1] = "Freeze"        -> begin_freeze(kk, msg[2])
          [] msg[1] = "Frozen"        -> on_task_frozen(kk, msg[2], msg[3])
          [] msg[1] = "FreezeTimeout" -> on_freeze_timeout(kk, msg[2])
          [] msg[1] = "Thaw"          -> thaw(kk)
  IN IF handled.over THEN handled ELSE finish_freeze(handled, saveOk)

\* While frozen, facts are handled, intent waits, and a quit that is already
\* saving takes in another.
dispatch(kk, msg, saveOk) ==
  LET forQuit == freezing_for_quit(kk)
  IN CASE ~IsFrozen(kk) \/ msg[1] \notin {"Quit", "Intent"} ->
            dispatch_now(kk, msg, saveOk)
       [] IsFrozen(kk) /\ msg[1] = "Quit" /\ forQuit ->
            IF msg[2] THEN kk ELSE dispatch_now(kk, msg, saveOk)
       [] OTHER -> [kk EXCEPT !.frozen.deferred = Append(@, msg)]

\* Settling, unless frozen: stop reports queued by dead handlers land, and a
\* quit stops every task (a dead one has no one to wait for).
after_dispatch(kk) ==
  IF IsFrozen(kk) THEN kk
  ELSE [kk EXCEPT !.active = @ \ (kk.effects \cup (IF kk.quitting THEN dead ELSE {})),
                  !.effects = {}]

Running == ~k.over /\ upgrade # "execed"

\* One turn of the loop: what a thaw handed back goes before the channel.
Turn ==
  /\ Running
  /\ k.replay # <<>> \/ queue # <<>>
  /\ \E saveOk \in BOOLEAN :
       LET msg == IF k.replay # <<>> THEN Head(k.replay) ELSE Head(queue)
           popped == IF k.replay # <<>> THEN [k EXCEPT !.replay = Tail(@)] ELSE k
           dispatched == dispatch(popped, msg, saveOk)
           settled == IF dispatched.over THEN dispatched ELSE after_dispatch(dispatched)
       IN k' = [settled EXCEPT !.over = @ \/ (settled.quitting /\ settled.active = {})]
  /\ queue' = IF k.replay # <<>> THEN queue ELSE Tail(queue)
  /\ UNCHANGED <<mode, alive, dead, upgrade, sent>>

\* The stop timers of a quit run out on t, which does not end.
GiveUp(t) ==
  /\ Running
  /\ k.quitting /\ ~IsFrozen(k) /\ k.replay = <<>>
  /\ t \in k.active
  /\ k' = [k EXCEPT !.active = @ \ {t}, !.over = k.active = {t}]
  /\ UNCHANGED <<queue, mode, alive, dead, upgrade, sent>>

-----------------------------------------------------------------------------
(* The tasks *)

Send(msg) == queue' = Append(queue, msg)

\* A task takes its next command; a freeze is answered with its number.
Obey(t) ==
  /\ Running
  /\ t \notin dead
  /\ k.inbox[t] # <<>>
  /\ k' = [k EXCEPT !.inbox[t] = Tail(@)]
  /\ mode' = [mode EXCEPT ![t] = Head(k.inbox[t])]
  /\ IF Head(k.inbox[t]) = 0 THEN UNCHANGED queue
     ELSE Send(<<"Frozen", t, Head(k.inbox[t])>>)
  /\ UNCHANGED <<alive, dead, upgrade, sent>>

\* The task has answered the freeze of the upgrade under way.  The upgrade
\* pauses the reaper before it asks for the freeze.
Paused(t) ==
  /\ upgrade # "none"
  /\ k.frozen.who = sent.upgrades
  /\ mode[t] = k.frozen.number

\* A run ends, by itself or because the quit stops it.  A frozen task reads
\* no output, but takes an exit the reaper hands it.
RunEnds(t) ==
  /\ Running
  /\ t \in alive \ dead
  /\ ~Paused(t)
  /\ alive' = alive \ {t}
  /\ Send(<<"Stopped", t>>)
  /\ UNCHANGED <<k, mode, dead, upgrade, sent>>

\* A handler ends; one that panics is reported stopped.
HandlerEnds(t) ==
  /\ Running
  /\ t \in Mortal \ dead /\ Room
  /\ mode[t] = 0
  /\ dead' = dead \cup {t}
  /\ alive' = alive \ {t}
  /\ k' = [k EXCEPT !.inbox[t] = <<>>]
  /\ \/ Send(<<"Stopped", t>>)
     \/ t \notin alive /\ UNCHANGED queue
  /\ UNCHANGED <<mode, upgrade, sent>>

-----------------------------------------------------------------------------
(* The users *)

SendIntent ==
  /\ Running
  /\ sent.intents < MaxIntents /\ Room
  /\ sent' = [sent EXCEPT !.intents = @ + 1]
  /\ Send(<<"Intent", sent'.intents>>)
  /\ UNCHANGED <<k, mode, alive, dead, upgrade>>

SendQuit(save) ==
  /\ Running
  /\ sent.quits < MaxQuits /\ Room
  /\ sent' = [sent EXCEPT !.quits = @ + 1]
  /\ Send(<<"Quit", save>>)
  /\ UNCHANGED <<k, mode, alive, dead, upgrade>>

\* SAVE_TIMEOUT after a quit began to save.
SaveTimeout(number) ==
  /\ Running
  /\ number \in k.timers
  /\ k' = [k EXCEPT !.timers = @ \ {number}]
  /\ Send(<<"FreezeTimeout", number>>)
  /\ UNCHANGED <<mode, alive, dead, upgrade, sent>>

\* The upgrade freezes the kernel ...
UpgradeBegins ==
  /\ Running
  /\ upgrade = "none"
  /\ sent.upgrades < MaxUpgrades /\ Room
  /\ sent' = [sent EXCEPT !.upgrades = @ + 1]
  /\ Send(<<"Freeze", sent'.upgrades>>)
  /\ upgrade' = "asked"
  /\ UNCHANGED <<k, mode, alive, dead>>

\* ... thaws it when the freeze was refused, or took longer than
\* FREEZE_TIMEOUT, or when the new binary rejects the snapshot or the exec
\* fails ...
UpgradeFails ==
  /\ Running
  /\ upgrade = "asked"
  /\ Send(<<"Thaw">>)
  /\ upgrade' = "none"
  /\ UNCHANGED <<k, mode, alive, dead, sent>>

\* ... and else becomes the new binary.
Exec ==
  /\ Running
  /\ upgrade = "asked"
  /\ k.answers[sent.upgrades] = "ok"
  /\ upgrade' = "execed"
  /\ UNCHANGED <<queue, k, mode, alive, dead, sent>>

\* Waiting for a message, or ended.
Stand ==
  /\ ~Running \/ (k.replay = <<>> /\ queue = <<>>)
  /\ UNCHANGED vars

Next ==
  \/ Turn
  \/ \E t \in Task : GiveUp(t) \/ Obey(t) \/ RunEnds(t) \/ HandlerEnds(t)
  \/ SendIntent
  \/ \E save \in BOOLEAN : SendQuit(save)
  \/ \E number \in k.timers : SaveTimeout(number)
  \/ UpgradeBegins \/ UpgradeFails \/ Exec
  \/ Stand

Spec == Init /\ [][Next]_vars

\* The loop takes what is queued; tokio's sleeps end; an upgrade ends, by its
\* own timeouts if nothing else; the stops of a quit time out (Kernel,
\* QuitTerminates).  No task is trusted to answer or to end.
Fairness ==
  /\ WF_vars(Turn)
  /\ WF_vars(\E number \in k.timers : SaveTimeout(number))
  /\ WF_vars(UpgradeFails \/ Exec)
  /\ \A t \in Task : WF_vars(GiveUp(t))

FairSpec == Spec /\ Fairness
=============================================================================
