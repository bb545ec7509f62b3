------------------------------ MODULE MCUpgrade ------------------------------
(***************************************************************************)
(* Instances of Upgrade for TLC.                                           *)
(***************************************************************************)
EXTENDS UpgradeProperties

CONSTANTS c1, c2, t1, t2

Kinds == {"call", "quit", "wait", "upgrade"}

\* One client that pipelines its requests; one over two upgrades; two clients;
\* two tasks; one task over two upgrades.
Pipelining == [clients |-> {c1}, tasks |-> {}, kinds |-> Kinds,
               requests |-> 2, attempts |-> 1, runs |-> 0]
UpgradedTwice == [clients |-> {c1}, tasks |-> {}, kinds |-> Kinds,
                  requests |-> 1, attempts |-> 2, runs |-> 0]
TwoClients == [clients |-> {c1, c2}, tasks |-> {}, kinds |-> {"call"},
               requests |-> 1, attempts |-> 1, runs |-> 0]
TwoTasks == [clients |-> {}, tasks |-> {t1, t2}, kinds |-> {},
             requests |-> 0, attempts |-> 1, runs |-> 3]
OneTask == [clients |-> {}, tasks |-> {t1}, kinds |-> {},
            requests |-> 0, attempts |-> 2, runs |-> 3]

Runners == {Pipelining, UpgradedTwice, TwoClients, TwoTasks, OneTask}
=============================================================================
