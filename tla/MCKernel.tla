------------------------------ MODULE MCKernel ------------------------------
(***************************************************************************)
(* Instances of Kernel for TLC.                                            *)
(***************************************************************************)
EXTENDS KernelProperties

CONSTANTS a, b, c, none

D(kind, ready, restart, deps, pinned, savedPin) ==
  [kind |-> kind, ready |-> ready, restart |-> restart, deps |-> deps,
   pinned |-> pinned, savedPin |-> savedPin, restartRunning |-> FALSE]

\* A chain: service c needs service b (ready when it says so, in time), which
\* needs job a.
ChainDef ==
  [t \in {a, b, c} |->
     CASE t = a -> {D("Job", "Immediate", "OnFailure", {}, FALSE, FALSE)}
       [] t = b -> {D("Service", "ReportedTimeout", "Always", {a}, FALSE, TRUE)}
       [] t = c -> {D("Service", "Immediate", "Never", {b}, TRUE, FALSE)}]

\* Updates that rewire it: a may be given a dep on b, and b be made a job that has
\* none, so an update may close a cycle, be refused, or change a run's kind under it.
U(kind, ready, restart, deps) ==
  [D(kind, ready, restart, deps, FALSE, FALSE) EXCEPT !.restartRunning = TRUE]

RewiredDef ==
  [t \in {a, b, c} |->
     ChainDef[t] \cup
     CASE t = a -> {U("Job", "Immediate", "Never", {b})}
       [] t = b -> {U("Job", "Immediate", "OnFailure", {})}
       [] t = c -> {}]

Singles == {{t} : t \in Task}
SinglesAndAll == Singles \cup {Task}
=============================================================================
