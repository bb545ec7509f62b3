------------------------------- MODULE MCWaits -------------------------------
(***************************************************************************)
(* Instances of Waits for TLC.                                             *)
(***************************************************************************)
EXTENDS WaitsProperties

CONSTANTS a, b, c, none

D(kind, ready, restart, deps, running) ==
  [kind |-> kind, ready |-> ready, restart |-> restart, deps |-> deps,
   pinned |-> FALSE, savedPin |-> FALSE, restartRunning |-> running]

\* Service a is brought back when it fails and must be ready in time; job b
\* needs it.
PairDef ==
  [t \in {a, b} |->
     IF t = a
     THEN {D("Service", "ReportedTimeout", "OnFailure", {}, FALSE)}
     ELSE {D("Job", "Immediate", "Never", {a}, FALSE)}]

\* A database, a migration and an app: c needs job b needs a, which runs once.
ChainDef ==
  [t \in {a, b, c} |->
     IF t = a THEN {D("Service", "Immediate", "Never", {}, FALSE)}
     ELSE IF t = b THEN {D("Job", "Immediate", "Never", {a}, FALSE)}
     ELSE {D("Service", "Reported", "Never", {b}, FALSE)}]

AllAtOnce == {{t} : t \in Task} \cup {Task}
=============================================================================
