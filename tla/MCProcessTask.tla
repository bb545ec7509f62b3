---------------------------- MODULE MCProcessTask ----------------------------
(***************************************************************************)
(* Instances of ProcessTask for TLC: a service with and without a ready    *)
(* check, brought back when it fails, and a job.                           *)
(***************************************************************************)
EXTENDS ProcessTaskProperties

CONSTANTS t, init

Service(ready) ==
  [kind |-> "Service", ready |-> ready, restart |-> "OnFailure", deps |-> {},
   pinned |-> FALSE, savedPin |-> FALSE, restartRunning |-> FALSE]

Job == [Service("Immediate") EXCEPT !.kind = "Job"]

AllDefs == {Service("Immediate"), Service("ReportedTimeout"), Job}
=============================================================================
